------------------------------ MODULE Lifecycle ------------------------------
(***************************************************************************)
(* Generations and their holders (src/src/elite_shm.c).  One authority,    *)
(* whose owner serializes its calls, keeps a ledger of backing objects     *)
(* (generations), registers the process of each endpoint, issues one grant *)
(* per endpoint, and may destroy an object only when every holder of an    *)
(* issued grant is resolved, by its cleanup receipt or by having died and  *)
(* been reaped.  Processes use their grants (attach), give them back       *)
(* (detach) and die at any instruction in between, and meet the authority  *)
(* at one word: the gate, an admission state and an attachment count.      *)
(*                                                                         *)
(* One action stands for one access to shared memory with the local work   *)
(* around it; the compare-and-swap loops on the gate are their successful  *)
(* swap.  A call of the authority that no process can observe half way is  *)
(* one action.  What moves through the ring is the business of Ncq and     *)
(* Spsc: here a handle is used, retired or detached whenever its owner     *)
(* likes.  Identities, sizes and layouts always match (a grant is trusted).*)
(***************************************************************************)
EXTENDS Integers, FiniteSets

CONSTANTS
  Owner,            \* the process of the authority
  Children,         \* its child processes
  Nobody,           \* the process of an endpoint that has none
  Endpoints,        \* endpoints of an object
  Copies,           \* deliveries of one grant, each of them an attach
  Slots,            \* length of the ledger (4)
  MaxQuarantined,   \* quarantined objects it may keep (2)
  MaxEpoch,         \* generations ever created (2^64 - 1)
  Faults            \* calls of the operating system that may fail

ASSUME LifecycleAssumption ==
  /\ Owner \notin Children /\ Nobody \notin {Owner} \cup Children
  /\ IsFiniteSet(Children) /\ IsFiniteSet(Endpoints) /\ IsFiniteSet(Copies)
  /\ Slots \in Nat \ {0} /\ MaxQuarantined \in Nat /\ MaxEpoch \in Nat
  /\ Faults \subseteq {"create", "attach", "unlink", "munmap", "close"}

Procs       == {Owner} \cup Children
Generations == 1 .. MaxEpoch
Grants      == Generations \X Endpoints
Conns       == Generations \X Endpoints \X Copies
Gen(c)      == c[1]
GrantOf(c)  == <<c[1], c[2]>>

VARIABLES
  nextEpoch,   \* the authority's last session number
  ledger,      \* flags of each object; {} when it is not in the ledger
  manager,     \* the call the authority is executing
  gate,        \* admission state and attachment count of each object
  failed,      \* objects with a recorded failure reason
  holder,      \* the registered process of each endpoint, what it was issued
  attachment,  \* the attachment word of each endpoint
  conn,        \* the handle of each delivery of a grant
  dead, reaped

authority == <<nextEpoch, ledger, manager>>
procs     == <<dead, reaped>>
vars      == <<authority, gate, failed, holder, attachment, conn, procs>>

NoCall == [pc |-> "idle", gen |-> 0]
NoHolder == [pid |-> Nobody, issued |-> FALSE, resolved |-> FALSE]

Init ==
  /\ nextEpoch = 0
  /\ ledger = [g \in Generations |-> {}]
  /\ manager = NoCall
  /\ gate = [g \in Generations |-> [state |-> "BUILDING", count |-> 0]]
  /\ failed = {}
  /\ holder = [h \in Grants |-> NoHolder]
  /\ attachment = [h \in Grants |-> "NEW"]
  /\ conn = [c \in Conns |-> [pc |-> "none", has |-> {}]]
  /\ dead = {} /\ reaped = {}

Present == {g \in Generations : ledger[g] # {}}
With(flag) == {g \in Present : flag \in ledger[g]}
Idle == manager.pc = "idle"

\* el_retire_raw: a READY gate closes and keeps its count; a later state stays.
Retired(word) == IF word.state = "READY" THEN [word EXCEPT !.state = "RETIRE_REQUESTED"] ELSE word
-----------------------------------------------------------------------------
(* The authority creates an object and hands out its endpoints.            *)

Candidates == Present \ (With("active") \cup With("quarantined"))

\* elite_create.  Whatever fails, the session number is used up; once the name
\* exists the object stays in the ledger, to be destroyed by its caller.
Create ==
  /\ Idle /\ Candidates = {} /\ Cardinality(Present) < Slots /\ nextEpoch < MaxEpoch
  /\ nextEpoch' = nextEpoch + 1
  /\ \/ /\ ledger' = [ledger EXCEPT ![nextEpoch'] = {"present", "created", "mapped", "constructed"}]
        /\ gate' = [gate EXCEPT ![nextEpoch'].state = "READY"]
     \/ /\ "create" \in Faults
        /\ \E flags \in {{}, {"present", "created"}, {"present", "created", "mapped"}} :
             ledger' = [ledger EXCEPT ![nextEpoch'] = flags]
        /\ UNCHANGED gate
  /\ UNCHANGED <<manager, failed, holder, attachment, conn, procs>>

\* Mutant: an active predecessor does not forbid an activation.
Activate_Unchecked(g) ==
  /\ Idle /\ g \in With("constructed")
  /\ ledger[g] \cap {"noMoreGrants", "quarantined"} = {} /\ gate[g].state = "READY"
  /\ ledger' = [ledger EXCEPT ![g] = @ \cup {"active"}]
  /\ UNCHANGED <<nextEpoch, manager, gate, failed, holder, attachment, conn, procs>>

Activate(g) ==
  /\ Idle /\ g \in With("constructed")
  /\ ledger[g] \cap {"noMoreGrants", "quarantined"} = {} /\ gate[g].state = "READY"
  /\ With("active") \subseteq {g}
  /\ ledger' = [ledger EXCEPT ![g] = @ \cup {"active"}]
  /\ UNCHANGED <<nextEpoch, manager, gate, failed, holder, attachment, conn, procs>>

\* elite_object_register_process: self, or a child that nobody has reaped.
Register(h, p) ==
  /\ Idle /\ h[1] \in With("constructed") \ With("noMoreGrants")
  /\ holder[h].pid = Nobody /\ p \notin reaped
  /\ holder' = [holder EXCEPT ![h].pid = p]
  /\ UNCHANGED <<authority, gate, failed, attachment, conn, procs>>

\* elite_object_grant: the holder is charged before the grant leaves.
Grant(h) ==
  /\ Idle /\ h[1] \in (With("constructed") \cap With("active")) \ With("noMoreGrants")
  /\ gate[h[1]].state = "READY" /\ h[1] \notin failed
  /\ holder[h].pid # Nobody /\ ~holder[h].issued /\ ~holder[h].resolved
  /\ holder' = [holder EXCEPT ![h].issued = TRUE]
  /\ UNCHANGED <<authority, gate, failed, attachment, conn, procs>>
-----------------------------------------------------------------------------
(* The authority resolves holders.                                         *)

\* Mutant: the receipt of a delivery that claimed nothing is accepted.
AckCleanup_AnyReceipt(c) ==
  /\ Idle /\ Gen(c) \in With("constructed")
  /\ conn[c].pc = "receipt"
  /\ holder[GrantOf(c)].issued
  /\ holder' = [holder EXCEPT ![GrantOf(c)].resolved = TRUE]
  /\ UNCHANGED <<authority, gate, failed, attachment, conn, procs>>

\* elite_object_ack_cleanup with the receipt of delivery c.
AckCleanup(c) ==
  /\ Idle /\ Gen(c) \in With("constructed")
  /\ conn[c].pc = "receipt" /\ "claim" \in conn[c].has
  /\ attachment[GrantOf(c)] \in {"QUIESCENT", "REJECTED"}
  /\ holder[GrantOf(c)].issued
  /\ holder' = [holder EXCEPT ![GrantOf(c)].resolved = TRUE]
  /\ UNCHANGED <<authority, gate, failed, attachment, conn, procs>>

Unresolved(p) == {h \in Grants : h[1] \in Present /\ holder[h].pid = p /\ ~holder[h].resolved}

\* elite_authority_reap_child: a death resolves every grant of the child and
\* retires the objects it held.
Reap(p) ==
  /\ Idle /\ p \in dead \ reaped /\ Unresolved(p) # {}
  /\ reaped' = reaped \cup {p}
  /\ holder' = [h \in Grants |->
       IF h \in Unresolved(p) THEN [holder[h] EXCEPT !.resolved = TRUE] ELSE holder[h]]
  /\ LET touched == {h[1] : h \in Unresolved(p)} \cap With("constructed") IN
       /\ ledger' = [g \in Generations |->
            IF g \in touched THEN ledger[g] \cup {"noMoreGrants"} ELSE ledger[g]]
       /\ gate' = [g \in Generations |-> IF g \in touched THEN Retired(gate[g]) ELSE gate[g]]
       /\ failed' = failed \cup touched
  /\ UNCHANGED <<nextEpoch, manager, attachment, conn, dead>>
-----------------------------------------------------------------------------
(* The authority retires, quarantines and destroys an object.              *)

\* elite_object_retire, with a failure reason or with none.
ObjectRetire(g, reason) ==
  /\ Idle /\ g \in With("constructed")
  /\ ledger' = [ledger EXCEPT ![g] = @ \cup {"noMoreGrants"}]
  /\ gate' = [gate EXCEPT ![g] = Retired(@)]
  /\ failed' = IF reason THEN failed \cup {g} ELSE failed
  /\ UNCHANGED <<nextEpoch, manager, holder, attachment, conn, procs>>

\* elite_object_quarantine: beyond the budget the object is only retired; a
\* SEALED one (its destruction failed half way) is not quarantined either.
Quarantine(g) ==
  /\ Idle /\ g \in With("constructed") \ With("quarantined")
  /\ LET over == Cardinality(With("quarantined")) >= MaxQuarantined
         done == ~over /\ gate[g].state # "SEALED"
     IN  /\ ledger' = [ledger EXCEPT ![g] =
              IF done THEN (@ \ {"active"}) \cup {"noMoreGrants", "quarantined"}
                      ELSE @ \cup {"noMoreGrants"}]
         /\ gate' = [gate EXCEPT ![g] =
              IF done THEN [@ EXCEPT !.state = "QUARANTINED"] ELSE Retired(@)]
         /\ failed' = IF over THEN failed \cup {g} ELSE failed
  /\ UNCHANGED <<nextEpoch, manager, holder, attachment, conn, procs>>

AllResolved(g) == \A i \in Endpoints : holder[<<g, i>>].issued => holder[<<g, i>>].resolved

\* Mutant: the attachment count is the criterion.
Destroy_CountsAttachments(g) ==
  /\ Idle /\ g \in Present
  /\ ledger' = [ledger EXCEPT ![g] = @ \cup {"noMoreGrants"}]
  /\ IF "constructed" \in ledger[g]
     THEN /\ gate' = [gate EXCEPT ![g] = Retired(@)]
          /\ manager' = IF gate[g].count = 0 THEN [pc |-> "seal", gen |-> g] ELSE manager
     ELSE manager' = [pc |-> "unlink", gen |-> g] /\ UNCHANGED gate
  /\ UNCHANGED <<nextEpoch, failed, holder, attachment, conn, procs>>

\* elite_object_destroy, up to the check that every holder is resolved.
Destroy(g) ==
  /\ Idle /\ g \in Present
  /\ ledger' = [ledger EXCEPT ![g] = @ \cup {"noMoreGrants"}]
  /\ \/ "uncertain" \in ledger[g] /\ UNCHANGED <<manager, gate>>
     \/ /\ ledger[g] \cap {"uncertain", "constructed"} = {}
        /\ manager' = [pc |-> "unlink", gen |-> g] /\ UNCHANGED gate
     \/ /\ "uncertain" \notin ledger[g] /\ "constructed" \in ledger[g]
        /\ gate' = [gate EXCEPT ![g] = Retired(@)]
        /\ manager' = IF AllResolved(g) THEN [pc |-> "seal", gen |-> g] ELSE manager
  /\ UNCHANGED <<nextEpoch, failed, holder, attachment, conn, procs>>

\* Only now may a count that the dead have left behind be dropped.
Seal ==
  /\ manager.pc = "seal"
  /\ gate' = [gate EXCEPT ![manager.gen] = [state |-> "SEALED", count |-> 0]]
  /\ manager' = [manager EXCEPT !.pc = "unlink"]
  /\ UNCHANGED <<nextEpoch, ledger, failed, holder, attachment, conn, procs>>

\* A destruction that fails here or later keeps what is left, for a retry.
Unlink ==
  /\ manager.pc = "unlink"
  /\ \/ /\ ledger' = [ledger EXCEPT ![manager.gen] = @ \ {"created"}]
        /\ manager' = [manager EXCEPT !.pc = "unmap"]
     \/ /\ "unlink" \in Faults /\ "created" \in ledger[manager.gen]
        /\ manager' = NoCall /\ UNCHANGED ledger
  /\ UNCHANGED <<nextEpoch, gate, failed, holder, attachment, conn, procs>>

\* The mapping, then the descriptor: the outcome of a failed close is unknown,
\* so the object is never destroyed after one.
Unmap ==
  /\ manager.pc = "unmap"
  /\ \/ ledger' = [ledger EXCEPT ![manager.gen] = {}]
     \/ "munmap" \in Faults /\ "mapped" \in ledger[manager.gen] /\ UNCHANGED ledger
     \/ /\ "close" \in Faults
        /\ ledger' = [ledger EXCEPT ![manager.gen] = (@ \ {"mapped", "constructed"}) \cup {"uncertain"}]
  /\ manager' = NoCall
  /\ UNCHANGED <<nextEpoch, gate, failed, holder, attachment, conn, procs>>

\* elite_authority_destroy.
AuthorityDestroy ==
  /\ Idle /\ Present = {}
  /\ manager' = [NoCall EXCEPT !.pc = "destroyed"]
  /\ UNCHANGED <<nextEpoch, ledger, gate, failed, holder, attachment, conn, procs>>
-----------------------------------------------------------------------------
(* A process attaches with one delivery of its grant.                      *)

At(c, label) == conn[c].pc = label /\ holder[GrantOf(c)].pid \notin dead
Move(c, label, has) == conn' = [conn EXCEPT ![c] = [pc |-> label, has |-> has]]
Has(c) == conn[c].has

\* elite_attach opens the name and maps the object.  The name is found only
\* while this very generation is linked: names are not used again.  On failure
\* the caller is left with a handle for cleaning up.
Open(c) ==
  /\ At(c, "none") /\ holder[GrantOf(c)].issued
  /\ \/ "created" \in ledger[Gen(c)] /\ Move(c, "claim", {"mapping"})
     \/ /\ "created" \notin ledger[Gen(c)] \/ "attach" \in Faults
        /\ Move(c, "handle", {})
  /\ UNCHANGED <<authority, gate, failed, holder, attachment, procs>>

Claim(c) ==
  /\ At(c, "claim")
  /\ IF attachment[GrantOf(c)] = "NEW"
     THEN /\ attachment' = [attachment EXCEPT ![GrantOf(c)] = "JOINING"]
          /\ Move(c, "enroll", Has(c) \cup {"claim"})
     ELSE Move(c, "cleanup", Has(c)) /\ UNCHANGED attachment
  /\ UNCHANGED <<authority, gate, failed, holder, procs>>

\* The enrolment competes with retirement on the gate word.
Enroll(c) ==
  /\ At(c, "enroll")
  /\ IF gate[Gen(c)].state = "READY" /\ gate[Gen(c)].count < Cardinality(Endpoints)
     THEN /\ gate' = [gate EXCEPT ![Gen(c)].count = @ + 1]
          /\ Move(c, "join", Has(c) \cup {"enrolled"})
     ELSE Move(c, "reject", Has(c)) /\ UNCHANGED gate
  /\ UNCHANGED <<authority, failed, holder, attachment, procs>>

\* Mutant: the record is left as it was claimed.
Reject_Silent(c) ==
  /\ At(c, "reject")
  /\ Move(c, "cleanup", Has(c))
  /\ UNCHANGED <<authority, gate, failed, holder, attachment, procs>>

Reject(c) ==
  /\ At(c, "reject")
  /\ attachment' = [attachment EXCEPT ![GrantOf(c)] = "REJECTED"]
  /\ Move(c, "cleanup", Has(c))
  /\ UNCHANGED <<authority, gate, failed, holder, procs>>

Join(c) ==
  /\ At(c, "join")
  /\ attachment' = [attachment EXCEPT ![GrantOf(c)] = "ACTIVE"]
  /\ Move(c, "handle", Has(c))
  /\ UNCHANGED <<authority, gate, failed, holder, procs>>

\* munmap and close, in attach_cleanup and at the end of elite_detach.
Release(c, done) ==
  \/ Move(c, done, Has(c) \ {"mapping"})
  \/ "munmap" \in Faults /\ "mapping" \in Has(c) /\ Move(c, "handle", Has(c))
  \/ "close" \in Faults /\ Move(c, "handle", (Has(c) \ {"mapping"}) \cup {"uncertain"})

AttachCleanup(c) ==
  /\ At(c, "cleanup")
  /\ Release(c, "handle")
  /\ UNCHANGED <<authority, gate, failed, holder, attachment, procs>>
-----------------------------------------------------------------------------
(* A process uses its handle and detaches.                                 *)

\* elite_retire, el_fail: the failure reason, then the gate.
RetireFailure(c) ==
  /\ At(c, "handle") /\ "enrolled" \in Has(c)
  /\ failed' \in {failed, failed \cup {Gen(c)}}
  /\ Move(c, "retire", Has(c))
  /\ UNCHANGED <<authority, gate, holder, attachment, procs>>

RetireGate(c) ==
  /\ At(c, "retire")
  /\ gate' = [gate EXCEPT ![Gen(c)] = Retired(@)]
  /\ Move(c, "handle", Has(c))
  /\ UNCHANGED <<authority, failed, holder, attachment, procs>>

\* elite_detach, when no call, lease or view is left on the handle.
Detach(c) ==
  /\ At(c, "handle") /\ "uncertain" \notin Has(c)
  /\ IF "enrolled" \in Has(c)
     THEN /\ attachment' = [attachment EXCEPT ![GrantOf(c)] = "QUIESCENT"]
          /\ Move(c, "decrement", Has(c))
     ELSE Move(c, "release", Has(c)) /\ UNCHANGED attachment
  /\ UNCHANGED <<authority, gate, failed, holder, procs>>

\* Mutant: a detach that has to be retried decrements the count again.
Decrement_StaysEnrolled(c) ==
  /\ At(c, "decrement")
  /\ IF gate[Gen(c)].count = 0
     THEN Move(c, "handle", Has(c)) /\ UNCHANGED gate
     ELSE /\ gate' = [gate EXCEPT ![Gen(c)].count = @ - 1]
          /\ Move(c, "release", Has(c))
  /\ UNCHANGED <<authority, failed, holder, attachment, procs>>

\* The handle's last access to shared memory.
Decrement(c) ==
  /\ At(c, "decrement")
  /\ IF gate[Gen(c)].count = 0
     THEN Move(c, "handle", Has(c)) /\ UNCHANGED gate
     ELSE /\ gate' = [gate EXCEPT ![Gen(c)].count = @ - 1]
          /\ Move(c, "release", Has(c) \ {"enrolled"})
  /\ UNCHANGED <<authority, failed, holder, attachment, procs>>

\* The receipt exists once nothing of the handle is left.
DetachRelease(c) ==
  /\ At(c, "release")
  /\ Release(c, "receipt")
  /\ UNCHANGED <<authority, gate, failed, holder, attachment, procs>>

\* A child exits or is killed; what it held stays as it is.
Die(p) ==
  /\ p \notin dead
  /\ dead' = dead \cup {p}
  /\ UNCHANGED <<authority, gate, failed, holder, attachment, conn, reaped>>
-----------------------------------------------------------------------------
DestroyStep == Seal \/ Unlink \/ Unmap

\* What a live process does to be rid of its grant.
LeaveStep(c) ==
  \/ Open(c) \/ Claim(c) \/ Enroll(c) \/ Reject(c) \/ Join(c) \/ AttachCleanup(c)
  \/ RetireGate(c) \/ Detach(c) \/ Decrement(c) \/ DetachRelease(c)

Next ==
  \/ Create \/ DestroyStep \/ AuthorityDestroy
  \/ \E g \in Generations : Activate(g) \/ Quarantine(g) \/ Destroy(g)
  \/ \E g \in Generations, reason \in BOOLEAN : ObjectRetire(g, reason)
  \/ \E h \in Grants : Grant(h)
  \/ \E h \in Grants, p \in Procs : Register(h, p)
  \/ \E p \in Children : Reap(p) \/ Die(p)
  \/ \E c \in Conns : AckCleanup(c) \/ RetireFailure(c) \/ LeaveStep(c)

Spec == Init /\ [][Next]_vars

\* Live processes leave in the end and deliver their receipts, the authority
\* takes receipts, reaps its children and retries the destruction of an object.
FairSpec ==
  /\ Spec /\ WF_vars(DestroyStep)
  /\ \A g \in Generations : WF_vars(g \in With("noMoreGrants") /\ Destroy(g))
  /\ \A p \in Children : WF_vars(Reap(p))
  /\ \A c \in Conns : WF_vars(AckCleanup(c)) /\ WF_vars(LeaveStep(c)) /\ SF_vars(Detach(c))
-----------------------------------------------------------------------------
States == <<"BUILDING", "READY", "RETIRE_REQUESTED", "QUARANTINED", "SEALED">>
Attachments == {"NEW", "JOINING", "ACTIVE", "QUIESCENT", "REJECTED"}
LedgerFlags == {"present", "created", "mapped", "constructed", "active", "quarantined",
                "noMoreGrants", "uncertain"}
Labels == {"none", "claim", "enroll", "reject", "join", "cleanup", "handle", "retire",
           "decrement", "release", "receipt"}

\* Types; an attachment count never leaves 0 .. the number of endpoints, and a
\* handle that has given its receipt keeps nothing but the claim.
TypeOK ==
  /\ nextEpoch \in 0 .. MaxEpoch
  /\ ledger \in [Generations -> SUBSET LedgerFlags]
  /\ manager \in [pc : {"idle", "seal", "unlink", "unmap", "destroyed"}, gen : 0 .. MaxEpoch]
  /\ gate \in [Generations -> [state : {States[i] : i \in 1 .. 5},
                               count : 0 .. Cardinality(Endpoints)]]
  /\ failed \subseteq Generations
  /\ holder \in [Grants -> [pid : Procs \cup {Nobody}, issued : BOOLEAN, resolved : BOOLEAN]]
  /\ attachment \in [Grants -> Attachments]
  /\ conn \in [Conns -> [pc : Labels, has : SUBSET {"mapping", "claim", "enrolled", "uncertain"}]]
  /\ \A c \in Conns : conn[c].pc = "receipt" => conn[c].has \subseteq {"claim"}
  /\ dead \subseteq Children /\ reaped \subseteq dead

OfGen(g) == {c \in Conns : Gen(c) = g}
Alive(c) == holder[GrantOf(c)].pid \notin dead

\* Until the object is sealed its count is the number of handles that have
\* enrolled and not yet left, those of the dead included: no retry of a
\* detach counts twice, no rejected or duplicate attach counts at all.
CountExact ==
  \A g \in Generations :
    gate[g].state # "SEALED" =>
      gate[g].count = Cardinality({c \in OfGen(g) : "enrolled" \in conn[c].has})

\* Of all the deliveries of one grant at most one ever claims the endpoint,
\* and a holder is resolved only when its process is dead or that one has
\* given back everything.
ResolvedMeansGone ==
  /\ \A c, d \in Conns : GrantOf(c) = GrantOf(d) /\ c # d =>
                          ~("claim" \in conn[c].has /\ "claim" \in conn[d].has)
  /\ \A h \in Grants :
       holder[h].issued /\ holder[h].resolved =>
         \/ holder[h].pid \in dead
         \/ \E c \in Conns : /\ GrantOf(c) = h /\ conn[c].pc = "receipt"
                             /\ conn[c].has = {"claim"}

\* An object is sealed, and its name and mapping given up, only when no live
\* process can still use an endpoint of it.
FencedBeforeSeal ==
  \A c \in Conns :
    gate[Gen(c)].state = "SEALED" /\ Alive(c) => ~({"claim", "mapping"} \subseteq conn[c].has)

\* The budget of the ledger: one active object, one candidate, and the
\* quarantined ones.
LedgerBudget ==
  /\ Cardinality(With("active")) <= 1
  /\ Cardinality(Candidates) <= 1
  /\ Cardinality(With("quarantined")) <= MaxQuarantined

\* Two generations are never in service together: an endpoint of an old one
\* that is still open never coexists with an open endpoint of its successor; and
\* the old ones, which may have to wait for their holders, stay within the budget
\* (elite_create, elite_activate, elite_quarantine).
InService(g) == /\ gate[g].state = "READY"
                /\ \E c \in OfGen(g) : "enrolled" \in conn[c].has /\ Alive(c)
SingleService ==
  /\ LedgerBudget
  /\ \A g, h \in Generations : InService(g) /\ InService(h) => g = h

\* A grant whose every delivery failed before it could claim the endpoint, and
\* whose process lives on: nothing will ever tell the authority.
Stranded(h) ==
  /\ holder[h].issued /\ ~holder[h].resolved /\ holder[h].pid \notin dead
  /\ \A c \in Conns : GrantOf(c) = h => conn[c].pc # "none" /\ conn[c].has = {}

\* Once an object grants no more it leaves the ledger in the end, unless it
\* waits for a stranded holder: an attach that fails is the one event that
\* costs the budget a slot for as long as the process lives.
Reclaimed ==
  \A g \in Generations :
    g \in With("noMoreGrants") ~> \/ ledger[g] = {}
                                  \/ \E h \in Grants : h[1] = g /\ Stranded(h)
=============================================================================
