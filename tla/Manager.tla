------------------------------ MODULE Manager ------------------------------
(***************************************************************************)
(* The management half of the Python binding: EliteShm, _Authority,        *)
(* _ObjectLifetime, and _EndpointLifetime towards its owner                *)
(* (bindings/python/elite_ringbuffer/__init__.py).                         *)
(*                                                                         *)
(* Every endpoint has an RLock, the authority has one for all generations. *)
(* Each thread is a stack of frames; a frame says which locks it has       *)
(* taken.  Python may collect garbage wherever a thread allocates, so the  *)
(* frame of a collection lies on top of any other one, whatever locks that *)
(* holds, and its finalizers take locks again.  Native calls under the     *)
(* authority's lock are one action; Lifecycle takes them apart.  A lease   *)
(* is the fact that there is one; Lease takes it apart.                    *)
(***************************************************************************)
EXTENDS Naturals, Sequences, FiniteSets

CONSTANTS
  Threads,
  Managing,       \* those that call the manager
  Using,          \* those that call endpoints and leases
  Locals,         \* endpoint indices the application takes itself
  Remote,         \* those it grants to its child process
  Interruptible,  \* threads a KeyboardInterrupt may reach (the main thread)
  MaxInterrupts   \* bound: KeyboardInterrupts where a close waits to acknowledge

Endpoints == Locals \cup Remote

\* The lock of the authority; that of an endpoint is called like it.
A == "authority"

ASSUME ManagerAssumption ==
  /\ Managing \cup Using \cup Interruptible \subseteq Threads
  /\ Locals \cap Remote = {} /\ A \notin Locals \cup Remote
  /\ MaxInterrupts \in Nat

VARIABLES
  object,      \* the native object of the generation and its _ObjectLifetime
  endpoint,    \* the holder, the _EndpointLifetime and the lease of each endpoint
  ref,         \* the Python objects with a finalizer: none, live, dying, dead
  held,        \* those the application refers to
  child,       \* the child process
  failed,      \* obligations in _FAILED_CLEANUP
  stack,       \* what each thread is doing, innermost frame first
  interrupts

vars == <<object, endpoint, ref, held, child, failed, stack, interrupts>>

\* Python objects with a finalizer: the manager, the wrapper of an endpoint,
\* and the _Pin of its lease.
Shm     == <<"shm", A>>
Wrap(e) == <<"endpoint", e>>
Pin(e)  == <<"pin", e>>
Objects == {Shm} \cup {Wrap(e) : e \in Locals} \cup {Pin(e) : e \in Locals}

\* rest: what the frame still has to do; all: what it started with.
Frame(op, pc, on, by) ==
  [op |-> op, pc |-> pc, on |-> on, by |-> by, locks |-> {}, rest |-> {}, all |-> {}]

Init ==
  /\ object = [alive |-> TRUE, gate |-> "READY", granting |-> TRUE, closeRequested |-> FALSE]
  /\ endpoint = [e \in Endpoints |->
       [holder |-> "none", conn |-> "none", closeRequested |-> FALSE, leased |-> FALSE]]
  /\ ref = [o \in Objects |-> IF o = Shm THEN "live" ELSE "none"]
  /\ held = {Shm}
  /\ child = "running"
  /\ failed = {}
  /\ stack = [t \in Threads |-> <<>>]
  /\ interrupts = 0
-----------------------------------------------------------------------------
(* Frames and locks.                                                       *)

Resting(t)    == stack[t] = <<>>
Top(t)        == Head(stack[t])
At(t, op, pc) == ~Resting(t) /\ Top(t).op = op /\ Top(t).pc = pc

Frames(t)   == {stack[t][i] : i \in 1 .. Len(stack[t])}
Has(t, l)   == \E f \in Frames(t) : l \in f.locks
Free(t, l)  == \A u \in Threads \ {t} : ~Has(u, l)

Replace(t, f) == stack' = [stack EXCEPT ![t] = <<f>> \o Tail(@)]
Goto(t, pc)   == Replace(t, [Top(t) EXCEPT !.pc = pc])
Lock(t, l, pc) == Free(t, l) /\ Replace(t, [Top(t) EXCEPT !.pc = pc, !.locks = @ \cup {l}])
Start(t, f)   == stack' = [stack EXCEPT ![t] = <<f>> \o @]
Return(t)     == stack' = [stack EXCEPT ![t] = Tail(@)]

\* The innermost frame goes on as f once what it calls has returned.
Call(t, callee, f) == stack' = [stack EXCEPT ![t] = <<callee, f>> \o Tail(@)]

\* An exception leaves the frame; EliteShm.close passes it on.
Raise(t) ==
  stack' = [stack EXCEPT ![t] =
    LET callers == Tail(@)
    IN  IF callers # <<>> /\ Head(callers).op = "close_shm" THEN Tail(callers) ELSE callers]

\* What a frame of the application refers to; a close works on every
\* endpoint it has listed.
Uses(f) ==
  IF f.by # "app" THEN {}
  ELSE {Shm} \cup {Wrap(e) : e \in f.all \cup ({f.on} \cap Locals)}

Used == held \cup UNION {Uses(f) : f \in UNION {Frames(t) : t \in Threads}}

\* A pin refers to its endpoint, an endpoint to its manager.
Referrers(o) ==
  CASE o[1] = "shm"      -> {Wrap(e) : e \in Locals}
    [] o[1] = "endpoint" -> {Pin(o[2])}
    [] o[1] = "pin"      -> {}
Alive(o) == ref[o] \in {"live", "dying"}

Connected(e)   == endpoint[e].conn \in {"open", "rejected"}     \* _ptr is not NULL
Connections    == {e \in Locals : Connected(e)}
Busy(e)        == endpoint[e].leased
Recorded(t, x) == failed' = IF Top(t).by = "gc" THEN failed \cup {x} ELSE failed

\* elite_object_retire; elite_object_destroy, which retires whatever it finds
\* and refuses while a grant is unresolved.
Retired   == [object EXCEPT !.gate = "RETIRED", !.granting = FALSE]
Resolved  == \A e \in Endpoints : endpoint[e].holder # "issued"
Destroyed == object' = [Retired EXCEPT !.alive = ~Resolved]
-----------------------------------------------------------------------------
(* Grants, and the endpoints made from them.                               *)

\* EliteShm.grant, and producer and consumer, which use it.
Grant(t, e) ==
  /\ Resting(t) /\ Shm \in held
  /\ Free(t, A)
  /\ Start(t, [Frame("grant", "in", e, "app") EXCEPT !.locks = {A}])
  /\ UNCHANGED <<object, endpoint, ref, held, child, failed, interrupts>>

\* Registered for a process that lives, and issued once.  An endpoint that
\* has been registered is never granted later if it was not at once.
Granted(t) ==
  /\ At(t, "grant", "in")
  /\ LET e == Top(t).on
     IN  IF /\ object.alive /\ object.granting /\ endpoint[e].holder = "none"
            /\ e \in Locals \/ child # "reaped"
         THEN LET issued == object.gate = "READY" IN
              /\ endpoint' = [endpoint EXCEPT ![e].holder = IF issued THEN "issued" ELSE "registered"]
              /\ IF issued /\ e \in Locals THEN Replace(t, Frame("grant", "attach", e, "app")) ELSE Return(t)
         ELSE Return(t) /\ UNCHANGED endpoint
  /\ UNCHANGED <<object, ref, held, child, failed, interrupts>>

\* elite_attach in the constructor of the endpoint.  If the generation has
\* been retired, the exception carries an endpoint that can only be closed.
Attach(t) ==
  /\ At(t, "grant", "attach")
  /\ LET e == Top(t).on
         open == object.gate = "READY"
     IN  /\ endpoint' = [endpoint EXCEPT ![e].conn = IF open THEN "open" ELSE "rejected"]
         /\ ref' = [ref EXCEPT ![Wrap(e)] = "live"]
         /\ held' \in {held \cup {Wrap(e)}} \cup IF open THEN {} ELSE {held}
  /\ Return(t)
  /\ UNCHANGED <<object, child, failed, interrupts>>

\* Any method that holds the endpoint's lock and no other one.
Method(t, e) ==
  /\ Resting(t) /\ {Wrap(e), Pin(e)} \cap held # {}
  /\ Free(t, e)
  /\ Start(t, [Frame("method", "in", e, "app") EXCEPT !.locks = {e}])
  /\ UNCHANGED <<object, endpoint, ref, held, child, failed, interrupts>>

\* It leases the token, gives it back, or does neither.
MethodReturns(t) ==
  /\ At(t, "method", "in")
  /\ LET e == Top(t).on IN
       \/ /\ endpoint[e].conn = "open" /\ ~Busy(e) /\ ref[Pin(e)] = "none"
          /\ object.gate = "READY"
          /\ endpoint' = [endpoint EXCEPT ![e].leased = TRUE]
          /\ ref' = [ref EXCEPT ![Pin(e)] = "live"]
          /\ held' = held \cup {Pin(e)}
       \/ /\ Pin(e) \in held
          /\ endpoint' = [endpoint EXCEPT ![e].leased = FALSE]
          /\ ref' = [ref EXCEPT ![Pin(e)] = "none"]
          /\ held' = held \ {Pin(e)}
       \/ UNCHANGED <<endpoint, ref, held>>
  /\ Return(t)
  /\ UNCHANGED <<object, child, failed, interrupts>>
-----------------------------------------------------------------------------
(* _EndpointLifetime.close, from the application or from a finalizer.      *)

Close(t, e) ==
  /\ Resting(t) /\ Wrap(e) \in held
  /\ Start(t, Frame("close", "enter", e, "app"))
  /\ UNCHANGED <<object, endpoint, ref, held, child, failed, interrupts>>

\* With the lock: nothing to do; a lease or view is out; or elite_detach,
\* whose receipt is kept.
CloseEnter(t) ==
  /\ At(t, "close", "enter") /\ Free(t, Top(t).on)
  /\ LET e == Top(t).on IN
       \/ ~Connected(e) /\ Return(t) /\ UNCHANGED <<endpoint, failed>>
       \/ Connected(e) /\ Busy(e) /\ Raise(t) /\ Recorded(t, Wrap(e)) /\ UNCHANGED endpoint
       \/ /\ Connected(e) /\ ~Busy(e) /\ Lock(t, e, "ack")
          /\ endpoint' = [endpoint EXCEPT ![e].conn = "gone"]
          /\ UNCHANGED failed
  /\ UNCHANGED <<object, ref, held, child, interrupts>>

\* owner.ack waits for the authority's lock inside the endpoint's.
Ack(t) ==
  /\ At(t, "close", "ack") /\ Lock(t, A, "acking")
  /\ UNCHANGED <<object, endpoint, ref, held, child, failed, interrupts>>

AckInterrupted(t) ==
  /\ t \in Interruptible /\ interrupts < MaxInterrupts
  /\ At(t, "close", "ack")
  /\ interrupts' = interrupts + 1
  /\ Raise(t) /\ Recorded(t, Wrap(Top(t).on))
  /\ UNCHANGED <<object, endpoint, ref, held, child>>

\* Mutant: the other endpoints are not looked at.
Closable_AnyConnection == object.closeRequested /\ object.alive

\* _ObjectLifetime.try_close.
Closable == object.closeRequested /\ object.alive /\ Connections = {}
LifeClose == Frame("life_close", "enter", A, "gc")

\* The holder is resolved; then owner.try_close, still inside the endpoint's lock.
Acknowledge(t) ==
  /\ At(t, "close", "acking")
  /\ LET e == Top(t).on IN
       endpoint' = IF object.alive THEN [endpoint EXCEPT ![e].holder = "resolved"] ELSE endpoint
  /\ IF Closable
     THEN Call(t, LifeClose, [Top(t) EXCEPT !.pc = "closed", !.locks = @ \ {A}])
     ELSE Return(t)
  /\ UNCHANGED <<object, ref, held, child, failed, interrupts>>

CloseReturns(t) ==
  /\ At(t, "close", "closed")
  /\ Return(t)
  /\ UNCHANGED <<object, endpoint, ref, held, child, failed, interrupts>>

\* elite_object_destroy; its failure, or that of a second one, is recorded.
LifeCloseReturns(t) ==
  /\ At(t, "life_close", "enter") /\ Free(t, A)
  /\ IF object.alive THEN Destroyed ELSE UNCHANGED object
  /\ failed' = IF object.alive /\ Resolved THEN failed ELSE failed \cup {Shm}
  /\ Return(t)
  /\ UNCHANGED <<endpoint, ref, held, child, interrupts>>
-----------------------------------------------------------------------------
(* EliteShm.close.                                                         *)

\* _local: the endpoints that the factory has handed out.
Listed == {e \in Locals : ref[Wrap(e)] = "live" /\ endpoint[e].conn # "rejected"}

CloseShm(t) ==
  /\ Resting(t) /\ Shm \in held /\ object.alive
  /\ Start(t, [Frame("close_shm", "busy", A, "app") EXCEPT !.rest = Listed, !.all = Listed])
  /\ UNCHANGED <<object, endpoint, ref, held, child, failed, interrupts>>

\* Nothing is closed if any endpoint is busy.
CloseShmBusy(t) ==
  /\ At(t, "close_shm", "busy")
  /\ \/ /\ Top(t).rest = {}
        /\ Replace(t, [Top(t) EXCEPT !.pc = "close", !.rest = Top(t).all])
     \/ \E e \in Top(t).rest :
          /\ Free(t, e)
          /\ IF Busy(e) THEN Return(t) ELSE Replace(t, [Top(t) EXCEPT !.rest = @ \ {e}])
  /\ UNCHANGED <<object, endpoint, ref, held, child, failed, interrupts>>

\* Mutant: the authority's lock is taken first.
CloseShmEach_Locked(t) ==
  /\ At(t, "close_shm", "close")
  /\ \/ Top(t).rest = {} /\ Lock(t, A, "in")
     \/ \E e \in Top(t).rest :
          /\ Free(t, A)
          /\ Call(t, Frame("close", "enter", e, "app"),
                  [Top(t) EXCEPT !.rest = @ \ {e}, !.locks = {A}])
  /\ UNCHANGED <<object, endpoint, ref, held, child, failed, interrupts>>

\* Every endpoint is closed before the authority's lock is taken.
CloseShmEach(t) ==
  /\ At(t, "close_shm", "close")
  /\ \/ Top(t).rest = {} /\ Lock(t, A, "in")
     \/ \E e \in Top(t).rest :
          Call(t, Frame("close", "enter", e, "app"), [Top(t) EXCEPT !.rest = @ \ {e}])
  /\ UNCHANGED <<object, endpoint, ref, held, child, failed, interrupts>>

CloseShmReturns(t) ==
  /\ At(t, "close_shm", "in")
  /\ IF object.alive /\ Connections = {} THEN Destroyed ELSE UNCHANGED object
  /\ Return(t)
  /\ UNCHANGED <<endpoint, ref, held, child, failed, interrupts>>
-----------------------------------------------------------------------------
(* What else holds the authority's lock, and the child process.            *)

Manage(t) ==
  /\ Resting(t) /\ Shm \in held /\ object.alive
  /\ Free(t, A)
  /\ Start(t, [Frame("manage", "in", A, "app") EXCEPT !.locks = {A}])
  /\ UNCHANGED <<object, endpoint, ref, held, child, failed, interrupts>>

\* ack_cleanup with the receipt of an endpoint, in whatever process it was.
AckCleanup(t) ==
  /\ At(t, "manage", "in")
  /\ \E e \in Endpoints :
       /\ endpoint[e].conn = "gone" /\ object.alive
       /\ endpoint' = [endpoint EXCEPT ![e].holder = "resolved"]
  /\ Return(t)
  /\ UNCHANGED <<object, ref, held, child, failed, interrupts>>

\* Mutant: a child that has not answered for a while is taken for dead.
Reap_OnTimeout(t) ==
  /\ At(t, "manage", "in") /\ object.alive /\ child # "reaped"
  /\ LET unresolved == {e \in Remote : endpoint[e].holder \in {"registered", "issued"}} IN
       /\ unresolved # {}
       /\ endpoint' = [e \in Endpoints |->
            IF e \in unresolved THEN [endpoint[e] EXCEPT !.holder = "resolved"] ELSE endpoint[e]]
  /\ object' = Retired
  /\ Return(t)
  /\ UNCHANGED <<child, ref, held, failed, interrupts>>

\* One poll of reap: the death of the child resolves its grants and retires
\* the generation.
Reap(t) ==
  /\ At(t, "manage", "in") /\ object.alive /\ child = "dead"
  /\ LET unresolved == {e \in Remote : endpoint[e].holder \in {"registered", "issued"}} IN
       /\ unresolved # {}
       /\ endpoint' = [e \in Endpoints |->
            IF e \in unresolved THEN [endpoint[e] EXCEPT !.holder = "resolved"] ELSE endpoint[e]]
  /\ child' = "reaped"
  /\ object' = Retired
  /\ Return(t)
  /\ UNCHANGED <<ref, held, failed, interrupts>>

\* retire, and successor, which also quarantines this generation and makes
\* another one before it releases the lock.
Retire(t) ==
  /\ At(t, "manage", "in")
  /\ object' = IF object.alive THEN Retired ELSE object
  /\ Return(t)
  /\ UNCHANGED <<endpoint, ref, held, child, failed, interrupts>>

\* A call that fails or finds nothing, such as a poll of a running child.
NothingDone(t) ==
  /\ At(t, "manage", "in")
  /\ Return(t)
  /\ UNCHANGED <<object, endpoint, ref, held, child, failed, interrupts>>

ChildAttaches(e) ==
  /\ child = "running" /\ endpoint[e].holder = "issued" /\ endpoint[e].conn = "none"
  /\ endpoint' = [endpoint EXCEPT ![e].conn =
       IF object.gate = "READY" THEN "open" ELSE "rejected"]
  /\ UNCHANGED <<object, ref, held, child, failed, stack, interrupts>>

ChildDetaches(e) ==
  /\ child = "running" /\ Connected(e)
  /\ endpoint' = [endpoint EXCEPT ![e].conn = "gone"]
  /\ UNCHANGED <<object, ref, held, child, failed, stack, interrupts>>

ChildDies ==
  /\ child = "running" /\ child' = "dead"
  /\ UNCHANGED <<object, endpoint, ref, held, failed, stack, interrupts>>

PeerRetires ==
  /\ object.alive /\ object.gate = "READY"
  /\ object' = [object EXCEPT !.gate = "RETIRED"]
  /\ UNCHANGED <<endpoint, ref, held, child, failed, stack, interrupts>>
-----------------------------------------------------------------------------
(* The collector.                                                          *)

Forget(o) ==
  /\ o \in held /\ held' = held \ {o}
  /\ UNCHANGED <<object, endpoint, ref, child, failed, stack, interrupts>>

Collecting == \E t \in Threads : \E f \in Frames(t) : f.op = "collect"

\* What can go together: nothing outside refers to it.
Collectable(batch) ==
  \A o \in batch : /\ ref[o] = "live" /\ o \notin Used
                   /\ \A r \in Referrers(o) : Alive(r) => r \in batch

\* A collection runs inside whatever its thread does, but only one at a time;
\* a thread that holds no lock may also drop a last reference.
Collect(t) ==
  /\ Resting(t) \/ ~Collecting
  /\ \E batch \in (SUBSET {o \in Objects : ref[o] = "live" /\ o \notin Used}) \ {{}} :
       /\ Collectable(batch)
       /\ ref' = [o \in Objects |-> IF o \in batch THEN "dying" ELSE ref[o]]
       /\ Start(t, [Frame("collect", "run", A, "gc") EXCEPT !.rest = batch, !.all = batch])
  /\ UNCHANGED <<object, endpoint, held, child, failed, interrupts>>

\* The next finalizer, in any order: request_close of a manager or of an
\* endpoint, request_cleanup of a lease.
Run(t, o, calls, callee) ==
  LET f == [Top(t) EXCEPT !.rest = @ \ {o}]
  IN  IF calls THEN Call(t, callee, f) ELSE Replace(t, f)

FinalizeShm(t) ==
  /\ object' = [object EXCEPT !.closeRequested = TRUE]
  /\ Run(t, Shm, object.alive /\ Connections = {}, LifeClose)
  /\ UNCHANGED endpoint

\* Mutant: the request is not remembered.
FinalizeEndpoint_NotRequested(t, e) ==
  /\ Run(t, Wrap(e), Connected(e) /\ ~Busy(e), Frame("close", "enter", e, "gc"))
  /\ UNCHANGED <<object, endpoint>>

FinalizeEndpoint(t, e) ==
  /\ endpoint' = [endpoint EXCEPT ![e].closeRequested = TRUE]
  /\ Run(t, Wrap(e), Connected(e) /\ ~Busy(e), Frame("close", "enter", e, "gc"))
  /\ UNCHANGED object

FinalizePin(t, e) ==
  /\ Run(t, Pin(e), Busy(e), Frame("finish", "enter", e, "gc"))
  /\ UNCHANGED <<object, endpoint>>

Finalize(t) ==
  /\ At(t, "collect", "run")
  /\ \E o \in Top(t).rest : \/ o[1] = "shm" /\ FinalizeShm(t)
                            \/ o[1] = "endpoint" /\ FinalizeEndpoint(t, o[2])
                            \/ o[1] = "pin" /\ FinalizePin(t, o[2])
  /\ UNCHANGED <<ref, held, child, failed, interrupts>>

\* The batch is freed; the endpoint may lease again.
Freed(t) ==
  /\ At(t, "collect", "run") /\ Top(t).rest = {}
  /\ ref' = [o \in Objects |-> IF o \notin Top(t).all THEN ref[o]
                               ELSE IF o[1] = "pin" THEN "none" ELSE "dead"]
  /\ Return(t)
  /\ UNCHANGED <<object, endpoint, held, child, failed, interrupts>>

\* finish of a dropped lease, and then try_close of its endpoint.
Finish(t) ==
  /\ At(t, "finish", "enter") /\ Free(t, Top(t).on)
  /\ LET e == Top(t).on IN
       /\ endpoint' = [endpoint EXCEPT ![e].leased = FALSE]
       /\ IF endpoint[e].closeRequested /\ Connected(e)
          THEN Replace(t, Frame("close", "enter", e, "gc"))
          ELSE Return(t)
  /\ UNCHANGED <<object, ref, held, child, failed, interrupts>>
-----------------------------------------------------------------------------
Begins(t) ==
  \/ t \in Using /\ \E e \in Locals : Method(t, e) \/ Close(t, e)
  \/ t \in Managing /\ (CloseShm(t) \/ Manage(t) \/ \E e \in Endpoints : Grant(t, e))

Continues(t) ==
  \/ Granted(t) \/ Attach(t) \/ MethodReturns(t)
  \/ CloseEnter(t) \/ Ack(t) \/ Acknowledge(t) \/ CloseReturns(t)
  \/ LifeCloseReturns(t)
  \/ CloseShmBusy(t) \/ CloseShmEach(t) \/ CloseShmReturns(t)
  \/ AckCleanup(t) \/ Reap(t) \/ Retire(t) \/ NothingDone(t)
  \/ Finalize(t) \/ Freed(t) \/ Finish(t)

Next ==
  \/ \E t \in Threads : Begins(t) \/ Continues(t) \/ AckInterrupted(t) \/ Collect(t)
  \/ \E e \in Remote : ChildAttaches(e) \/ ChildDetaches(e)
  \/ PeerRetires
  \/ \E o \in Objects : Forget(o)
  \/ ChildDies

Spec == Init /\ [][Next]_vars
-----------------------------------------------------------------------------
Wanted(t) ==
  CASE At(t, "close", "enter") \/ At(t, "finish", "enter")    -> {Top(t).on}
    [] At(t, "close", "ack") \/ At(t, "life_close", "enter")  -> {A}
    [] At(t, "close_shm", "close") /\ Top(t).rest = {}        -> {A}
    [] OTHER                                                  -> {}

\* No threads ever wait for one another in a circle, wherever the collector
\* breaks in: endpoint locks come before the authority's, and a finalizer
\* that reverses the order meets no other thread at that endpoint
\* (EliteShm.close: "Never hold authority lock while acquiring endpoint locks").
NoCircularWait ==
  \A circle \in (SUBSET Threads) \ {{}} :
    ~\A t \in circle : \E l \in Wanted(t) : \E u \in circle \ {t} : Has(u, l)

\* Whatever is still open has somebody who will close it: a wrapper, a lease,
\* or a record of the failure.  An endpoint that was closed without an
\* interrupt is acknowledged before its lock is released.
ObligationsTracked ==
  /\ \A e \in Locals :
       Connected(e) => Alive(Wrap(e)) \/ Alive(Pin(e)) \/ Wrap(e) \in failed
  /\ object.alive => \/ Alive(Shm) \/ Shm \in failed
                     \/ \E e \in Locals : Connected(e) \/ Wrap(e) \in failed
  /\ \A e \in Locals :
       endpoint[e].conn = "gone" /\ endpoint[e].holder = "issued" /\ interrupts = 0 =>
         \E t \in Threads : Has(t, e)

\* A generation is destroyed, and its holder resolved, only when no process
\* that lives has the endpoint open.
DestroyedWhenGone ==
  \A e \in Endpoints :
    Connected(e) /\ (e \in Locals \/ child = "running") =>
      object.alive /\ endpoint[e].holder # "resolved"

\* Without interrupts and without grants to other processes no cleanup ever
\* fails, in whatever order threads and finalizers run.
HealthyNeverRetained ==
  interrupts = 0 /\ (\A e \in Remote : endpoint[e].holder = "none") => failed = {}
=============================================================================
