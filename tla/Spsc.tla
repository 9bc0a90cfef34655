-------------------------------- MODULE Spsc --------------------------------
(***************************************************************************)
(* The SPSC layout (src/src/elite_spsc.c under the entry points of         *)
(* src/src/elite_core.c): one producer, one consumer, and two cursors that *)
(* each have one writer, stored with release and loaded with acquire.      *)
(*                                                                         *)
(* An acquire load may return any value the cursor has had since the       *)
(* latest one its reader is known to have seen (view); everything written  *)
(* before the store it reads from is then visible.  The descriptors are    *)
(* ordinary memory: RaceFree states that no two endpoints are ever about   *)
(* to access the same one.                                                 *)
(*                                                                         *)
(* The two exchanges of el_retire_raw and the two loads of an admission    *)
(* check are one step here; Ncq takes them apart.  In a parkable ring      *)
(* (SpscPark) a call ends with the notifications it still has to deliver.  *)
(***************************************************************************)
EXTENDS Integers, Sequences

CONSTANTS
  Producer, Consumer, Authority,
  N,                     \* capacity
  WordMax,               \* the largest value of a cursor (2^64 - 1)
  EpochCeiling,          \* the largest epoch of a block (2^62 - 2)
  Parkable,              \* the wait mode is PARKABLE_SPSC
  Retirers, Reasons,     \* who retires the generation, and with what reason
  Crashable              \* endpoints whose process may die

Endpoints == {Producer, Consumer}
Procs     == Endpoints \cup {Authority}
Blocks    == 0 .. N - 1
FailureReasons == {"none", "INTEGRITY", "COUNTER", "PEER", "PROTOCOL",
                   "RESOURCE", "AUTHORITY"}
\* Failures after which the tokens of a retiring generation stay usable.
Benign == {"none", "PEER", "AUTHORITY"}

ASSUME SpscAssumption ==
  /\ N \in Nat /\ N >= 2
  /\ WordMax \in Nat /\ WordMax >= 2 * N
  /\ EpochCeiling \in Nat \ {0}
  /\ Producer # Consumer /\ Authority \notin {Producer, Consumer}
  /\ Parkable \in BOOLEAN
  /\ Retirers \subseteq {Producer, Consumer, Authority}
  /\ Reasons \subseteq FailureReasons
  /\ Crashable \subseteq {Producer, Consumer}

TicketCeiling == WordMax - N
Index(t) == t % N

VARIABLES
  gate, failure,         \* admission state, first recorded failure
  aware,                 \* processes that made or met the retirement of the gate
  published, reclaimed,  \* the shared cursors
  cursor,                \* each endpoint's own cursor
  cached,                \* the peer's cursor as each endpoint last loaded it
  view,                  \* the oldest value its next load of it may return
  desc,                  \* the descriptor of each block
  token,                 \* the token of each connection
  poisoned, draining,    \* connections with these flags set
  call,                  \* the call each process is executing
  retained,              \* blocks given up by elite_abandon_retained
  crashed                \* endpoints whose process is dead

control == <<gate, failure, aware>>
cursors == <<published, reclaimed, cursor>>
loads   == <<cached, view>>
flags   == <<poisoned, draining>>
history == <<retained, crashed>>
vars    == <<control, cursors, loads, desc, token, flags, call, history>>

NoCall  == [pc |-> "idle", notify |-> <<>>]
NoToken == [owned |-> "none", block |-> 0, epoch |-> 0]

Init ==
  /\ gate = "READY" /\ failure = "none" /\ aware = {}
  /\ published = 0 /\ reclaimed = 0
  /\ cursor = [e \in Endpoints |-> 0]
  /\ cached = [e \in Endpoints |-> 0] /\ view = cached
  /\ desc = [b \in Blocks |-> [epoch |-> 0, meta |-> 0]]
  /\ token = [e \in Endpoints |-> NoToken]
  /\ poisoned = {} /\ draining = {}
  /\ call = [p \in Procs |-> NoCall]
  /\ retained = {} /\ crashed = {}
-----------------------------------------------------------------------------
At(p, label) == p \notin crashed /\ call[p].pc = label
Goto(p, label) == call' = [call EXCEPT ![p].pc = label]

\* The call returns, after el_notify_connection for the words in this order.
Leave(p, words) ==
  call' = [call EXCEPT ![p] =
             IF Parkable /\ words # <<>> THEN [pc |-> "notify", notify |-> words] ELSE NoCall]

RetireRaw(p, reason) ==
  /\ failure' = IF failure = "none" THEN reason ELSE failure
  /\ gate' = "RETIRE_REQUESTED"
  /\ aware' = aware \cup {p}

\* el_fail: the connection is poisoned, the generation retired, both words notified.
Fail(e, reason) ==
  /\ poisoned' = poisoned \cup {e}
  /\ RetireRaw(e, reason)
  /\ Leave(e, <<"data", "space">>)

Ready(e) == e \notin poisoned /\ gate = "READY"
ReadyToDrain(e) ==
  \/ Ready(e)
  \/ /\ e \notin poisoned /\ gate = "RETIRE_REQUESTED"
     /\ e \in draining /\ failure \in Benign

\* el_return_allowed: returns outlive a benign retirement.
ReturnAllowed(e) == e \notin poisoned /\ failure \in Benign

Retire(p, reason) ==
  /\ At(p, "idle")
  /\ RetireRaw(p, reason)
  /\ Leave(p, <<"data", "space">>)
  /\ UNCHANGED <<cursors, loads, desc, token, flags, history>>
-----------------------------------------------------------------------------
(* Producer: el_spsc_reserve, el_spsc_commit, el_spsc_abort.               *)

Full(reclaim) == cursor[Producer] - reclaim >= N

\* Mutant: the ticket ceiling is not checked before the reservation.
WriteReserve_NoCeiling ==
  /\ At(Producer, "idle") /\ token[Producer].owned = "none"
  /\ Ready(Producer)
  /\ Goto(Producer, IF Full(cached[Producer]) THEN "load_reclaimed" ELSE "stamp")
  /\ UNCHANGED <<control, cursors, loads, desc, token, flags, history>>

\* Up to the acquire load, which is needed only when the cached value is stale.
WriteReserve ==
  /\ At(Producer, "idle") /\ token[Producer].owned = "none"
  /\ Ready(Producer)
  /\ IF cursor[Producer] >= TicketCeiling
     THEN Fail(Producer, "COUNTER")
     ELSE IF cached[Producer] > cursor[Producer]
     THEN Fail(Producer, "PROTOCOL")
     ELSE /\ Goto(Producer, IF Full(cached[Producer]) THEN "load_reclaimed" ELSE "stamp")
          /\ UNCHANGED <<control, poisoned>>
  /\ UNCHANGED <<cursors, loads, desc, token, draining, history>>

\* Mutant: the slot that is one short of a lap ahead counts as reclaimed.
LoadReclaimed_OneMore ==
  /\ At(Producer, "load_reclaimed")
  /\ \E r \in view[Producer] .. reclaimed :
       /\ cached' = [cached EXCEPT ![Producer] = r]
       /\ view' = [view EXCEPT ![Producer] = r]
       /\ IF cursor[Producer] - r > N THEN Leave(Producer, <<>>) ELSE Goto(Producer, "stamp")
  /\ UNCHANGED <<control, cursors, desc, token, flags, history>>

LoadReclaimed ==
  /\ At(Producer, "load_reclaimed")
  /\ \E r \in view[Producer] .. reclaimed :
       /\ cached' = [cached EXCEPT ![Producer] = r]
       /\ view' = [view EXCEPT ![Producer] = r]
       /\ IF r > cursor[Producer]
          THEN Fail(Producer, "PROTOCOL")
          ELSE /\ IF Full(r) THEN Leave(Producer, <<>>) ELSE Goto(Producer, "stamp")
               /\ UNCHANGED <<control, poisoned>>
  /\ UNCHANGED <<cursors, desc, token, draining, history>>

\* Mutant: the epoch goes up in the lease but not in the descriptor.
StampEpoch_LeaseOnly ==
  /\ At(Producer, "stamp")
  /\ LET b == Index(cursor[Producer]) IN
       token' = [token EXCEPT ![Producer] =
                  [owned |-> "write", block |-> b, epoch |-> desc[b].epoch + 1]]
  /\ Leave(Producer, <<>>)
  /\ UNCHANGED <<control, cursors, loads, desc, flags, history>>

\* The block is the producer's: its epoch goes up and the token begins.
StampEpoch ==
  /\ At(Producer, "stamp")
  /\ LET b == Index(cursor[Producer])
         k == desc[b].epoch + 1
     IN  IF k > EpochCeiling
         THEN Fail(Producer, "COUNTER") /\ UNCHANGED <<desc, token>>
         ELSE /\ desc' = [desc EXCEPT ![b].epoch = k]
              /\ token' = [token EXCEPT ![Producer] = [owned |-> "write", block |-> b, epoch |-> k]]
              /\ Leave(Producer, <<>>)
              /\ UNCHANGED <<control, poisoned>>
  /\ UNCHANGED <<cursors, loads, draining, history>>

WriteCommit ==
  /\ At(Producer, "idle") /\ token[Producer].owned = "write"
  /\ Ready(Producer)
  /\ Goto(Producer, "commit")
  /\ UNCHANGED <<control, cursors, loads, desc, token, flags, history>>

SameEpoch(e) == desc[token[e].block].epoch = token[e].epoch

\* Mutant: the metadata is left for after the publication.
CommitBlock_NoMetadata ==
  /\ At(Producer, "commit")
  /\ Goto(Producer, "publish")
  /\ UNCHANGED <<control, cursors, loads, desc, token, flags, history>>

\* The message of a block is named by the ticket it is published at.
CommitBlock ==
  /\ At(Producer, "commit")
  /\ IF SameEpoch(Producer)
     THEN /\ desc' = [desc EXCEPT ![token[Producer].block].meta = cursor[Producer]]
          /\ Goto(Producer, "publish")
          /\ UNCHANGED <<control, poisoned>>
     ELSE Fail(Producer, "INTEGRITY") /\ UNCHANGED desc
  /\ UNCHANGED <<cursors, loads, token, draining, history>>

\* The release store is the publication; only local writes and the wake follow.
PublishBlock ==
  /\ At(Producer, "publish")
  /\ published' = cursor[Producer] + 1
  /\ cursor' = [cursor EXCEPT ![Producer] = published']
  /\ token' = [token EXCEPT ![Producer] = NoToken]
  /\ Leave(Producer, <<"data">>)
  /\ UNCHANGED <<control, reclaimed, loads, desc, flags, history>>

\* The epoch stays consumed and no cursor moves: the block is reserved again.
WriteAbort ==
  /\ At(Producer, "idle") /\ token[Producer].owned = "write"
  /\ ReturnAllowed(Producer)
  /\ IF SameEpoch(Producer)
     THEN /\ token' = [token EXCEPT ![Producer] = NoToken]
          /\ UNCHANGED <<control, poisoned, call>>
     ELSE Fail(Producer, "INTEGRITY") /\ UNCHANGED token
  /\ UNCHANGED <<cursors, loads, desc, draining, history>>
-----------------------------------------------------------------------------
(* Consumer: el_spsc_borrow, el_spsc_release, elite_enable_drain.          *)

\* The checks that follow the value found in the cache or loaded.
BorrowAt(pub) ==
  LET r == cursor[Consumer] IN
    IF pub < r \/ pub > TicketCeiling \/ pub - r > N
    THEN Fail(Consumer, "PROTOCOL") /\ UNCHANGED token
    ELSE IF pub # r /\ r >= TicketCeiling
    THEN Fail(Consumer, "COUNTER") /\ UNCHANGED token
    ELSE /\ IF pub = r
            THEN Leave(Consumer, <<>>) /\ UNCHANGED token
            ELSE /\ token' = [token EXCEPT ![Consumer] =
                                [owned |-> "read", block |-> Index(r), epoch |-> 0]]
                 /\ Goto(Consumer, "metadata")
         /\ UNCHANGED <<control, poisoned>>

\* Mutant: the cache is reloaded only when the consumer has run past it.
ReadBorrow_KeepsCache ==
  /\ At(Consumer, "idle") /\ token[Consumer].owned = "none"
  /\ ReadyToDrain(Consumer)
  /\ IF cached[Consumer] >= cursor[Consumer] /\ cached[Consumer] > 0
     THEN BorrowAt(cached[Consumer])
     ELSE Goto(Consumer, "load_published") /\ UNCHANGED <<control, token, poisoned>>
  /\ UNCHANGED <<cursors, loads, desc, draining, history>>

ReadBorrow ==
  /\ At(Consumer, "idle") /\ token[Consumer].owned = "none"
  /\ ReadyToDrain(Consumer)
  /\ IF cached[Consumer] > cursor[Consumer]
     THEN BorrowAt(cached[Consumer])
     ELSE Goto(Consumer, "load_published") /\ UNCHANGED <<control, token, poisoned>>
  /\ UNCHANGED <<cursors, loads, desc, draining, history>>

LoadPublished ==
  /\ At(Consumer, "load_published")
  /\ \E pub \in view[Consumer] .. published :
       /\ cached' = [cached EXCEPT ![Consumer] = pub]
       /\ view' = [view EXCEPT ![Consumer] = pub]
       /\ BorrowAt(pub)
  /\ UNCHANGED <<cursors, desc, draining, history>>

ReadMetadata ==
  /\ At(Consumer, "metadata")
  /\ LET k == desc[token[Consumer].block].epoch IN
       /\ token' = [token EXCEPT ![Consumer].epoch = k]
       /\ IF k \in 1 .. EpochCeiling
          THEN Leave(Consumer, <<>>) /\ UNCHANGED <<control, poisoned>>
          ELSE Fail(Consumer, "INTEGRITY")
  /\ UNCHANGED <<cursors, loads, desc, draining, history>>

ReadRelease ==
  /\ At(Consumer, "idle") /\ token[Consumer].owned = "read"
  /\ ReturnAllowed(Consumer)
  /\ Goto(Consumer, "release")
  /\ UNCHANGED <<control, cursors, loads, desc, token, flags, history>>

\* Mutant: the next ticket's slot is reclaimed along with this one.
ReleaseBlock_Two ==
  /\ At(Consumer, "release")
  /\ reclaimed' = IF published > cursor[Consumer] + 1 THEN cursor[Consumer] + 2
                  ELSE cursor[Consumer] + 1
  /\ cursor' = [cursor EXCEPT ![Consumer] = cursor[Consumer] + 1]
  /\ token' = [token EXCEPT ![Consumer] = NoToken]
  /\ Leave(Consumer, <<"space">>)
  /\ UNCHANGED <<control, published, loads, desc, flags, history>>

\* The release store is the reclamation.
ReleaseBlock ==
  /\ At(Consumer, "release")
  /\ IF SameEpoch(Consumer)
     THEN /\ reclaimed' = cursor[Consumer] + 1
          /\ cursor' = [cursor EXCEPT ![Consumer] = reclaimed']
          /\ token' = [token EXCEPT ![Consumer] = NoToken]
          /\ Leave(Consumer, <<"space">>)
          /\ UNCHANGED <<control, poisoned>>
     ELSE Fail(Consumer, "INTEGRITY") /\ UNCHANGED <<reclaimed, cursor, token>>
  /\ UNCHANGED <<published, loads, desc, draining, history>>

EnableDrain ==
  /\ At(Consumer, "idle") /\ token[Consumer].owned = "none"
  /\ draining' = draining \cup {Consumer}
  /\ UNCHANGED <<control, cursors, loads, desc, token, poisoned, call, history>>
-----------------------------------------------------------------------------
\* elite_abandon_retained: the block stays in the old generation for ever.
AbandonRetained(e) ==
  /\ At(e, "idle") /\ token[e].owned # "none"
  /\ gate # "READY"
  /\ token' = [token EXCEPT ![e] = NoToken]
  /\ poisoned' = poisoned \cup {e}
  /\ retained' = retained \cup {token[e].block}
  /\ UNCHANGED <<control, cursors, loads, desc, draining, call, crashed>>

\* The death of a process: its calls stop where they are, its token stays out.
Crash(e) ==
  /\ e \notin crashed
  /\ crashed' = crashed \cup {e}
  /\ UNCHANGED <<control, cursors, loads, desc, token, flags, call, retained>>

ProducerStep == LoadReclaimed \/ StampEpoch \/ CommitBlock \/ PublishBlock
ConsumerStep == LoadPublished \/ ReadMetadata \/ ReleaseBlock

Next ==
  \/ WriteReserve \/ WriteCommit \/ WriteAbort \/ ProducerStep
  \/ ReadBorrow \/ ReadRelease \/ EnableDrain \/ ConsumerStep
  \/ \E e \in Endpoints : AbandonRetained(e)
  \/ \E p \in Retirers, r \in Reasons : Retire(p, r)
  \/ \E e \in Crashable : Crash(e)

Spec == Init /\ [][Next]_vars

\* A live process inside a call keeps being scheduled, the consumer's
\* application keeps polling, and a store becomes visible to the loads of a
\* poller after finitely many of them.
FairSpec ==
  /\ Spec
  /\ WF_vars(ProducerStep) /\ WF_vars(ConsumerStep)
  /\ WF_vars(ReadBorrow) /\ WF_vars(ReadRelease)
  /\ SF_vars(LoadPublished /\ view'[Consumer] = published)
-----------------------------------------------------------------------------
\* In a parkable ring a call may also wake and wait (SpscPark).
ParkLabels == IF Parkable
              THEN {"wake", "arm", "recheck", "sleep", "asleep", "disarm", "disarm_again",
                    "disarm_last", "again", "last"}
              ELSE {}
Labels == {"idle", "notify", "load_reclaimed", "stamp", "commit", "publish",
           "load_published", "metadata", "release"} \cup ParkLabels
NotifyLists == {<<>>, <<"data">>, <<"space">>, <<"data", "space">>}

\* Types; no cursor ever passes the ceiling, and no load runs ahead of its store.
TypeOK ==
  /\ gate \in {"READY", "RETIRE_REQUESTED"} /\ failure \in FailureReasons
  /\ aware \subseteq Procs
  /\ published \in 0 .. TicketCeiling /\ reclaimed \in 0 .. published
  /\ cursor = [e \in Endpoints |-> IF e = Producer THEN published ELSE reclaimed]
  /\ view \in [Endpoints -> 0 .. TicketCeiling]
  /\ view[Producer] <= reclaimed /\ view[Consumer] <= published
  /\ cached \in [Endpoints -> 0 .. TicketCeiling]
  /\ \A e \in Endpoints : cached[e] <= view[e]
  /\ desc \in [Blocks -> [epoch : 0 .. EpochCeiling, meta : 0 .. TicketCeiling]]
  /\ token \in [Endpoints -> [owned : {"none", "write", "read"}, block : Blocks,
                             epoch : 0 .. EpochCeiling]]
  /\ poisoned \subseteq Endpoints /\ draining \subseteq Endpoints
  /\ call \in [Procs -> [pc : Labels, notify : NotifyLists]]
  /\ retained \subseteq Blocks /\ crashed \subseteq Endpoints

\* The block each endpoint may be accessing, from its first access to its last.
Writing == IF token[Producer].owned = "write" THEN {token[Producer].block}
           ELSE IF call[Producer].pc = "stamp" THEN {Index(cursor[Producer])} ELSE {}
Reading == IF token[Consumer].owned = "read" THEN {token[Consumer].block} ELSE {}

Unreclaimed == {Index(t) : t \in reclaimed .. published - 1}

\* No data race on descriptors and payloads: the producer touches no block
\* that is published and not yet reclaimed, however stale its view of the
\* reclaimed cursor is, and the consumer touches only such a block.
RaceFree ==
  /\ Writing \cap Unreclaimed = {}
  /\ Reading \subseteq Unreclaimed
  /\ published - reclaimed <= N

\* Every message between the cursors is the one committed at its ticket: none
\* is lost, repeated or overwritten, also when loads are stale, reservations
\* are aborted or the producer dies; and a lease carries its block's epoch.
MessageIntact ==
  /\ \A t \in reclaimed .. published - 1 : desc[Index(t)].meta = t
  /\ Reading # {} /\ call[Consumer].pc \in {"idle", "release"} =>
       token[Consumer].block = Index(reclaimed) /\ SameEpoch(Consumer)

\* The integrity and protocol checks never condemn a generation whose two
\* endpoints follow the interface.
NoFalseAlarm == failure \notin {"INTEGRITY", "PROTOCOL"} \ Reasons

(***************************************************************************)
(* The inductive invariant.  From the check of the cached cursor to the    *)
(* publication, and for as long as it holds the token, the producer has    *)
(* room below the ceiling and within a lap of the reclaimed cursor.  The   *)
(* consumer's view is ahead of the block it borrows.                       *)
(***************************************************************************)
ProducerCoherent ==
  LET pc == call[Producer].pc
      writes == token[Producer].owned = "write"
  IN  /\ token[Producer].owned \in {"none", "write"}
      /\ pc \in {"idle", "notify", "load_reclaimed", "stamp", "commit", "publish"} \cup ParkLabels
      /\ pc \in {"load_reclaimed", "stamp"} => ~writes /\ published < TicketCeiling
      /\ pc \in {"commit", "publish"} => writes
      /\ writes \/ pc = "stamp" =>
           published < TicketCeiling /\ published < reclaimed + N
      /\ writes => /\ token[Producer].block = Index(published)
                   /\ token[Producer].epoch >= 1 /\ SameEpoch(Producer)
      /\ pc = "publish" => desc[Index(published)].meta = published

ConsumerCoherent ==
  LET pc == call[Consumer].pc
      reads == token[Consumer].owned = "read"
  IN  /\ token[Consumer].owned \in {"none", "read"}
      /\ pc \in {"idle", "notify", "load_published", "metadata", "release"} \cup ParkLabels
      /\ pc = "load_published" => ~reads
      /\ pc \in {"metadata", "release"} => reads
      /\ reclaimed <= view[Consumer]
      /\ reads => reclaimed < view[Consumer] /\ token[Consumer].block = Index(reclaimed)
      /\ reads /\ pc # "metadata" => SameEpoch(Consumer)

\* What is published was stamped and committed at its ticket.
Intact ==
  /\ published - reclaimed <= N
  /\ \A t \in reclaimed .. published - 1 :
       desc[Index(t)].meta = t /\ desc[Index(t)].epoch >= 1

Safe == TypeOK /\ ProducerCoherent /\ ConsumerCoherent /\ Intact /\ NoFalseAlarm

\* A poisoned connection does nothing more, so that a block it has abandoned
\* stays the one of its cursor.
Abandonment ==
  /\ \A e \in poisoned : call[e].pc \in {"idle", "notify", "wake"}
  /\ \A b \in retained :
       \/ /\ Consumer \in poisoned /\ token[Consumer].owned = "none"
          /\ reclaimed < published /\ b = Index(reclaimed)
       \/ /\ Producer \in poisoned /\ token[Producer].owned = "none"
          /\ published < reclaimed + N /\ b = Index(published)

IInv == Safe /\ Abandonment

\* The cursors implement the abstract channel: publications are borrowed in
\* order, and a message changes only in its producer's hands.
Reads == Reading # {} \/ Index(cursor[Consumer]) \in retained
FirstReady == cursor[Consumer] + (IF Reads THEN 1 ELSE 0)
ReadySeq   == [i \in 1 .. published - FirstReady |-> Index(FirstReady + i - 1)]

HolderToken(kind, blocks) ==
  IF blocks = {} THEN [kind |-> "none", block |-> 0]
                 ELSE [kind |-> kind, block |-> CHOOSE b \in blocks : TRUE]

FreeBlocks == Blocks \ (Writing \cup Reading \cup retained
                        \cup {ReadySeq[i] : i \in DOMAIN ReadySeq})
Holders == [e \in Endpoints |-> IF e = Producer THEN HolderToken("write", Writing)
                                               ELSE HolderToken("read", Reading)]
Messages == [epoch : Nat, meta : Nat]

Promise == INSTANCE Channel WITH
  Producers <- {Producer}, Consumers <- {Consumer},
  free <- FreeBlocks, ready <- ReadySeq, token <- Holders, message <- desc

ImplementsChannel == Promise!Spec

\* A consumer whose application keeps polling and releasing obtains every
\* published message: after a benign retirement by draining, and also when
\* the producer died right after its release store.
Delivered ==
  <>[](ReadyToDrain(Consumer) /\ Consumer \notin crashed)
    => \A t \in 1 .. TicketCeiling : published >= t ~> reclaimed >= t
=============================================================================
