----------------------------- MODULE ExplorerNcq -----------------------------
(***************************************************************************)
(* formal/models/ncq.py: the finite transition system that stands for      *)
(* src/elite_mpmc_ncq.c in the repository's own formal campaign.  A step   *)
(* holds at most one atomic access to a queue, and a producer stops after  *)
(* M reservations, so that every exploration ends.                         *)
(*                                                                         *)
(* Model.successors yields a verdict in place of a successor where an      *)
(* access would go wrong; Fault(i) is the disjunction of those conditions, *)
(* and explore.py stops at the first one.                                  *)
(***************************************************************************)
EXTENDS Integers, FiniteSets, TLC

CONSTANTS N, P, C,     \* capacity, a power of two; producers, consumers, at most N
          M,           \* reservations of each producer
          AllowAbort   \* producers may give a block up while they write

Actors     == 0 .. P + C - 1
IsProducer(i) == i < P
QF == 0
QR == 1
Queues     == {QF, QR}
Blocks     == 0 .. N - 1
Member(q)  == -1 - q     \* the owner of a block that queue q holds
\* Phases of a descriptor.
Empty     == 0
Reserved  == 1
Committed == 2
Consumed  == 3

VARIABLES queue,   \* per queue: head, tail, publication frontier, entries
          block,   \* per block: epoch, phase, status epoch, two words, owner
          actor    \* per actor: pc and locals

vars == <<queue, block, actor>>

Fresh(left) ==
  [pc |-> "call", ticket |-> 0, entry |-> 0, block |-> -1, epoch |-> 0,
   left |-> left, owns |-> FALSE, queue |-> QF, alias |-> FALSE, read |-> 0]

Init ==
  /\ queue = [q \in Queues |->
       [head |-> IF q = QF THEN 0 ELSE N, tail |-> N, frontier |-> N,
        entries |-> [b \in Blocks |-> IF q = QF THEN b ELSE 0]]]
  /\ block = [b \in Blocks |->
       [epoch |-> 0, phase |-> Empty, statusEpoch |-> 0,
        word0 |-> 0, word1 |-> 0, owner |-> Member(QF)]]
  /\ actor = [i \in Actors |-> Fresh(M)]

Index(t) == t % N
Cycle(t) == t \div N          \* of a ticket, and of an entry word
Holds(i) == actor[i].owns /\ block[actor[i].block].owner = i

(***************************************************************************)
(* Model.invariant, part by part.                                          *)
(***************************************************************************)
Live(q)     == queue[q].head .. queue[q].frontier - 1
EntryAt(q, t) == queue[q].entries[Index(t)]
Queued(q)   == {EntryAt(q, t) % N : t \in Live(q)}

FrontierOrder == \A q \in Queues :
  /\ queue[q].head \in 0 .. queue[q].frontier
  /\ queue[q].frontier - queue[q].head <= N
  /\ queue[q].tail \in queue[q].frontier - 1 .. queue[q].frontier

NoHole == \A q \in Queues : \A t \in Live(q) : Cycle(EntryAt(q, t)) = Cycle(t)

QueuedReady == \A q \in Queues : \A b \in Queued(q) :
  /\ block[b].owner = Member(q)
  /\ block[b].phase = (IF q = QF THEN Empty ELSE Committed)
  /\ block[b].statusEpoch = block[b].epoch
  /\ q = QR => block[b].word0 = block[b].word1

\* Every block is in one queue, once, or the token of one actor.
Conservation ==
  /\ \A q \in Queues : Cardinality(Queued(q)) = Cardinality(Live(q))
  /\ Queued(QF) \cap Queued(QR) = {}
  /\ \A i \in Actors : actor[i].owns \/ actor[i].alias => Holds(i)
  /\ Blocks \ (Queued(QF) \cup Queued(QR))
       = {actor[i].block : i \in {j \in Actors : actor[j].owns}}

Invariant == FrontierOrder /\ NoHole /\ QueuedReady /\ Conservation

Terminal == \A i \in Actors : actor[i].pc = "done"

(***************************************************************************)
(* The steps of actor i.  Goto keeps what is not overridden.               *)
(***************************************************************************)
At(i, pc) == actor[i].pc = pc
Own(i)    == actor[i].block
Goto(i, changes) == actor' = [actor EXCEPT ![i] = changes @@ @]
SetBlock(b, changes) == block' = [block EXCEPT ![b] = changes @@ @]
Observe(pc) == [pc |-> pc, ticket |-> 0, entry |-> 0]   \* forget what was read

\* The queue an actor takes from, and the one it is about to put into.
Source(i) == IF IsProducer(i) THEN QF ELSE QR
Target(i) == actor[i].queue

Call(i) ==
  /\ At(i, "call")
  /\ IF IsProducer(i) /\ actor[i].left = 0
       THEN actor' = [actor EXCEPT ![i] = [Fresh(0) EXCEPT !.pc = "done"]]
       ELSE Goto(i, [Fresh(actor[i].left) EXCEPT !.pc = "head", !.queue = Source(i)])
  /\ UNCHANGED <<queue, block>>

LoadHead(i) ==
  /\ At(i, "head")
  /\ Goto(i, [pc |-> "entry", ticket |-> queue[Source(i)].head])
  /\ UNCHANGED <<queue, block>>

ProducersDone == \A j \in Actors : IsProducer(j) => At(j, "done")
SeesEmpty(i) == /\ Cycle(actor[i].ticket) > 0
                /\ Cycle(EntryAt(Source(i), actor[i].ticket)) = Cycle(actor[i].ticket) - 1

LoadEntry(i) ==
  LET e == EntryAt(Source(i), actor[i].ticket) IN
  /\ At(i, "entry")
  /\ IF Cycle(e) = Cycle(actor[i].ticket)
       THEN Goto(i, [pc |-> "claim", entry |-> e])
       ELSE IF SeesEmpty(i)
       THEN Goto(i, Observe(IF ~IsProducer(i) /\ ProducersDone THEN "done" ELSE "call"))
       ELSE Goto(i, Observe("head"))
  /\ UNCHANGED <<queue, block>>

Claims(i) == At(i, "claim") /\ queue[Source(i)].head = actor[i].ticket
ClaimHead(i) ==
  LET b == actor[i].entry % N IN
  /\ At(i, "claim")
  /\ IF Claims(i)
       THEN /\ queue' = [queue EXCEPT ![Source(i)].head = actor[i].ticket + 1]
            /\ SetBlock(b, [owner |-> i])
            /\ Goto(i, [block |-> b, owns |-> TRUE]
                       @@ Observe(IF IsProducer(i) THEN "epoch" ELSE "validate"))
       ELSE Goto(i, Observe("head")) /\ UNCHANGED <<queue, block>>

AdvanceEpoch(i) ==
  LET g == block[Own(i)].epoch + 1 IN
  /\ At(i, "epoch")
  /\ SetBlock(Own(i), [epoch |-> g])
  /\ Goto(i, [pc |-> "reserve", epoch |-> g, left |-> actor[i].left - 1])
  /\ UNCHANGED queue

Reserve(i) ==
  /\ At(i, "reserve")
  /\ SetBlock(Own(i), [phase |-> Reserved, statusEpoch |-> block[Own(i)].epoch])
  /\ Goto(i, [pc |-> "word0"])
  /\ UNCHANGED queue

\* The two ordinary words of a message; no two reservations write the same value.
Value(i) == 1 + i * M + (M - actor[i].left - 1)
WriteWord(i) ==
  /\ \/ At(i, "word0") /\ SetBlock(Own(i), [word0 |-> Value(i)]) /\ Goto(i, [pc |-> "word1"])
     \/ At(i, "word1") /\ SetBlock(Own(i), [word1 |-> Value(i)]) /\ Goto(i, [pc |-> "commit"])
  /\ UNCHANGED queue

Abort(i) ==
  /\ AllowAbort /\ actor[i].pc \in {"word0", "word1"}
  /\ SetBlock(Own(i), [phase |-> Empty])
  /\ Goto(i, [pc |-> "tail", queue |-> QF])
  /\ UNCHANGED queue

Commit(i) ==
  /\ At(i, "commit")
  /\ SetBlock(Own(i), [phase |-> Committed])
  /\ Goto(i, [pc |-> "tail", queue |-> QR])
  /\ UNCHANGED queue

Validate(i) ==
  /\ At(i, "validate")
  /\ SetBlock(Own(i), [phase |-> Consumed])
  /\ Goto(i, [pc |-> "read0", epoch |-> block[Own(i)].epoch, alias |-> TRUE])
  /\ UNCHANGED queue

ReadWord(i) ==
  /\ \/ At(i, "read0") /\ Goto(i, [pc |-> "read1", read |-> block[Own(i)].word0])
     \/ At(i, "read1") /\ Goto(i, [pc |-> "return", alias |-> FALSE, read |-> 0])
  /\ UNCHANGED <<queue, block>>

Return(i) ==
  /\ At(i, "return")
  /\ SetBlock(Own(i), [phase |-> Empty])
  /\ Goto(i, [pc |-> "tail", queue |-> QF])
  /\ UNCHANGED queue

LoadTail(i) ==
  /\ At(i, "tail")
  /\ Goto(i, [pc |-> "slot", ticket |-> queue[Target(i)].tail, entry |-> 0])
  /\ UNCHANGED <<queue, block>>

\* Mutant: a current entry is overwritten (the explorer's overwrite_current).
LoadSlot_Overwrites(i) ==
  /\ At(i, "slot")
  /\ Goto(i, [pc |-> "install", entry |-> EntryAt(Target(i), actor[i].ticket)])
  /\ UNCHANGED <<queue, block>>

\* A current entry means that the tail lags: help it.  One cycle older is free.
LoadSlot(i) ==
  LET e == EntryAt(Target(i), actor[i].ticket)
      c == Cycle(actor[i].ticket)
  IN /\ At(i, "slot")
     /\ IF Cycle(e) = c THEN Goto(i, [pc |-> "help", entry |-> e])
        ELSE IF actor[i].ticket >= N /\ Cycle(e) = c - 1
        THEN Goto(i, [pc |-> "install", entry |-> e])
        ELSE Goto(i, Observe("tail"))
     /\ UNCHANGED <<queue, block>>

Installs(i) == /\ At(i, "install")
               /\ EntryAt(Target(i), actor[i].ticket) = actor[i].entry
Install(i) ==
  LET t == actor[i].ticket IN
  /\ At(i, "install")
  /\ IF Installs(i)
       THEN /\ queue' = [queue EXCEPT
                 ![Target(i)].entries[Index(t)] = Cycle(t) * N + Own(i),
                 ![Target(i)].frontier = t + 1]
            /\ SetBlock(Own(i), [owner |-> Member(Target(i))])
            /\ Goto(i, [pc |-> "advance", owns |-> FALSE])
       ELSE Goto(i, Observe("tail")) /\ UNCHANGED <<queue, block>>

\* The tail CAS, by the installer ("advance") or by a helper that then retries.
AdvanceTail(i) ==
  LET t == actor[i].ticket IN
  /\ actor[i].pc \in {"advance", "help"}
  /\ queue' = [queue EXCEPT ![Target(i)].tail = IF @ = t THEN t + 1 ELSE @]
  /\ Goto(i, Observe(IF At(i, "advance") THEN "respond" ELSE "tail"))
  /\ UNCHANGED block

Respond(i) ==
  /\ At(i, "respond")
  /\ actor' = [actor EXCEPT ![i] = Fresh(actor[i].left)]
  /\ UNCHANGED <<queue, block>>

(***************************************************************************)
(* The verdicts yielded by Model.successors.                               *)
(***************************************************************************)
Fault(i) ==
  LET a == actor[i]  b == block[a.block] IN
  \/ Claims(i) /\ block[a.entry % N].owner # Member(Source(i))   \* DOUBLE_ALLOCATION
  \/ At(i, "epoch") /\ (b.phase # Empty \/ b.statusEpoch # b.epoch)
  \/ At(i, "validate") /\ (b.phase # Committed \/ b.statusEpoch # b.epoch
                            \/ b.word0 # b.word1)                 \* TORN_OR_UNCOMMITTED
  \/ At(i, "read1") /\ b.word1 # a.read                          \* TORN_PAYLOAD
  \/ Installs(i) /\ (~Holds(i) \/ a.ticket # queue[Target(i)].frontier)
  \/ a.owns /\ ~Holds(i)                                         \* OWNER_MISMATCH

Step(i) ==
  /\ ~Fault(i)
  /\ \/ Call(i) \/ LoadHead(i) \/ LoadEntry(i) \/ ClaimHead(i)
     \/ AdvanceEpoch(i) \/ Reserve(i) \/ WriteWord(i) \/ Abort(i) \/ Commit(i)
     \/ Validate(i) \/ ReadWord(i) \/ Return(i)
     \/ LoadTail(i) \/ LoadSlot(i) \/ Install(i) \/ AdvanceTail(i) \/ Respond(i)

Next == \E i \in Actors : Step(i)
Spec == Init /\ [][Next]_vars
=============================================================================
