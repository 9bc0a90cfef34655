-------------------------------- MODULE Ncq --------------------------------
(***************************************************************************)
(* The NCQ-SC64 layout (src/src/elite_mpmc_ncq.c under the entry points of *)
(* src/src/elite_core.c): a queue QF of free blocks and a queue QR of      *)
(* published blocks, shared by the producers and the consumers of several  *)
(* processes through sequentially consistent atomics.                      *)
(*                                                                         *)
(* One action is one access to a word that other endpoints may change      *)
(* meanwhile (a cursor, a queue entry, the gate, the failure word) with    *)
(* the local computation that follows it.  The descriptor of a block is    *)
(* accessed by the owner of its token alone, which Partition states, so    *)
(* the accesses that change its phase are one action.                      *)
(*                                                                         *)
(* An endpoint presents its own current lease: stale and foreign leases,   *)
(* views and the lease serial belong to the endpoint interface, not to the *)
(* queues.  A call refused before it changed anything is a stuttering step *)
(* and so has no action.                                                   *)
(***************************************************************************)
EXTENDS Integers, FiniteSets

CONSTANTS
  Producers, Consumers,  \* attached endpoints of each role
  Authority,             \* the manager's process
  N,                     \* capacity: blocks, and entries of each queue
  WordMax,               \* the largest value of a cursor (2^64 - 1)
  EpochCeiling,          \* the largest epoch of a block (2^62 - 2)
  Retirers, Reasons,     \* who retires the generation, and with what reason
  Crashable              \* endpoints whose process may die

Endpoints == Producers \cup Consumers
Procs     == Endpoints \cup {Authority}
Blocks    == 0 .. N - 1
Queues    == {"QF", "QR"}

FailureReasons == {"none", "INTEGRITY", "COUNTER", "PEER", "PROTOCOL",
                   "RESOURCE", "AUTHORITY"}
\* Failures after which the tokens of a retiring generation stay usable.
Benign == {"none", "PEER", "AUTHORITY"}

ASSUME NcqAssumption ==
  /\ N \in Nat /\ N >= 2
  /\ WordMax \in Nat /\ WordMax >= 2 * N
  /\ EpochCeiling \in Nat \ {0}
  /\ Producers \cap Consumers = {}
  /\ Authority \notin Producers \cup Consumers
  /\ Retirers \subseteq Producers \cup Consumers \cup {Authority}
  /\ Reasons \subseteq FailureReasons
  /\ Crashable \subseteq Producers \cup Consumers

\* The rest of what el_geometry admits: a power of two, an endpoint per block.
ASSUME GeometryAssumption ==
  /\ \E k \in 1 .. 31 : N = 2^k
  /\ Producers # {} /\ Consumers # {}
  /\ IsFiniteSet(Endpoints) /\ Cardinality(Endpoints) <= N

TicketCeiling == WordMax - N

\* A ticket t is entry t & mask in cycle t & ~mask; N is a power of two.
Index(t) == t % N
Cycle(t) == t - Index(t)
Entries  == [cycle : Nat, block : Blocks]
NoEntry  == [cycle |-> 0, block |-> 0]

VARIABLES
  gate, failure,       \* admission state, first recorded failure
  head, tail, entry,   \* the cursors and the entries of both queues
  desc,                \* the descriptor of each block
  token,               \* the token of each connection
  poisoned, draining,  \* connections with these flags set
  call,                \* the call each process is executing (its stack)
  retained,            \* blocks given up by elite_abandon_retained
  crashed              \* endpoints whose process is dead

queues  == <<head, tail, entry>>
control == <<gate, failure>>
flags   == <<poisoned, draining>>
history == <<retained, crashed>>
vars    == <<control, queues, desc, token, flags, call, history>>

NoCall  == [pc |-> "idle", queue |-> "QF", ticket |-> 0, seen |-> NoEntry,
            why |-> "none"]
NoToken == [owned |-> "none", block |-> 0, epoch |-> 0]

Init ==
  /\ gate = "READY" /\ failure = "none"
  /\ head = [q \in Queues |-> IF q = "QF" THEN 0 ELSE N]
  /\ tail = [q \in Queues |-> N]
  /\ entry = [q \in Queues |-> [i \in Blocks |->
                [cycle |-> 0, block |-> IF q = "QF" THEN i ELSE 0]]]
  /\ desc = [b \in Blocks |->
               [epoch |-> 0, stamp |-> 0, phase |-> "EMPTY", meta |-> 0]]
  /\ token = [e \in Endpoints |-> NoToken]
  /\ poisoned = {} /\ draining = {}
  /\ call = [p \in Procs |-> NoCall]
  /\ retained = {} /\ crashed = {}
-----------------------------------------------------------------------------
(* Control flow of a call.                                                 *)

At(p, label) == p \notin crashed /\ call[p].pc = label
Goto(p, label) == call' = [call EXCEPT ![p] = [@ EXCEPT !.pc = label]]
Enter(e, label, q) ==
  call' = [call EXCEPT ![e] = [NoCall EXCEPT !.pc = label, !.queue = q]]
Finish(p) == call' = [call EXCEPT ![p] = NoCall]
StartRetire(p, reason) ==
  call' = [call EXCEPT ![p] = [NoCall EXCEPT !.pc = "retire", !.why = reason]]

\* el_fail: the connection is poisoned, then the generation retired.
Fail(e, reason) == poisoned' = poisoned \cup {e} /\ StartRetire(e, reason)

\* el_ready without read_drain.
Ready(e) == e \notin poisoned /\ gate = "READY"
-----------------------------------------------------------------------------
(* el_retire_raw, for elite_retire, elite_object_retire and el_fail: the   *)
(* failure word is set once, then the gate leaves READY once.  Load and    *)
(* exchange are apart: others retire or quarantine in between.             *)

Retire(p, reason) ==
  /\ At(p, "idle")
  /\ StartRetire(p, reason)
  /\ UNCHANGED <<control, queues, desc, token, flags, history>>

RetireFailure(p) ==
  /\ At(p, "retire")
  /\ failure' = IF failure = "none" THEN call[p].why ELSE failure
  /\ Goto(p, "retire_gate")
  /\ UNCHANGED <<gate, queues, desc, token, flags, history>>

RetireLoad(p) ==
  /\ At(p, "retire_gate")
  /\ IF gate = "READY" THEN Goto(p, "retire_cas") ELSE Finish(p)
  /\ UNCHANGED <<control, queues, desc, token, flags, history>>

\* Mutant: the gate is stored, not exchanged against the state that was loaded.
RetireGate_Store(p) ==
  /\ At(p, "retire_cas")
  /\ gate' = "RETIRE_REQUESTED"
  /\ Finish(p)
  /\ UNCHANGED <<failure, queues, desc, token, flags, history>>

RetireGate(p) ==
  /\ At(p, "retire_cas")
  /\ \/ gate = "READY" /\ gate' = "RETIRE_REQUESTED" /\ Finish(p)
     \/ gate # "READY" /\ Goto(p, "retire_gate") /\ UNCHANGED gate
  /\ UNCHANGED <<failure, queues, desc, token, flags, history>>

\* elite_object_quarantine, after its own retirement of the object.
Quarantine ==
  /\ At(Authority, "idle")
  /\ gate = "RETIRE_REQUESTED"
  /\ gate' = "QUARANTINED"
  /\ UNCHANGED <<failure, queues, desc, token, flags, call, history>>
-----------------------------------------------------------------------------
(* el_ncq_dequeue: claim the oldest entry, or observe the queue empty.     *)

Installed(t, word) == word.cycle = Cycle(t)
Vacant(t, word)    == Cycle(t) >= N /\ word.cycle = Cycle(t) - N

DequeueHead(e) ==
  /\ At(e, "deq_head")
  /\ LET h == head[call[e].queue] IN
       IF h > TicketCeiling
       THEN Fail(e, "PROTOCOL")
       ELSE /\ call' = [call EXCEPT ![e] = [@ EXCEPT !.pc = "deq_entry", !.ticket = h]]
            /\ UNCHANGED poisoned
  /\ UNCHANGED <<control, queues, desc, token, draining, history>>

\* Mutant: an entry of a later cycle (a stale head) passes for an empty queue.
DequeueEntry_StaleIsEmpty(e) ==
  /\ At(e, "deq_entry")
  /\ LET h    == call[e].ticket
         word == entry[call[e].queue][Index(h)]
     IN  IF Installed(h, word)
         THEN call' = [call EXCEPT ![e] = [@ EXCEPT !.pc = "deq_cas", !.seen = word]]
         ELSE Finish(e)
  /\ UNCHANGED <<control, queues, desc, token, flags, history>>

\* Mutant: the tail, not the entry, decides whether the queue is empty.
DequeueEntry_TrustsTail(e) ==
  /\ At(e, "deq_entry")
  /\ LET q    == call[e].queue
         h    == call[e].ticket
         word == entry[q][Index(h)]
     IN  IF h < tail[q] /\ Installed(h, word)
         THEN call' = [call EXCEPT ![e] = [@ EXCEPT !.pc = "deq_cas", !.seen = word]]
         ELSE IF h >= tail[q] THEN Finish(e) ELSE Goto(e, "deq_head")
  /\ UNCHANGED <<control, queues, desc, token, flags, history>>

DequeueEntry(e) ==
  /\ At(e, "deq_entry")
  /\ LET h    == call[e].ticket
         word == entry[call[e].queue][Index(h)]
     IN  IF Installed(h, word) /\ h >= TicketCeiling
         THEN Fail(e, "COUNTER")
         ELSE /\ IF Installed(h, word)
                 THEN call' = [call EXCEPT ![e] = [@ EXCEPT !.pc = "deq_cas", !.seen = word]]
                 ELSE IF Vacant(h, word) THEN Finish(e) ELSE Goto(e, "deq_head")
              /\ UNCHANGED poisoned
  /\ UNCHANGED <<control, queues, desc, token, draining, history>>

\* The head CAS: its winner owns the captured block (el_begin_token).
DequeueClaim(e) ==
  /\ At(e, "deq_cas")
  /\ LET q == call[e].queue
         h == call[e].ticket
     IN  IF head[q] = h
         THEN /\ head' = [head EXCEPT ![q] = h + 1]
              /\ token' = [token EXCEPT ![e] =
                   [owned |-> IF q = "QF" THEN "write" ELSE "read",
                    block |-> call[e].seen.block, epoch |-> 0]]
              /\ Goto(e, "claimed")
         ELSE /\ Goto(e, "deq_head")
              /\ UNCHANGED <<head, token>>
  /\ UNCHANGED <<control, tail, entry, desc, flags, history>>
-----------------------------------------------------------------------------
(* el_ncq_enqueue: the caller's token is outside both queues.              *)

EnqueueTail(e) ==
  /\ At(e, "enq_tail")
  /\ LET t == tail[call[e].queue] IN
       IF t >= TicketCeiling
       THEN Fail(e, "COUNTER")
       ELSE /\ call' = [call EXCEPT ![e] = [@ EXCEPT !.pc = "enq_entry", !.ticket = t]]
            /\ UNCHANGED poisoned
  /\ UNCHANGED <<control, queues, desc, token, draining, history>>

\* Mutant: any entry that is not of this cycle is taken for the previous one.
EnqueueEntry_AnyCycle(e) ==
  /\ At(e, "enq_entry")
  /\ LET t    == call[e].ticket
         word == entry[call[e].queue][Index(t)]
         next == IF Installed(t, word) THEN "enq_help" ELSE "enq_install"
     IN  call' = [call EXCEPT ![e] = [@ EXCEPT !.pc = next, !.seen = word]]
  /\ UNCHANGED <<control, queues, desc, token, flags, history>>

EnqueueEntry(e) ==
  /\ At(e, "enq_entry")
  /\ LET t    == call[e].ticket
         word == entry[call[e].queue][Index(t)]
         next == IF Installed(t, word) THEN "enq_help"
                 ELSE IF Vacant(t, word) THEN "enq_install" ELSE "enq_tail"
     IN  call' = [call EXCEPT ![e] = [@ EXCEPT !.pc = next, !.seen = word]]
  /\ UNCHANGED <<control, queues, desc, token, flags, history>>

AdvanceTail(e) ==
  LET q == call[e].queue
      t == call[e].ticket
  IN  tail' = [tail EXCEPT ![q] = IF @ = t THEN t + 1 ELSE @]

\* Mutant: the enqueuer waits for the installer to advance the tail itself.
EnqueueHelp_Wait(e) ==
  /\ At(e, "enq_help")
  /\ Goto(e, "enq_tail")
  /\ UNCHANGED <<control, queues, desc, token, flags, history>>

\* Another endpoint installed this ticket: help its tail along and retry.
EnqueueHelp(e) ==
  /\ At(e, "enq_help")
  /\ AdvanceTail(e)
  /\ Goto(e, "enq_tail")
  /\ UNCHANGED <<control, head, entry, desc, token, flags, history>>

\* Mutant: the entry is stored without comparing it with the observed word.
EnqueueInstall_Store(e) ==
  /\ At(e, "enq_install")
  /\ entry' = [entry EXCEPT ![call[e].queue][Index(call[e].ticket)] =
                  [cycle |-> Cycle(call[e].ticket), block |-> token[e].block]]
  /\ Goto(e, "enq_advance")
  /\ UNCHANGED <<control, head, tail, desc, token, flags, history>>

\* The entry CAS transfers the token: linearization point of the enqueue.
EnqueueInstall(e) ==
  /\ At(e, "enq_install")
  /\ LET q == call[e].queue
         t == call[e].ticket
     IN  IF entry[q][Index(t)] = call[e].seen
         THEN /\ entry' = [entry EXCEPT ![q][Index(t)] =
                             [cycle |-> Cycle(t), block |-> token[e].block]]
              /\ Goto(e, "enq_advance")
         ELSE /\ Goto(e, "enq_tail")
              /\ UNCHANGED entry
  /\ UNCHANGED <<control, head, tail, desc, token, flags, history>>

\* Mutant: the descriptor is stamped once more after the block was handed over.
EnqueueAdvance_TouchesBlock(e) ==
  /\ At(e, "enq_advance")
  /\ AdvanceTail(e)
  /\ desc' = [desc EXCEPT ![token[e].block].meta = token[e].epoch]
  /\ token' = [token EXCEPT ![e] = NoToken]
  /\ Finish(e)
  /\ UNCHANGED <<control, head, entry, flags, history>>

\* The installer's own tail CAS, then el_end_token: local writes only.
EnqueueAdvance(e) ==
  /\ At(e, "enq_advance")
  /\ AdvanceTail(e)
  /\ token' = [token EXCEPT ![e] = NoToken]
  /\ Finish(e)
  /\ UNCHANGED <<control, head, entry, desc, flags, history>>
-----------------------------------------------------------------------------
(* Producer: elite_write_reserve, elite_write_commit.                      *)

WriteReserve(e) ==
  /\ At(e, "idle") /\ token[e].owned = "none"
  /\ Ready(e)
  /\ Enter(e, "deq_head", "QF")
  /\ UNCHANGED <<control, queues, desc, token, flags, history>>

\* el_ncq_reserve after its claim: EMPTY and coherent, or the token is kept.
ReserveBlock(e) ==
  /\ At(e, "claimed") /\ token[e].owned = "write"
  /\ LET b == token[e].block
         d == desc[b]
     IN  IF d.phase # "EMPTY" \/ d.epoch # d.stamp \/ d.stamp > EpochCeiling
         THEN Fail(e, "INTEGRITY") /\ UNCHANGED <<desc, token>>
         ELSE IF d.stamp >= EpochCeiling
         THEN Fail(e, "COUNTER") /\ UNCHANGED <<desc, token>>
         ELSE /\ desc' = [desc EXCEPT ![b] = [@ EXCEPT !.epoch = d.stamp + 1,
                                                    !.stamp = d.stamp + 1,
                                                    !.phase = "RESERVED"]]
              /\ token' = [token EXCEPT ![e].epoch = d.stamp + 1]
              /\ Finish(e)
              /\ UNCHANGED poisoned
  /\ UNCHANGED <<control, queues, draining, history>>

InPhase(e, phase) ==
  LET d == desc[token[e].block]
  IN  d.epoch = token[e].epoch /\ d.stamp = token[e].epoch /\ d.phase = phase

WriteCommit(e) ==
  /\ At(e, "idle") /\ token[e].owned = "write"
  /\ Ready(e)
  /\ Enter(e, "commit", "QR")
  /\ UNCHANGED <<control, queues, desc, token, flags, history>>

\* Mutant: COMMITTED and the enqueue do not wait for the metadata.
CommitBlock_NoMetadata(e) ==
  /\ At(e, "commit")
  /\ desc' = [desc EXCEPT ![token[e].block].phase = "COMMITTED"]
  /\ Goto(e, "enq_tail")
  /\ UNCHANGED <<control, queues, token, flags, history>>

\* el_ncq_commit up to its enqueue: metadata first, then COMMITTED.  The
\* message of a block is named by the epoch it was written in.
CommitBlock(e) ==
  /\ At(e, "commit")
  /\ IF InPhase(e, "RESERVED")
     THEN /\ desc' = [desc EXCEPT ![token[e].block] =
                      [@ EXCEPT !.meta = token[e].epoch, !.phase = "COMMITTED"]]
          /\ Goto(e, "enq_tail")
          /\ UNCHANGED poisoned
     ELSE Fail(e, "INTEGRITY") /\ UNCHANGED desc
  /\ UNCHANGED <<control, queues, token, draining, history>>
-----------------------------------------------------------------------------
(* Consumer: elite_read_borrow, elite_enable_drain.                        *)

ReadBorrow(e) ==
  /\ At(e, "idle") /\ token[e].owned = "none"
  /\ e \notin poisoned
  /\ \/ gate = "READY" /\ Enter(e, "deq_head", "QR")
     \/ gate = "RETIRE_REQUESTED" /\ e \in draining /\ Enter(e, "drain", "QR")
  /\ UNCHANGED <<control, queues, desc, token, flags, history>>

\* el_ready's second load, of the failure word of a retiring generation.
DrainFailure(e) ==
  /\ At(e, "drain")
  /\ IF failure \in Benign THEN Goto(e, "deq_head") ELSE Finish(e)
  /\ UNCHANGED <<control, queues, desc, token, flags, history>>

\* el_read_metadata: a COMMITTED message of a legal epoch becomes CONSUMED.
ReadMetadata(e) ==
  /\ At(e, "claimed") /\ token[e].owned = "read"
  /\ LET b == token[e].block
         d == desc[b]
     IN  /\ token' = [token EXCEPT ![e].epoch = d.epoch]
         /\ IF d.epoch \in 1 .. EpochCeiling /\ d.stamp = d.epoch /\ d.phase = "COMMITTED"
            THEN /\ desc' = [desc EXCEPT ![b].phase = "CONSUMED"]
                 /\ Finish(e)
                 /\ UNCHANGED poisoned
            ELSE Fail(e, "INTEGRITY") /\ UNCHANGED desc
  /\ UNCHANGED <<control, queues, draining, history>>

EnableDrain(e) ==
  /\ At(e, "idle") /\ token[e].owned = "none"
  /\ draining' = draining \cup {e}
  /\ UNCHANGED <<control, queues, desc, token, poisoned, call, history>>
-----------------------------------------------------------------------------
(* elite_write_abort and elite_read_release return the block to QF.        *)

\* The gate load of el_return_allowed.
ReturnToken(e) ==
  /\ At(e, "idle") /\ token[e].owned # "none"
  /\ e \notin poisoned /\ gate \in {"READY", "RETIRE_REQUESTED"}
  /\ Enter(e, "return_failure", "QF")
  /\ UNCHANGED <<control, queues, desc, token, flags, history>>

\* Its failure load.
ReturnFailure(e) ==
  /\ At(e, "return_failure")
  /\ IF failure \in Benign THEN Goto(e, "return") ELSE Finish(e)
  /\ UNCHANGED <<control, queues, desc, token, flags, history>>

\* Mutant: the block goes back to QF in the phase it is in.
ReturnBlock_KeepsPhase(e) ==
  /\ At(e, "return")
  /\ Goto(e, "enq_tail")
  /\ UNCHANGED <<control, queues, desc, token, flags, history>>

\* el_ncq_return up to its enqueue.
ReturnBlock(e) ==
  /\ At(e, "return")
  /\ IF InPhase(e, IF token[e].owned = "write" THEN "RESERVED" ELSE "CONSUMED")
     THEN /\ desc' = [desc EXCEPT ![token[e].block].phase = "EMPTY"]
          /\ Goto(e, "enq_tail")
          /\ UNCHANGED poisoned
     ELSE Fail(e, "INTEGRITY") /\ UNCHANGED desc
  /\ UNCHANGED <<control, queues, token, draining, history>>

\* Mutant: the abandoned token is not cleared on the connection.
AbandonRetained_KeepsToken(e) ==
  /\ At(e, "idle") /\ token[e].owned # "none"
  /\ gate # "READY"
  /\ poisoned' = poisoned \cup {e}
  /\ retained' = retained \cup {token[e].block}
  /\ UNCHANGED <<control, queues, desc, token, draining, call, crashed>>

\* elite_abandon_retained: the block stays in the old generation for ever.
AbandonRetained(e) ==
  /\ At(e, "idle") /\ token[e].owned # "none"
  /\ gate # "READY"
  /\ token' = [token EXCEPT ![e] = NoToken]
  /\ poisoned' = poisoned \cup {e}
  /\ retained' = retained \cup {token[e].block}
  /\ UNCHANGED <<control, queues, desc, draining, call, crashed>>
-----------------------------------------------------------------------------
\* The death of a process: its calls stop where they are, its token stays out.
Crash(e) ==
  /\ e \notin crashed
  /\ crashed' = crashed \cup {e}
  /\ UNCHANGED <<control, queues, desc, token, flags, call, retained>>

RetireStep(p) == RetireFailure(p) \/ RetireLoad(p) \/ RetireGate(p)

\* A step of a call in progress.
Step(e) ==
  \/ DequeueHead(e) \/ DequeueEntry(e) \/ DequeueClaim(e)
  \/ EnqueueTail(e) \/ EnqueueEntry(e) \/ EnqueueHelp(e)
  \/ EnqueueInstall(e) \/ EnqueueAdvance(e)
  \/ ReserveBlock(e) \/ CommitBlock(e) \/ ReadMetadata(e)
  \/ DrainFailure(e) \/ ReturnFailure(e) \/ ReturnBlock(e)
  \/ RetireStep(e)

Next ==
  \/ \E p \in Producers : WriteReserve(p) \/ WriteCommit(p)
  \/ \E c \in Consumers : ReadBorrow(c) \/ EnableDrain(c)
  \/ \E e \in Endpoints : ReturnToken(e) \/ AbandonRetained(e) \/ Step(e)
  \/ \E p \in Retirers, r \in Reasons : Retire(p, r)
  \/ RetireStep(Authority)
  \/ Quarantine
  \/ \E e \in Crashable : Crash(e)

Spec == Init /\ [][Next]_vars

\* A live process that is inside a call keeps being scheduled.
FairSpec == Spec /\ \A e \in Endpoints : WF_vars(Step(e))

-----------------------------------------------------------------------------
(* What the queues contain.                                                *)

\* The first ticket not yet installed; the tail lags it by at most one.
Frontier(q) ==
  IF Installed(tail[q], entry[q][Index(tail[q])]) THEN tail[q] + 1 ELSE tail[q]

Tickets(q)  == head[q] .. Frontier(q) - 1
Slot(q, t)  == entry[q][Index(t)].block
Contents(q) == {Slot(q, t) : t \in Tickets(q)}

\* The token is in an endpoint's hands: claimed, and not handed over yet.
Holding(e) == token[e].owned # "none" /\ call[e].pc # "enq_advance"
Held == {token[e].block : e \in {x \in Endpoints : Holding(x)}}

ReadySeq == [i \in 1 .. Frontier("QR") - head["QR"] |-> Slot("QR", head["QR"] + i - 1)]
-----------------------------------------------------------------------------
Labels == {"idle", "retire", "retire_gate", "retire_cas", "deq_head", "deq_entry",
           "deq_cas", "claimed", "enq_tail", "enq_entry", "enq_help", "enq_install",
           "enq_advance", "commit", "drain", "return_failure", "return"}

Phases == {"EMPTY", "RESERVED", "COMMITTED", "CONSUMED"}

Calls  == [pc : Labels, queue : Queues, ticket : 0 .. TicketCeiling,
           seen : Entries, why : FailureReasons]
Tokens == [owned : {"none", "write", "read"}, block : Blocks, epoch : 0 .. EpochCeiling]
Descriptors == [epoch : 0 .. EpochCeiling, stamp : 0 .. EpochCeiling,
                phase : Phases, meta : 0 .. EpochCeiling]

\* Types; no cursor, also not one a helper writes, ever passes the ceiling.
TypeOK ==
  /\ gate \in {"READY", "RETIRE_REQUESTED", "QUARANTINED"}
  /\ failure \in FailureReasons
  /\ head \in [Queues -> 0 .. TicketCeiling]
  /\ tail \in [Queues -> 0 .. TicketCeiling]
  /\ entry \in [Queues -> [Blocks -> Entries]]
  /\ desc \in [Blocks -> Descriptors]
  /\ token \in [Endpoints -> Tokens]
  /\ poisoned \subseteq Endpoints /\ draining \subseteq Endpoints
  /\ call \in [Procs -> Calls]
  /\ retained \subseteq Blocks /\ crashed \subseteq Endpoints

\* The frontier of each queue runs at most one lap ahead of its head and at
\* most one ticket ahead of its tail, and the entries hold the last N
\* installed tickets: a slow installer or helper overwrites no live entry.
FrontierOrder ==
  \A q \in Queues :
    /\ head[q] <= Frontier(q) /\ Frontier(q) <= head[q] + N
    /\ \A t \in Frontier(q) - N .. Frontier(q) - 1 :
         Installed(t, entry[q][Index(t)])

\* The entry of index i holds a ticket of the last lap, at its own index.
TicketAt(q, i) == entry[q][i].cycle + i
LastLap ==
  \A q \in Queues : \A i \in Blocks :
    TicketAt(q, i) \in Frontier(q) - N .. Frontier(q) - 1 /\ Index(TicketAt(q, i)) = i

\* What a call knows of the queues from the values it loaded earlier.
CallCoherent(e) ==
  LET c == call[e]
      q == c.queue
      t == c.ticket
  IN  /\ c.pc \in {"drain", "deq_head", "deq_entry", "deq_cas"} => token[e].owned = "none"
      /\ c.pc \in {"enq_tail", "enq_entry", "enq_help", "enq_install", "enq_advance",
                   "commit", "return", "return_failure", "claimed"}
           => token[e].owned # "none"
      /\ c.pc \in {"deq_entry", "deq_cas"} => t <= head[q]
      /\ c.pc = "deq_cas" => /\ t < TicketCeiling /\ t < Frontier(q)
                             /\ head[q] = t => entry[q][Index(t)] = c.seen
      /\ c.pc \in {"enq_entry", "enq_help", "enq_install", "enq_advance"}
           => t <= tail[q] /\ t < TicketCeiling
      /\ c.pc \in {"enq_help", "enq_advance"} => t < Frontier(q)
      /\ c.pc = "enq_install" => Vacant(t, c.seen)

\* Every block is at exactly one place: once in QF, once in QR, in the hands
\* of one endpoint, or retained.  No token is lost, doubled or stolen, also
\* when its owner's process dies in the middle of a call.
Partition ==
  /\ \A q \in Queues : \A t, u \in Tickets(q) : Slot(q, t) = Slot(q, u) => t = u
  /\ \A e, f \in Endpoints :
       Holding(e) /\ Holding(f) /\ token[e].block = token[f].block => e = f
  /\ Contents("QF") \cap Contents("QR") = {}
  /\ Held \cap (Contents("QF") \cup Contents("QR")) = {}
  /\ retained \cap (Held \cup Contents("QF") \cup Contents("QR")) = {}
  /\ Blocks = Contents("QF") \cup Contents("QR") \cup Held \cup retained

\* The inductive invariant behind FrontierOrder, Partition and EmptyIsExact:
\* a queue holds at most its capacity, its entries the last lap of tickets.
Window == \A q \in Queues : head[q] <= Frontier(q) /\ Frontier(q) <= head[q] + N

IInv ==
  /\ TypeOK
  /\ Window
  /\ LastLap
  /\ \A e \in Endpoints : CallCoherent(e)
  /\ Partition

\* The message of a published or borrowed block is the one its producer
\* committed in the block's current epoch, and a free block is EMPTY.
MessageIntact ==
  /\ \A b \in Contents("QR") :
       /\ desc[b].phase = "COMMITTED" /\ desc[b].epoch >= 1
       /\ desc[b].stamp = desc[b].epoch /\ desc[b].meta = desc[b].epoch
  /\ \A b \in Contents("QF") : desc[b].phase = "EMPTY" /\ desc[b].stamp = desc[b].epoch
  /\ \A c \in Consumers : Holding(c) /\ At(c, "idle") =>
       desc[token[c].block].meta = token[c].epoch

\* The integrity and protocol checks of the code never condemn a generation
\* whose endpoints all follow the interface.
NoFalseAlarm ==
  \A p \in Procs : call[p].why \notin {"INTEGRITY", "PROTOCOL"} \ Reasons

\* Retirement only goes forward: the first failure reason stays, and a late
\* retirement of an endpoint does not take a quarantined generation back to
\* the state in which consumers drain it.
Progressed == CASE gate = "READY" -> 0 [] gate = "RETIRE_REQUESTED" -> 1 [] OTHER -> 2
RetirementIsForward ==
  [][Progressed' >= Progressed /\ (failure # "none" => failure' = failure)]_control

\* NO_CAPACITY_OBSERVED and NO_DATA_OBSERVED are returned only at an instant
\* when the queue is empty, although its head was loaded earlier.
EmptyIsExact ==
  [][\A e \in Endpoints :
       DequeueEntry(e) /\ call'[e].pc = "idle" => Contents(call[e].queue) = {}]_vars

\* The queues implement the abstract channel: published blocks are borrowed
\* in the order of their installation, and a message changes only in the
\* hands of the producer that owns its block.
Holders  == [e \in Endpoints |-> IF Holding(e)
               THEN [kind |-> token[e].owned, block |-> token[e].block]
               ELSE [kind |-> "none", block |-> 0]]
Written  == [b \in Blocks |-> [epoch |-> desc[b].epoch, meta |-> desc[b].meta]]
Messages == [epoch : Nat, meta : Nat]

Promise == INSTANCE Channel WITH
  free <- Contents("QF"), ready <- ReadySeq, token <- Holders, message <- Written

ImplementsChannel == Promise!Spec

\* Every call of a live process returns, whichever instruction the other
\* processes died at: a dead installer's tail is helped along.
CallsReturn ==
  \A e \in Endpoints : call[e].pc # "idle" ~> call[e].pc = "idle" \/ e \in crashed
\* A consumer whose application keeps borrowing and releasing, and which may
\* drain the retired generation, obtains every published message, also one
\* whose producer died before it advanced the tail.
DrainCompletes ==
  \A c \in Consumers :
    /\ WF_vars(ReadBorrow(c)) /\ WF_vars(ReturnToken(c))
    /\ <>[](/\ gate = "RETIRE_REQUESTED" /\ failure \in Benign
            /\ c \in draining \ (poisoned \cup crashed))
    => []<>(Contents("QR") = {})
=============================================================================
