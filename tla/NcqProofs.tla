----------------------------- MODULE NcqProofs -----------------------------
(***************************************************************************)
(* The type invariant of Ncq and its inductive invariant, IInv, for every  *)
(* capacity, ceiling and set of endpoints.                                 *)
(*                                                                         *)
(* The heart is one step, EnqueueInstall: the entry CAS can succeed only   *)
(* at the frontier (LastLap), and only when the queue is not full          *)
(* (Partition, by counting blocks), so it overwrites an entry whose ticket *)
(* was claimed a lap ago.                                                  *)
(***************************************************************************)
EXTENDS Ncq, FiniteSetTheorems, TLAPS

(***************************************************************************)
(* Tickets, indices and cycles.                                            *)
(***************************************************************************)

\* The capacity of a queue, as the assumption of Ncq gives it.
LEMMA Capacity == N \in Nat /\ N >= 2
  BY NcqAssumption

\* Quotient and remainder of a ticket by the capacity.
LEMMA Division ==
  ASSUME NEW t \in Nat
  PROVE  /\ t \div N \in Nat
         /\ t = N * (t \div N) + (t % N)
         /\ t % N \in 0 .. N - 1
  BY Capacity

\* A ticket has one remainder.
LEMMA Remainder ==
  ASSUME NEW q1 \in Int, NEW q2 \in Int, NEW r1 \in 0 .. N - 1, NEW r2 \in 0 .. N - 1,
         N * q1 + r1 = N * q2 + r2
  PROVE  r1 = r2
  BY Capacity, SMTT(30)

\* A ticket and the one a lap later share their entry, in adjacent cycles.
LEMMA NextLap ==
  ASSUME NEW t \in Nat
  PROVE  Index(t + N) = Index(t) /\ Cycle(t + N) = Cycle(t) + N
  <1> DEFINE a == t \div N
             b == (t + N) \div N
             r == t % N
             s == (t + N) % N
  <1>1. a \in Nat /\ t = N * a + r /\ r \in 0 .. N - 1
    BY Division
  <1>2. b \in Nat /\ t + N = N * b + s /\ s \in 0 .. N - 1
    <2>1. t + N \in Nat
      BY Capacity
    <2> QED BY <2>1, Division
  <1>3. N * (a + 1) + r = N * b + s
    <2>1. N * (a + 1) = N * a + N
      BY <1>1, Capacity
    <2> QED BY <1>1, <1>2, <2>1, Capacity
  <1>4. s = r
    BY <1>1, <1>2, <1>3, Remainder
  <1> QED BY <1>4, <1>1, Capacity DEF Index, Cycle

\* Two tickets less than a lap apart have different entries.
LEMMA SameIndex ==
  ASSUME NEW t \in Nat, NEW u \in Nat, t < u + N, u < t + N, Index(t) = Index(u)
  PROVE  t = u
  <1>1. ASSUME NEW x \in Nat, NEW y \in Nat, x <= y, y < x + N, x % N = y % N
        PROVE  x = y
    BY <1>1, NcqAssumption, Division, Remainder, SMTT(30)
  <1> QED BY <1>1 DEF Index

\* A ticket names a block and a cycle that do not exceed it, and is their sum.
LEMMA IndexType ==
  ASSUME NEW t \in Nat
  PROVE  Index(t) \in Blocks /\ Cycle(t) \in Nat /\ Cycle(t) + Index(t) = t
  BY Division, NcqAssumption, SMTT(30) DEF Index, Cycle, Blocks

\* The ticket ceiling leaves room for a lap.
LEMMA CeilingType == TicketCeiling \in Nat /\ TicketCeiling >= N
  BY NcqAssumption DEF TicketCeiling
-----------------------------------------------------------------------------
(***************************************************************************)
(* Types.                                                                  *)
(***************************************************************************)

\* The constructed object is well typed.
LEMMA InitType == Init => TypeOK
  <1> SUFFICES ASSUME Init PROVE TypeOK
    OBVIOUS
  <1>1. NoCall \in Calls /\ NoToken \in Tokens
    BY NcqAssumption, CeilingType
    DEF NoCall, NoToken, Calls, Tokens, Labels, Queues, Entries, NoEntry, Blocks, FailureReasons
  <1>2. head \in [Queues -> 0 .. TicketCeiling] /\ tail \in [Queues -> 0 .. TicketCeiling]
    BY NcqAssumption, CeilingType DEF Init, Queues
  <1>3. entry \in [Queues -> [Blocks -> Entries]]
    BY NcqAssumption DEF Init, Queues, Blocks, Entries
  <1>4. desc \in [Blocks -> Descriptors]
    BY NcqAssumption DEF Init, Descriptors, Phases
  <1> QED BY <1>1, <1>2, <1>3, <1>4 DEF Init, TypeOK, FailureReasons

\* No call and no token, and the calls that start a queue operation or fail.
LEMMA CallTypes ==
  /\ NoCall \in Calls /\ NoToken \in Tokens
  /\ \A l \in Labels, q \in Queues : [NoCall EXCEPT !.pc = l, !.queue = q] \in Calls
  /\ \A r \in FailureReasons : [NoCall EXCEPT !.pc = "retire", !.why = r] \in Calls
  <1>1. NoCall \in Calls /\ NoToken \in Tokens
    BY Capacity, CeilingType, NcqAssumption
    DEF NoCall, NoToken, Calls, Tokens, Labels, Queues, Entries, NoEntry, Blocks, FailureReasons
  <1>2. "retire" \in Labels
    BY DEF Labels
  <1> QED BY <1>1, <1>2 DEF Calls

\* A call moves by replacing its own record by one of the same type.
LEMMA CallMoves ==
  ASSUME call \in [Procs -> Calls], NEW p \in Procs
  PROVE  /\ \A l \in Labels : Goto(p, l) => call' \in [Procs -> Calls]
         /\ \A l \in Labels, q \in Queues : Enter(p, l, q) => call' \in [Procs -> Calls]
         /\ Finish(p) => call' \in [Procs -> Calls]
         /\ \A r \in FailureReasons : StartRetire(p, r) => call' \in [Procs -> Calls]
         /\ \A l \in Labels, t \in 0 .. TicketCeiling :
              call' = [call EXCEPT ![p] = [@ EXCEPT !.pc = l, !.ticket = t]]
                => call' \in [Procs -> Calls]
         /\ \A l \in Labels, w \in Entries :
              call' = [call EXCEPT ![p] = [@ EXCEPT !.pc = l, !.seen = w]]
                => call' \in [Procs -> Calls]
  <1>1. \A c \in Calls : [call EXCEPT ![p] = c] \in [Procs -> Calls]
    OBVIOUS
  <1>2. call[p] \in Calls
    OBVIOUS
  <1>3. \A l \in Labels : [call[p] EXCEPT !.pc = l] \in Calls
    BY <1>2 DEF Calls
  <1>4. \A l \in Labels, t \in 0 .. TicketCeiling :
          [call[p] EXCEPT !.pc = l, !.ticket = t] \in Calls
    BY <1>2 DEF Calls
  <1>5. \A l \in Labels, w \in Entries : [call[p] EXCEPT !.pc = l, !.seen = w] \in Calls
    BY <1>2 DEF Calls
  <1>6. \A l \in Labels : Goto(p, l) => call' \in [Procs -> Calls]
    BY <1>1, <1>3 DEF Goto
  <1>7. /\ \A l \in Labels, q \in Queues : Enter(p, l, q) => call' \in [Procs -> Calls]
        /\ Finish(p) => call' \in [Procs -> Calls]
        /\ \A r \in FailureReasons : StartRetire(p, r) => call' \in [Procs -> Calls]
    BY <1>1, CallTypes DEF Enter, Finish, StartRetire
  <1>8. /\ \A l \in Labels, t \in 0 .. TicketCeiling :
             call' = [call EXCEPT ![p] = [@ EXCEPT !.pc = l, !.ticket = t]]
               => call' \in [Procs -> Calls]
        /\ \A l \in Labels, w \in Entries :
             call' = [call EXCEPT ![p] = [@ EXCEPT !.pc = l, !.seen = w]]
               => call' \in [Procs -> Calls]
    BY <1>1, <1>4, <1>5
  <1> QED BY <1>6, <1>7, <1>8

\* The parts of a typed state.
LEMMA StateTypes ==
  ASSUME TypeOK
  PROVE  /\ Endpoints \subseteq Procs /\ Authority \in Procs
         /\ \A p \in Procs : /\ call[p].queue \in Queues
                             /\ call[p].ticket \in 0 .. TicketCeiling
                             /\ call[p].seen \in Entries
                             /\ call[p].why \in FailureReasons
         /\ \A e \in Endpoints : /\ token[e] \in Tokens
                                 /\ token[e].owned \in {"none", "write", "read"}
                                 /\ token[e].block \in Blocks
                                 /\ token[e].epoch \in 0 .. EpochCeiling
         /\ \A q \in Queues : /\ head[q] \in 0 .. TicketCeiling
                              /\ tail[q] \in 0 .. TicketCeiling
                              /\ \A i \in Blocks : entry[q][i] \in Entries
         /\ \A b \in Blocks : desc[b] \in Descriptors
  <1>1. Endpoints \subseteq Procs /\ Authority \in Procs
    BY DEF Procs
  <1>2. \A p \in Procs : call[p] \in Calls
    BY DEF TypeOK
  <1>3. \A e \in Endpoints : token[e] \in Tokens
    BY DEF TypeOK
  <1> QED BY <1>1, <1>2, <1>3 DEF TypeOK, Calls, Tokens

\* el_fail keeps the types of what it changes.
LEMMA FailTypes ==
  ASSUME TypeOK, NEW e \in Endpoints, NEW r \in FailureReasons, Fail(e, r)
  PROVE  call' \in [Procs -> Calls] /\ poisoned' \subseteq Endpoints
  BY CallMoves, StateTypes DEF Fail, TypeOK

\* What a step of a call leaves of the types when it moves the call alone.
LEMMA MoveTypes ==
  ASSUME TypeOK, call' \in [Procs -> Calls], poisoned' \subseteq Endpoints,
         UNCHANGED <<control, queues, desc, token, draining, history>>
  PROVE  TypeOK'
  BY DEF TypeOK, control, queues, history

\* RetireStep is the one step that the Authority takes as well.
LEMMA RetireTypes ==
  ASSUME TypeOK, NEW p \in Procs
  PROVE  /\ \A r \in FailureReasons : Retire(p, r) => TypeOK'
         /\ RetireStep(p) => TypeOK'
  <1> USE StateTypes, CallMoves
  <1>1. "retire_gate" \in Labels /\ "retire_cas" \in Labels
    BY DEF Labels
  <1>2. ASSUME NEW r \in FailureReasons, Retire(p, r) PROVE TypeOK'
    BY <1>2 DEF Retire, TypeOK, control, queues, flags, history
  <1>3. CASE RetireFailure(p)
    BY <1>1, <1>3 DEF RetireFailure, TypeOK, queues, flags, history
  <1>4. CASE RetireLoad(p)
    BY <1>1, <1>4 DEF RetireLoad, TypeOK, control, queues, flags, history
  <1>5. CASE RetireGate(p)
    BY <1>1, <1>5 DEF RetireGate, TypeOK, queues, flags, history
  <1> QED BY <1>2, <1>3, <1>4, <1>5 DEF RetireStep

\* Every step of a queue operation keeps the types.
LEMMA StepTypes ==
  ASSUME IInv, NEW e \in Endpoints, Step(e)
  PROVE  TypeOK'
  <1> DEFINE q == call[e].queue
             t == call[e].ticket
             b == token[e].block
  <1>1. TypeOK /\ CallCoherent(e)
    BY DEF IInv
  <1>2. /\ e \in Procs /\ q \in Queues /\ t \in 0 .. TicketCeiling /\ b \in Blocks
        /\ call[e].seen \in Entries /\ token[e] \in Tokens /\ token[e].epoch \in 0 .. EpochCeiling
        /\ head[q] \in 0 .. TicketCeiling /\ tail[q] \in 0 .. TicketCeiling
        /\ desc[b] \in Descriptors
        /\ TicketCeiling \in Nat /\ EpochCeiling \in Nat \ {0}
    BY <1>1, StateTypes, CeilingType, NcqAssumption
  <1>3. /\ \A x \in Nat : entry[q][Index(x)] \in Entries
        /\ call[e].seen.block \in Blocks
    BY <1>1, <1>2, StateTypes, IndexType DEF Entries
  <1>word. entry[q][Index(t)] \in Entries
    <2>1. t \in Nat
      BY <1>2
    <2> HIDE DEF t
    <2> QED BY <2>1, <1>3
  <1>4. {"deq_head", "deq_entry", "deq_cas", "claimed", "enq_tail", "enq_entry", "enq_help",
         "enq_install", "enq_advance", "return"} \subseteq Labels
    BY DEF Labels
  <1>5. \A r \in FailureReasons :
          Fail(e, r) => call' \in [Procs -> Calls] /\ poisoned' \subseteq Endpoints
    BY <1>1, FailTypes
  <1>6. {"PROTOCOL", "COUNTER", "INTEGRITY"} \subseteq FailureReasons
    BY DEF FailureReasons
  <1>7. /\ call \in [Procs -> Calls] /\ poisoned \subseteq Endpoints
        /\ token \in [Endpoints -> Tokens] /\ desc \in [Blocks -> Descriptors]
        /\ NoToken \in Tokens
    BY <1>1, CallTypes DEF TypeOK
  <1> USE <1>2, <1>7
  <1>10. CASE DequeueHead(e)
    BY <1>1, <1>10, <1>4, <1>5, <1>6, CallMoves, MoveTypes DEF DequeueHead
  <1>11. CASE DequeueEntry(e)
    <2>1. call' \in [Procs -> Calls] /\ poisoned' \subseteq Endpoints
      <3>1. CASE Fail(e, "COUNTER")
        BY <3>1, <1>5, <1>6
      <3>2. CASE /\ call' = [call EXCEPT ![e] = [@ EXCEPT !.pc = "deq_cas",
                                                !.seen = entry[q][Index(t)]]]
                 /\ UNCHANGED poisoned
        BY <3>2, <1>word, <1>4, CallMoves
      <3>3. CASE (Finish(e) \/ Goto(e, "deq_head")) /\ UNCHANGED poisoned
        BY <3>3, <1>4, CallMoves
      <3> QED BY <1>11, <3>1, <3>2, <3>3 DEF DequeueEntry
    <2> QED BY <1>1, <1>11, <2>1, MoveTypes DEF DequeueEntry
  <1>12. CASE DequeueClaim(e)
    <2>1. CASE head[q] = t
      <3>1. head' \in [Queues -> 0 .. TicketCeiling]
        BY <1>1, <1>12, <2>1 DEF DequeueClaim, CallCoherent, At, TypeOK
      <3>2. token' \in [Endpoints -> Tokens]
        BY <1>12, <1>3, <2>1 DEF DequeueClaim, Tokens
      <3>3. call' \in [Procs -> Calls]
        BY <1>12, <1>4, <2>1, CallMoves DEF DequeueClaim
      <3> QED BY <1>1, <1>12, <3>1, <3>2, <3>3
              DEF DequeueClaim, TypeOK, control, flags, history
    <2>2. CASE head[q] # t
      <3>1. call' \in [Procs -> Calls]
        BY <1>12, <1>4, <2>2, CallMoves DEF DequeueClaim
      <3> QED BY <1>1, <1>12, <2>2, <3>1
              DEF DequeueClaim, TypeOK, control, flags, history
    <2> QED BY <2>1, <2>2
  <1>13. CASE EnqueueTail(e)
    BY <1>1, <1>13, <1>4, <1>5, <1>6, CallMoves, MoveTypes DEF EnqueueTail
  <1>14. CASE EnqueueEntry(e)
    <2>1. call' \in [Procs -> Calls]
      <3> DEFINE Next3(l) == call' = [call EXCEPT ![e] = [@ EXCEPT !.pc = l,
                                                   !.seen = entry[q][Index(t)]]]
      <3>1. \A l \in Labels : Next3(l) => call' \in [Procs -> Calls]
        BY <1>word, CallMoves
      <3>2. Next3("enq_help") \/ Next3("enq_install") \/ Next3("enq_tail")
        BY <1>14 DEF EnqueueEntry
      <3> QED BY <3>1, <3>2, <1>4
    <2> QED BY <1>1, <1>14, <2>1, MoveTypes DEF EnqueueEntry, flags
  <1>15. ASSUME AdvanceTail(e), call[e].pc \in {"enq_help", "enq_advance"}
         PROVE  tail' \in [Queues -> 0 .. TicketCeiling]
    BY <1>1, <1>15 DEF AdvanceTail, CallCoherent, TypeOK
  <1>16. CASE EnqueueHelp(e)
    BY <1>1, <1>4, <1>15, <1>16, CallMoves
    DEF EnqueueHelp, At, TypeOK, control, flags, history
  <1>17. CASE EnqueueInstall(e)
    <2>1. call' \in [Procs -> Calls]
      BY <1>17, <1>4, CallMoves DEF EnqueueInstall
    <2>2. [cycle |-> Cycle(t), block |-> b] \in Entries
      BY IndexType DEF Entries
    <2>3. entry' \in [Queues -> [Blocks -> Entries]]
      <3>1. entry \in [Queues -> [Blocks -> Entries]] /\ Index(t) \in Blocks
        BY <1>1, IndexType DEF TypeOK
      <3>2. [entry[q] EXCEPT ![Index(t)] = [cycle |-> Cycle(t), block |-> b]]
              \in [Blocks -> Entries]
        BY <2>2, <3>1
      <3> QED BY <1>17, <3>1, <3>2 DEF EnqueueInstall
    <2> QED BY <1>1, <1>17, <2>1, <2>3 DEF EnqueueInstall, TypeOK, control, flags, history
  <1>18. CASE EnqueueAdvance(e)
    BY <1>1, <1>15, <1>18, CallMoves
    DEF EnqueueAdvance, At, TypeOK, control, flags, history
  <1>19. CASE ReserveBlock(e)
    <2>1. call' \in [Procs -> Calls] /\ poisoned' \subseteq Endpoints
      BY <1>19, <1>5, <1>6, CallMoves DEF ReserveBlock
    <2>2. desc' \in [Blocks -> Descriptors] /\ token' \in [Endpoints -> Tokens]
      <3> DEFINE d == desc[b]
      <3>1. ASSUME d.stamp < EpochCeiling
            PROVE  /\ [d EXCEPT !.epoch = d.stamp + 1, !.stamp = d.stamp + 1,
                                !.phase = "RESERVED"] \in Descriptors
                   /\ [token[e] EXCEPT !.epoch = d.stamp + 1] \in Tokens
        <4>1. d.stamp + 1 \in 0 .. EpochCeiling
          BY <3>1 DEF Descriptors
        <4>2. \A n \in 0 .. EpochCeiling :
                /\ [d EXCEPT !.epoch = n, !.stamp = n, !.phase = "RESERVED"] \in Descriptors
                /\ [token[e] EXCEPT !.epoch = n] \in Tokens
          BY DEF Descriptors, Tokens, Phases
        <4> QED BY <4>1, <4>2
      <3>2. d.stamp \in 0 .. EpochCeiling
        BY DEF Descriptors
      <3>3. CASE UNCHANGED <<desc, token>>
        BY <3>3
      <3>4. CASE /\ d.stamp < EpochCeiling
                 /\ desc' = [desc EXCEPT ![b] = [@ EXCEPT !.epoch = d.stamp + 1,
                                             !.stamp = d.stamp + 1, !.phase = "RESERVED"]]
                 /\ token' = [token EXCEPT ![e].epoch = d.stamp + 1]
        BY <3>1, <3>4
      <3> QED BY <1>19, <3>2, <3>3, <3>4 DEF ReserveBlock
    <2> QED BY <1>1, <1>19, <2>1, <2>2 DEF ReserveBlock, TypeOK, control, queues, history
  <1>20. CASE CommitBlock(e)
    <2>1. call' \in [Procs -> Calls] /\ poisoned' \subseteq Endpoints
      BY <1>20, <1>4, <1>5, <1>6, CallMoves DEF CommitBlock
    <2>2. desc' \in [Blocks -> Descriptors]
      <3>1. [desc[b] EXCEPT !.meta = token[e].epoch, !.phase = "COMMITTED"] \in Descriptors
        BY DEF Descriptors, Phases
      <3> QED BY <1>20, <3>1 DEF CommitBlock
    <2> QED BY <1>1, <1>20, <2>1, <2>2 DEF CommitBlock, TypeOK, control, queues, history
  <1>21. CASE ReadMetadata(e)
    <2>1. call' \in [Procs -> Calls] /\ poisoned' \subseteq Endpoints
      BY <1>21, <1>5, <1>6, CallMoves DEF ReadMetadata
    <2>2. desc' \in [Blocks -> Descriptors] /\ token' \in [Endpoints -> Tokens]
      <3>1. /\ [desc[b] EXCEPT !.phase = "CONSUMED"] \in Descriptors
            /\ [token[e] EXCEPT !.epoch = desc[b].epoch] \in Tokens
        BY DEF Descriptors, Tokens, Phases
      <3> QED BY <1>21, <3>1 DEF ReadMetadata
    <2> QED BY <1>1, <1>21, <2>1, <2>2 DEF ReadMetadata, TypeOK, control, queues, history
  <1>22. CASE DrainFailure(e) \/ ReturnFailure(e)
    <2>1. call' \in [Procs -> Calls]
      BY <1>22, <1>4, CallMoves DEF DrainFailure, ReturnFailure
    <2> QED BY <1>1, <1>22, <2>1, MoveTypes DEF DrainFailure, ReturnFailure, flags
  <1>23. CASE ReturnBlock(e)
    <2>1. call' \in [Procs -> Calls] /\ poisoned' \subseteq Endpoints
      BY <1>23, <1>4, <1>5, <1>6, CallMoves DEF ReturnBlock
    <2>2. desc' \in [Blocks -> Descriptors]
      BY <1>23 DEF ReturnBlock, Descriptors, Phases
    <2> QED BY <1>1, <1>23, <2>1, <2>2 DEF ReturnBlock, TypeOK, control, queues, history
  <1>24. CASE RetireStep(e)
    BY <1>1, <1>24, RetireTypes
  <1> QED BY <1>10, <1>11, <1>12, <1>13, <1>14, <1>16, <1>17, <1>18, <1>19, <1>20, <1>21,
             <1>22, <1>23, <1>24 DEF Step

\* Every step keeps the types.
LEMMA TypeNext ==
  ASSUME IInv, [Next]_vars
  PROVE  TypeOK'
  <1>1. TypeOK /\ Endpoints \subseteq Procs /\ Authority \in Procs
    BY StateTypes DEF IInv
  <1>2. {"deq_head", "commit", "drain", "return_failure"} \subseteq Labels
        /\ Producers \cup Consumers = Endpoints /\ {"QF", "QR"} \subseteq Queues
    BY DEF Labels, Endpoints, Queues
  <1>3. ASSUME NEW e \in Endpoints, NEW l \in Labels, NEW k \in Queues, Enter(e, l, k),
               UNCHANGED <<control, queues, desc, token, flags, history>>
        PROVE  TypeOK'
    <2>1. call' \in [Procs -> Calls]
      BY <1>1, <1>3, CallMoves DEF TypeOK
    <2> QED BY <1>1, <1>3, <2>1, MoveTypes DEF TypeOK, flags
  <1>4. ASSUME NEW e \in Producers, WriteReserve(e) \/ WriteCommit(e) PROVE TypeOK'
    BY <1>2, <1>3, <1>4 DEF WriteReserve, WriteCommit
  <1>5. ASSUME NEW c \in Consumers, ReadBorrow(c) PROVE TypeOK'
    BY <1>2, <1>3, <1>5 DEF ReadBorrow
  <1>6. ASSUME NEW c \in Consumers, EnableDrain(c) PROVE TypeOK'
    BY <1>1, <1>2, <1>6 DEF EnableDrain, TypeOK, control, queues, history
  <1>7. ASSUME NEW e \in Endpoints, ReturnToken(e) PROVE TypeOK'
    BY <1>2, <1>3, <1>7 DEF ReturnToken
  <1>8. ASSUME NEW e \in Endpoints, AbandonRetained(e) PROVE TypeOK'
    BY <1>1, <1>8, StateTypes, CallTypes DEF AbandonRetained, TypeOK, control, queues
  <1>9. ASSUME NEW e \in Endpoints, Step(e) PROVE TypeOK'
    BY <1>9, StepTypes
  <1>10. ASSUME NEW p \in Retirers, NEW r \in Reasons, Retire(p, r) PROVE TypeOK'
    BY <1>1, <1>10, NcqAssumption, RetireTypes DEF Procs, Endpoints
  <1>11. CASE RetireStep(Authority)
    BY <1>1, <1>11, RetireTypes
  <1>12. CASE Quarantine
    BY <1>1, <1>12 DEF Quarantine, TypeOK, queues, flags, history
  <1>13. ASSUME NEW e \in Crashable, Crash(e) PROVE TypeOK'
    BY <1>1, <1>2, <1>13, NcqAssumption DEF Crash, TypeOK, control, queues, flags
  <1>14. CASE UNCHANGED vars
    BY <1>1, <1>14 DEF vars, TypeOK, control, queues, flags, history
  <1> QED BY <1>4, <1>5, <1>6, <1>7, <1>8, <1>9, <1>10, <1>11, <1>12, <1>13, <1>14 DEF Next
-----------------------------------------------------------------------------
(***************************************************************************)
(* Entries and the frontier.                                               *)
(***************************************************************************)

\* The next ticket to install is the tail or one past it.
LEMMA FrontierType ==
  ASSUME TypeOK, NEW q \in Queues
  PROVE  Frontier(q) \in Nat /\ tail[q] <= Frontier(q) /\ Frontier(q) <= tail[q] + 1
  BY StateTypes, CeilingType DEF Frontier

\* What comparing the cycle of an entry tells of the ticket it holds.
LEMMA EntryCycle ==
  ASSUME TypeOK, NEW q \in Queues, NEW t \in Nat
  PROVE  /\ TicketAt(q, Index(t)) \in Nat
         /\ Installed(t, entry[q][Index(t)]) <=> TicketAt(q, Index(t)) = t
         /\ Vacant(t, entry[q][Index(t)]) => TicketAt(q, Index(t)) = t - N /\ t >= N
  <1> DEFINE w == entry[q][Index(t)]
  <1>1. Index(t) \in Nat /\ Cycle(t) \in Nat /\ Cycle(t) + Index(t) = t
    BY IndexType, Capacity DEF Blocks
  <1>2. w.cycle \in Nat
    BY StateTypes, IndexType DEF Entries
  <1> HIDE DEF w
  <1>3. /\ w.cycle + Index(t) \in Nat
        /\ w.cycle = Cycle(t) <=> w.cycle + Index(t) = t
        /\ w.cycle = Cycle(t) - N => w.cycle + Index(t) = t - N
        /\ Cycle(t) >= N => t >= N
    BY <1>1, <1>2, Capacity
  <1> QED BY <1>3 DEF w, TicketAt, Installed, Vacant

\* An installed ticket is behind the frontier; a ticket whose entry is of the
\* previous cycle is at or past it.
LEMMA EntryFrontier ==
  ASSUME TypeOK, LastLap, NEW q \in Queues, NEW t \in Nat
  PROVE  /\ Installed(t, entry[q][Index(t)]) => t < Frontier(q)
         /\ Vacant(t, entry[q][Index(t)]) => t >= Frontier(q)
  <1>1. TicketAt(q, Index(t)) \in Frontier(q) - N .. Frontier(q) - 1
    BY IndexType DEF LastLap
  <1>2. Frontier(q) \in Nat
    BY FrontierType
  <1> QED BY <1>1, <1>2, EntryCycle, Capacity

\* Within the last lap every ticket is installed at its own index.
LEMMA LapInstalled ==
  ASSUME TypeOK, LastLap, NEW q \in Queues, NEW t \in Nat,
         Frontier(q) - N <= t, t < Frontier(q)
  PROVE  Installed(t, entry[q][Index(t)])
  <1> DEFINE u == TicketAt(q, Index(t))
  <1>1. u \in Frontier(q) - N .. Frontier(q) - 1 /\ Index(u) = Index(t)
    BY IndexType DEF LastLap
  <1>2. u \in Nat /\ (Installed(t, entry[q][Index(t)]) <=> u = t)
    BY EntryCycle
  <1>3. Frontier(q) \in Nat
    BY FrontierType
  <1> HIDE DEF u
  <1>4. u = t
    <2>1. t < u + N /\ u < t + N
      BY <1>1, <1>2, <1>3, Capacity
    <2> QED BY <1>1, <1>2, <2>1, SameIndex
  <1> QED BY <1>2, <1>4

\* Moving the tail along, by the installer or by a helper, leaves the queue.
LEMMA TailStep ==
  ASSUME TypeOK, LastLap, NEW e \in Endpoints, NEW q \in Queues,
         AdvanceTail(e), entry' = entry,
         call[e].ticket <= tail[call[e].queue],
         call[e].ticket < Frontier(call[e].queue)
  PROVE  Frontier(q)' = Frontier(q) /\ tail[q]' >= tail[q]
  <1> DEFINE k == call[e].queue
             t == call[e].ticket
  <1>1. e \in Procs /\ k \in Queues /\ t \in Nat /\ tail[q] \in Nat /\ tail \in [Queues -> Nat]
    BY StateTypes, CeilingType DEF TypeOK
  <1>2. CASE q = k /\ tail[q] = t
    <2>1. Frontier(q) = t + 1
      BY <1>1, <1>2, FrontierType
    <2>2. ~Installed(t + 1, entry[q][Index(t + 1)])
      BY <1>1, <2>1, EntryFrontier
    <2>3. tail'[q] = t + 1
      BY <1>1, <1>2 DEF AdvanceTail
    <2> QED BY <1>1, <1>2, <2>1, <2>2, <2>3 DEF Frontier, Installed
  <1>3. CASE ~(q = k /\ tail[q] = t)
    <2>1. tail'[q] = tail[q]
      BY <1>1, <1>3 DEF AdvanceTail
    <2> QED BY <1>1, <2>1 DEF Frontier, Installed
  <1> QED BY <1>2, <1>3

\* The CAS that takes a block out of a queue, and the one that puts one in.
Claims(e)   == DequeueClaim(e) /\ head[call[e].queue] = call[e].ticket
Installs(e) == /\ EnqueueInstall(e)
               /\ entry[call[e].queue][Index(call[e].ticket)] = call[e].seen

\* The entry CAS succeeds only at the frontier, which it moves by one ticket.
LEMMA InstallStep ==
  ASSUME TypeOK, LastLap, NEW e \in Endpoints, CallCoherent(e), Installs(e),
         NEW q, q = call[e].queue, NEW t, t = call[e].ticket
  PROVE  /\ q \in Queues /\ t \in Nat /\ t = Frontier(q)
         /\ entry' = [entry EXCEPT ![q][Index(t)] =
                        [cycle |-> Cycle(t), block |-> token[e].block]]
         /\ Frontier(q)' = t + 1
         /\ \A k \in Queues : k # q => Frontier(k)' = Frontier(k)
         /\ LastLap'
  <1>0. EnqueueInstall(e) /\ entry[q][Index(t)] = call[e].seen
    BY DEF Installs
  <1> DEFINE i == Index(t)
             w == [cycle |-> Cycle(t), block |-> token[e].block]
  <1>1. /\ e \in Procs /\ q \in Queues /\ t \in Nat /\ tail[q] \in Nat
        /\ \A k \in Queues : Frontier(k) \in Nat
        /\ entry \in [Queues -> [Blocks -> Entries]]
    BY StateTypes, CeilingType, FrontierType DEF TypeOK
  <1>2. t <= tail[q] /\ Vacant(t, entry[q][i])
    BY <1>0 DEF EnqueueInstall, At, CallCoherent
  <1>3. t = Frontier(q) /\ t = tail[q] /\ t >= N
    <2>1. tail[q] <= Frontier(q)
      BY <1>1, FrontierType
    <2>2. Frontier(q) <= t
      BY <1>1, <1>2, EntryFrontier
    <2>3. t >= N
      BY <1>1, <1>2, EntryCycle
    <2> HIDE DEF i, w
    <2> QED
      <3>1. Frontier(q) \in Nat /\ t \in Nat /\ tail[q] \in Nat /\ t <= tail[q]
        BY <1>1, <1>2
      <3> QED BY <2>1, <2>2, <2>3, <3>1
  <1>4. entry' = [entry EXCEPT ![q][i] = w] /\ tail' = tail /\ head' = head
    BY <1>0 DEF EnqueueInstall
  <1>5. i \in Blocks /\ Cycle(t) + i = t
    BY <1>1, IndexType
  <1>6. entry'[q][i] = w
    <2> HIDE DEF i, w
    <2>1. q \in DOMAIN entry /\ entry[q] \in [Blocks -> Entries]
      BY <1>1
    <2>2. entry'[q] = [entry[q] EXCEPT ![i] = w]
      BY <1>4, <2>1
    <2> QED BY <1>5, <2>1, <2>2
  <1>7. Frontier(q)' = t + 1
    <2>1. tail'[q] = t
      BY <1>3, <1>4
    <2>2. entry'[q][i].cycle = Cycle(t)
      BY <1>6
    <2> QED BY <2>1, <2>2 DEF Frontier, Installed
  <1>8. \A k \in Queues : k # q => entry'[k] = entry[k] /\ Frontier(k)' = Frontier(k)
    BY <1>1, <1>4 DEF Frontier
  <1>9. \A j \in Blocks : j # i => entry'[q][j] = entry[q][j]
    BY <1>1, <1>4
  <1>10. ASSUME NEW k \in Queues, NEW j \in Blocks
         PROVE  /\ TicketAt(k, j)' \in Frontier(k)' - N .. Frontier(k)' - 1
                /\ Index(TicketAt(k, j)') = j
    <2>1. CASE k # q
      BY <1>8, <2>1 DEF LastLap, TicketAt
    <2>2. CASE k = q /\ j = i
      <3>1. TicketAt(k, j)' = t
        BY <1>5, <1>6, <2>2 DEF TicketAt
      <3> QED BY <1>1, <1>7, <2>2, <3>1, Capacity
    <2>3. CASE k = q /\ j # i
      <3> DEFINE u == TicketAt(q, j)
      <3>1. TicketAt(k, j)' = u
        BY <1>9, <2>3 DEF TicketAt
      <3>2. u \in t - N .. t - 1 /\ Index(u) = j
        BY <1>1, <1>3, <2>3 DEF LastLap
      <3>3. Index(t - N) = i
        <4>1. t - N \in Nat /\ (t - N) + N = t
          BY <1>1, <1>3, Capacity
        <4> QED BY <4>1, NextLap
      <3> HIDE DEF u
      <3>4. u # t - N
        BY <2>3, <3>2, <3>3
      <3> QED BY <1>1, <1>7, <2>3, <3>1, <3>2, <3>4, Capacity
    <2> QED BY <2>1, <2>2, <2>3
  <1>11. LastLap'
    BY <1>10 DEF LastLap, Index
  <1> QED BY <1>1, <1>3, <1>4, <1>7, <1>8, <1>11

\* A queue that lacks a block is not full: its slots hold different blocks.
LEMMA NotFull ==
  ASSUME TypeOK, Window, NEW q \in Queues, NEW b \in Blocks, b \notin Contents(q),
         \A t, u \in Tickets(q) : Slot(q, t) = Slot(q, u) => t = u
  PROVE  Frontier(q) < head[q] + N
  <1> DEFINE f == [t \in Tickets(q) |-> Slot(q, t)]
  <1>1. head[q] \in Nat /\ Frontier(q) \in Nat
    BY StateTypes, CeilingType, FrontierType
  <1>2. SUFFICES ASSUME Frontier(q) = head[q] + N PROVE FALSE
    BY <1>1, Capacity DEF Window
  <1>3. IsFiniteSet(Tickets(q)) /\ Cardinality(Tickets(q)) = N
    <2>1. Tickets(q) = head[q] .. head[q] + N - 1
      BY <1>1, <1>2, Capacity DEF Tickets
    <2>2. head[q] \in Int /\ head[q] + N - 1 \in Int /\ head[q] <= head[q] + N - 1
      BY <1>1, Capacity
    <2>3. (head[q] + N - 1) - head[q] + 1 = N
      BY <1>1, Capacity
    <2> QED BY <2>1, <2>2, <2>3, FS_Interval
  <1>4. IsFiniteSet(Blocks \ {b}) /\ Cardinality(Blocks \ {b}) = N - 1
    <2>1. IsFiniteSet(Blocks) /\ Cardinality(Blocks) = N
      <3>1. 0 \in Int /\ N - 1 \in Int /\ 0 <= N - 1 /\ (N - 1) - 0 + 1 = N
        BY Capacity
      <3> QED BY <3>1, FS_Interval DEF Blocks
    <2> QED BY <2>1, FS_RemoveElement
  <1>5. f \in [Tickets(q) -> Blocks \ {b}]
    <2>1. ASSUME NEW t \in Tickets(q) PROVE Slot(q, t) \in Blocks /\ Slot(q, t) # b
      <3>1. t \in Nat
        BY <1>1 DEF Tickets
      <3>2. Slot(q, t) \in Blocks
        BY <3>1, StateTypes, IndexType DEF Slot, Entries
      <3> QED BY <3>2 DEF Contents
    <2> QED BY <2>1
  <1>6. \E t, u \in Tickets(q) : t # u /\ f[t] = f[u]
    <2> HIDE DEF f
    <2>1. Cardinality(Blocks \ {b}) < Cardinality(Tickets(q))
      BY <1>3, <1>4, Capacity
    <2> QED BY <1>3, <1>4, <1>5, <2>1, FS_PigeonHole
  <1> QED BY <1>6

\* The blocks a queue holds are blocks, and finitely many.
LEMMA ContentsType ==
  ASSUME TypeOK, NEW q \in Queues
  PROVE  /\ Tickets(q) \subseteq Nat
         /\ \A t \in Nat : Slot(q, t) \in Blocks
         /\ Contents(q) \subseteq Blocks
  <1>1. Tickets(q) \subseteq Nat
    BY StateTypes, CeilingType, FrontierType DEF Tickets
  <1>2. \A t \in Nat : Slot(q, t) \in Blocks
    BY StateTypes, IndexType DEF Slot, Entries
  <1> QED BY <1>1, <1>2 DEF Contents

\* An endpoint about to install a block has room for it in the queue.
LEMMA RoomToInstall ==
  ASSUME IInv, NEW e \in Endpoints, Holding(e), NEW q \in Queues
  PROVE  Frontier(q) < head[q] + N /\ token[e].block \notin Contents(q)
  <1>1. token[e].block \in Blocks /\ token[e].block \in Held
    BY StateTypes DEF Held, IInv
  <1>2. token[e].block \notin Contents(q)
    BY <1>1 DEF IInv, Partition, Queues
  <1> QED BY <1>1, <1>2, NotFull DEF IInv, Partition
-----------------------------------------------------------------------------
(***************************************************************************)
(* What a step does to the queues, the tokens and the calls.               *)
(***************************************************************************)

\* Every other step keeps the queues and, unless it abandons a block, the tokens.
KeepQueues ==
  /\ entry' = entry /\ head' = head
  /\ \A q \in Queues : Frontier(q)' = Frontier(q) /\ tail[q] <= tail'[q]
KeepTokens ==
  /\ \A e \in Endpoints : /\ Holding(e)' <=> Holding(e)
                          /\ Holding(e) => token'[e].block = token[e].block
  /\ retained' = retained

\* The calls and the tokens of the other processes stay.
Frame(p) == \A x \in Endpoints \ {p} : call'[x] = call[x] /\ token'[x] = token[x]

Effect(p) ==
  /\ Frame(p)
  /\ \/ KeepQueues /\ (KeepTokens \/ (p \in Endpoints /\ AbandonRetained(p)))
     \/ p \in Endpoints /\ (Claims(p) \/ Installs(p))
  /\ p \in Endpoints => CallCoherent(p)'

\* A step that leaves the cursors and entries alone leaves the contents alone.
LEMMA QuietQueues ==
  ASSUME TypeOK, UNCHANGED queues
  PROVE  KeepQueues
  <1>1. head' = head /\ tail' = tail /\ entry' = entry
    BY DEF queues
  <1>2. \A q \in Queues : tail[q] <= tail[q]
    BY StateTypes, CeilingType
  <1> QED BY <1>1, <1>2 DEF KeepQueues, Frontier

\* Changing the label of a call keeps its other fields.
LEMMA CallFields ==
  ASSUME TypeOK, NEW p \in Procs
  PROVE  /\ \A l : LET c == [call[p] EXCEPT !.pc = l] IN
               /\ c.pc = l /\ c.queue = call[p].queue
               /\ c.ticket = call[p].ticket /\ c.seen = call[p].seen
         /\ \A l, t : LET c == [call[p] EXCEPT !.pc = l, !.ticket = t] IN
               c.pc = l /\ c.queue = call[p].queue /\ c.ticket = t
         /\ \A l, w : LET c == [call[p] EXCEPT !.pc = l, !.seen = w] IN
               /\ c.pc = l /\ c.queue = call[p].queue
               /\ c.ticket = call[p].ticket /\ c.seen = w
  <1>1. call[p] \in Calls
    BY DEF TypeOK
  <1> QED BY <1>1 DEF Calls

\* The call of a process after each of its moves; the other calls stay.
LEMMA Moved ==
  ASSUME TypeOK, NEW p \in Procs
  PROVE  /\ \A l : Goto(p, l) =>
               /\ call'[p].pc = l /\ call'[p].queue = call[p].queue
               /\ call'[p].ticket = call[p].ticket
               /\ \A x \in Procs \ {p} : call'[x] = call[x]
         /\ \A l, q : Enter(p, l, q) =>
               call'[p].pc = l /\ \A x \in Procs \ {p} : call'[x] = call[x]
         /\ Finish(p) =>
               call'[p].pc = "idle" /\ \A x \in Procs \ {p} : call'[x] = call[x]
         /\ \A r : StartRetire(p, r) =>
               call'[p].pc = "retire" /\ \A x \in Procs \ {p} : call'[x] = call[x]
  <1>1. \A c : call' = [call EXCEPT ![p] = c] =>
          call'[p] = c /\ \A x \in Procs \ {p} : call'[x] = call[x]
    BY DEF TypeOK
  <1>2. ASSUME NEW l, Goto(p, l)
        PROVE  /\ call'[p].pc = l /\ call'[p].queue = call[p].queue
               /\ call'[p].ticket = call[p].ticket
               /\ \A x \in Procs \ {p} : call'[x] = call[x]
    <2>1. call[p] \in Calls
      BY DEF TypeOK
    <2>2. call'[p] = [call[p] EXCEPT !.pc = l]
      BY <1>1, <1>2 DEF Goto
    <2> QED BY <1>1, <1>2, <2>1, <2>2 DEF Goto, Calls
  <1>3. ASSUME NEW l, NEW q, Enter(p, l, q)
        PROVE  call'[p].pc = l /\ \A x \in Procs \ {p} : call'[x] = call[x]
    BY <1>1, <1>3 DEF Enter, NoCall
  <1>4. ASSUME Finish(p)
        PROVE  call'[p].pc = "idle" /\ \A x \in Procs \ {p} : call'[x] = call[x]
    BY <1>1, <1>4 DEF Finish, NoCall
  <1>5. ASSUME NEW r, StartRetire(p, r)
        PROVE  call'[p].pc = "retire" /\ \A x \in Procs \ {p} : call'[x] = call[x]
    BY <1>1, <1>5 DEF StartRetire, NoCall
  <1> QED BY <1>2, <1>3, <1>4, <1>5

\* A step that leaves the queues and whose process keeps its token.
LEMMA QuietStep ==
  ASSUME TypeOK, NEW p \in Procs, UNCHANGED <<queues, retained>>,
         \A x \in Procs \ {p} : call'[x] = call[x],
         \A x \in Endpoints \ {p} : token'[x] = token[x],
         p \in Endpoints => /\ token'[p].owned = token[p].owned
                            /\ token'[p].block = token[p].block
                            /\ call[p].pc # "enq_advance" /\ call'[p].pc # "enq_advance"
  PROVE  Frame(p) /\ KeepQueues /\ KeepTokens
  <1>1. Frame(p) /\ KeepQueues
    BY QuietQueues, StateTypes DEF Frame
  <1>2. ASSUME NEW e \in Endpoints
        PROVE  (Holding(e)' <=> Holding(e)) /\ token'[e].block = token[e].block
    BY StateTypes DEF Holding
  <1> QED BY <1>1, <1>2 DEF KeepTokens

\* Between calls, and while it retires, a call claims nothing.
LEMMA AtRest ==
  ASSUME NEW e \in Endpoints, call'[e].pc \in {"idle", "retire", "retire_gate", "retire_cas"}
  PROVE  CallCoherent(e)'
  BY DEF CallCoherent

\* el_fail moves no cursor, no entry and no token.
LEMMA FailEffect ==
  ASSUME TypeOK, NEW e \in Endpoints, call[e].pc # "enq_advance", NEW r, Fail(e, r),
         UNCHANGED <<queues, retained>>,
         \A x \in Endpoints \ {e} : token'[x] = token[x],
         token'[e].owned = token[e].owned, token'[e].block = token[e].block
  PROVE  Effect(e)
  <1>1. call'[e].pc = "retire" /\ \A x \in Procs \ {e} : call'[x] = call[x]
    BY Moved, CallFields, StateTypes DEF Fail
  <1>2. Frame(e) /\ KeepQueues /\ KeepTokens
    BY <1>1, QuietStep, StateTypes
  <1>3. CallCoherent(e)'
    BY <1>1, AtRest
  <1> QED BY <1>2, <1>3 DEF Effect

\* What a step of a dequeue does to the queues and to the calls.
LEMMA DequeueEffect ==
  ASSUME IInv, NEW e \in Endpoints,
         DequeueHead(e) \/ DequeueEntry(e) \/ DequeueClaim(e)
  PROVE  Effect(e)
  <1> DEFINE q == call[e].queue
             t == call[e].ticket
             w == entry[q][Index(t)]
  <1>1. TypeOK /\ LastLap /\ Window /\ CallCoherent(e)
    BY DEF IInv
  <1>2. /\ e \in Procs /\ q \in Queues /\ t \in Nat /\ head[q] \in Nat
        /\ TicketCeiling \in Nat /\ head \in [Queues -> 0 .. TicketCeiling]
        /\ token \in [Endpoints -> Tokens] /\ call \in [Procs -> Calls]
        /\ Endpoints \subseteq Procs
    BY <1>1, StateTypes, CeilingType DEF TypeOK
  <1>3. CASE DequeueHead(e)
    <2>1. CASE Fail(e, "PROTOCOL")
      BY <1>1, <1>3, <2>1, FailEffect DEF DequeueHead, At, history
    <2>2. CASE call' = [call EXCEPT ![e] = [@ EXCEPT !.pc = "deq_entry", !.ticket = head[q]]]
      <3>1. /\ call'[e] = [call[e] EXCEPT !.pc = "deq_entry", !.ticket = head[q]]
            /\ \A x \in Procs \ {e} : call'[x] = call[x]
        BY <1>2, <2>2
      <3>2. /\ call'[e].pc = "deq_entry" /\ call'[e].queue = q /\ call'[e].ticket = head[q]
        BY <1>1, <1>2, <3>1, CallFields
      <3>3. Frame(e) /\ KeepQueues /\ KeepTokens
        BY <1>1, <1>2, <1>3, <3>1, <3>2, QuietStep DEF DequeueHead, At, history
      <3>4. CallCoherent(e)'
        BY <1>1, <1>2, <1>3, <3>2 DEF DequeueHead, At, CallCoherent, queues
      <3> QED BY <3>3, <3>4 DEF Effect
    <2> QED BY <1>3, <2>1, <2>2 DEF DequeueHead
  <1>4. CASE DequeueEntry(e)
    <2>1. CASE Fail(e, "COUNTER")
      BY <1>1, <1>4, <2>1, FailEffect DEF DequeueEntry, At, history
    <2>2. CASE Finish(e)
      <3>1. call'[e].pc = "idle" /\ \A x \in Procs \ {e} : call'[x] = call[x]
        BY <1>1, <1>2, <2>2, Moved, CallFields
      <3>2. Frame(e) /\ KeepQueues /\ KeepTokens
        BY <1>1, <1>2, <1>4, <3>1, QuietStep DEF DequeueEntry, At, history
      <3> QED BY <3>1, <3>2, AtRest DEF Effect
    <2>3. CASE Goto(e, "deq_head")
      <3>1. call'[e].pc = "deq_head" /\ \A x \in Procs \ {e} : call'[x] = call[x]
        BY <1>1, <1>2, <2>3, Moved, CallFields
      <3>2. Frame(e) /\ KeepQueues /\ KeepTokens
        BY <1>1, <1>2, <1>4, <3>1, QuietStep DEF DequeueEntry, At, history
      <3>3. CallCoherent(e)'
        BY <1>1, <1>4, <3>1 DEF DequeueEntry, At, CallCoherent
      <3> QED BY <3>2, <3>3 DEF Effect
    <2>4. CASE /\ Installed(t, w) /\ t < TicketCeiling
               /\ call' = [call EXCEPT ![e] = [@ EXCEPT !.pc = "deq_cas", !.seen = w]]
      <3>1. /\ call'[e] = [call[e] EXCEPT !.pc = "deq_cas", !.seen = w]
            /\ \A x \in Procs \ {e} : call'[x] = call[x]
        BY <1>2, <2>4
      <3>2. /\ call'[e].pc = "deq_cas" /\ call'[e].queue = q /\ call'[e].ticket = t
            /\ call'[e].seen = w
        BY <1>1, <1>2, <3>1, CallFields
      <3>3. Frame(e) /\ KeepQueues /\ KeepTokens
        BY <1>1, <1>2, <1>4, <3>1, <3>2, QuietStep DEF DequeueEntry, At, history
      <3>4. t < Frontier(q)
        BY <1>1, <1>2, <2>4, EntryFrontier
      <3>5. CallCoherent(e)'
        BY <1>1, <1>2, <1>4, <2>4, <3>2, <3>3, <3>4
        DEF DequeueEntry, At, CallCoherent, KeepQueues, queues
      <3> QED BY <3>3, <3>5 DEF Effect
    <2> QED BY <1>2, <1>4, <2>1, <2>2, <2>3, <2>4 DEF DequeueEntry
  <1>5. CASE DequeueClaim(e)
    <2>1. CASE head[q] = t
      <3>1. call'[e].pc = "claimed" /\ \A x \in Procs \ {e} : call'[x] = call[x]
        BY <1>1, <1>2, <1>5, <2>1, Moved, CallFields DEF DequeueClaim
      <3>2. token'[e].owned # "none" /\ \A x \in Endpoints \ {e} : token'[x] = token[x]
        BY <1>2, <1>5, <2>1 DEF DequeueClaim
      <3>3. CallCoherent(e)'
        BY <3>1, <3>2 DEF CallCoherent
      <3> QED BY <1>2, <1>5, <2>1, <3>1, <3>2, <3>3 DEF Effect, Frame, Claims
    <2>2. CASE head[q] # t
      <3>1. call'[e].pc = "deq_head" /\ \A x \in Procs \ {e} : call'[x] = call[x]
        BY <1>1, <1>2, <1>5, <2>2, Moved, CallFields DEF DequeueClaim
      <3>2. Frame(e) /\ KeepQueues /\ KeepTokens
        BY <1>1, <1>2, <1>5, <2>2, <3>1, QuietStep DEF DequeueClaim, At, history, queues
      <3>3. CallCoherent(e)'
        BY <1>1, <1>5, <2>2, <3>1 DEF DequeueClaim, At, CallCoherent
      <3> QED BY <3>2, <3>3 DEF Effect
    <2> QED BY <2>1, <2>2
  <1> QED BY <1>3, <1>4, <1>5

\* What a step of an enqueue does to the queues and to the calls.
LEMMA EnqueueEffect ==
  ASSUME IInv, NEW e \in Endpoints,
         \/ EnqueueTail(e) \/ EnqueueEntry(e) \/ EnqueueHelp(e)
         \/ EnqueueInstall(e) \/ EnqueueAdvance(e)
  PROVE  Effect(e)
  <1> DEFINE q == call[e].queue
             t == call[e].ticket
             w == entry[q][Index(t)]
  <1>1. TypeOK /\ LastLap /\ CallCoherent(e)
    BY DEF IInv
  <1>2. /\ e \in Procs /\ q \in Queues /\ t \in Nat /\ tail[q] \in Nat
        /\ TicketCeiling \in Nat
        /\ token \in [Endpoints -> Tokens] /\ call \in [Procs -> Calls]
        /\ Endpoints \subseteq Procs
    BY <1>1, StateTypes, CeilingType DEF TypeOK
  <1>3. CASE EnqueueTail(e)
    <2>1. CASE Fail(e, "COUNTER")
      BY <1>1, <1>3, <2>1, FailEffect DEF EnqueueTail, At, history
    <2>2. CASE /\ tail[q] < TicketCeiling
               /\ call' = [call EXCEPT ![e] = [@ EXCEPT !.pc = "enq_entry", !.ticket = tail[q]]]
      <3>1. /\ call'[e] = [call[e] EXCEPT !.pc = "enq_entry", !.ticket = tail[q]]
            /\ \A x \in Procs \ {e} : call'[x] = call[x]
        BY <1>2, <2>2
      <3>2. /\ call'[e].pc = "enq_entry" /\ call'[e].queue = q /\ call'[e].ticket = tail[q]
        BY <1>1, <1>2, <3>1, CallFields
      <3>3. Frame(e) /\ KeepQueues /\ KeepTokens
        BY <1>1, <1>2, <1>3, <3>1, <3>2, QuietStep DEF EnqueueTail, At, history
      <3>4. CallCoherent(e)'
        BY <1>1, <1>2, <1>3, <2>2, <3>2 DEF EnqueueTail, At, CallCoherent, queues
      <3> QED BY <3>3, <3>4 DEF Effect
    <2> QED BY <1>2, <1>3, <2>1, <2>2 DEF EnqueueTail
  <1>4. CASE EnqueueEntry(e)
    <2> DEFINE Now(l) == call' = [call EXCEPT ![e] = [@ EXCEPT !.pc = l, !.seen = w]]
    <2>1. ASSUME NEW l, Now(l), l # "enq_advance"
          PROVE  /\ call'[e].pc = l /\ call'[e].queue = q /\ call'[e].ticket = t
                 /\ call'[e].seen = w
                 /\ Frame(e) /\ KeepQueues /\ KeepTokens
      <3>1. /\ call'[e] = [call[e] EXCEPT !.pc = l, !.seen = w]
            /\ \A x \in Procs \ {e} : call'[x] = call[x]
        BY <1>2, <2>1
      <3>2. /\ call'[e].pc = l /\ call'[e].queue = q /\ call'[e].ticket = t
            /\ call'[e].seen = w
        BY <1>1, <1>2, <3>1, CallFields
      <3> QED BY <1>1, <1>2, <1>4, <2>1, <3>1, <3>2, QuietStep
              DEF EnqueueEntry, At, history, flags
    <2>5. token' = token /\ token[e].owned # "none" /\ t <= tail[q] /\ t < TicketCeiling
      BY <1>1, <1>2, <1>4 DEF EnqueueEntry, At, CallCoherent
    <2>6. tail' = tail
      BY <1>4 DEF EnqueueEntry, queues
    <2> HIDE DEF Now
    <2>2. CASE Installed(t, w) /\ Now("enq_help")
      <3>1. t < Frontier(q)
        BY <1>1, <1>2, <2>2, EntryFrontier
      <3>2. CallCoherent(e)'
        <4>1. PICK k, u : k = q /\ u = t
          OBVIOUS
        <4>2. /\ call'[e].pc = "enq_help" /\ call'[e].queue = k /\ call'[e].ticket = u
              /\ KeepQueues
          BY <2>1, <2>2, <4>1
        <4>3. tail'[k] \in Int /\ u <= tail'[k] /\ u < Frontier(k)'
          BY <1>2, <2>5, <3>1, <4>1, <4>2, <2>6 DEF KeepQueues
        <4> QED BY <2>5, <4>1, <4>2, <4>3 DEF CallCoherent
      <3> QED BY <2>1, <2>2, <3>2 DEF Effect
    <2>3. CASE Vacant(t, w) /\ Now("enq_install")
      <3>1. CallCoherent(e)'
        <4>1. PICK k, u : k = q /\ u = t
          OBVIOUS
        <4>2. /\ call'[e].pc = "enq_install" /\ call'[e].queue = k /\ call'[e].ticket = u
              /\ call'[e].seen = w
          BY <2>1, <2>3, <4>1
        <4>3. u <= tail'[k] /\ Vacant(u, w)
          BY <2>3, <2>5, <2>6, <4>1
        <4> QED BY <2>5, <4>1, <4>2, <4>3 DEF CallCoherent, Vacant
      <3> QED BY <2>1, <2>3, <3>1 DEF Effect
    <2>4. CASE Now("enq_tail")
      <3>1. CallCoherent(e)'
        <4>1. call'[e].pc = "enq_tail"
          BY <2>1, <2>4
        <4> QED BY <2>5, <4>1 DEF CallCoherent
      <3> QED BY <2>1, <2>4, <3>1 DEF Effect
    <2> QED BY <1>4, <2>2, <2>3, <2>4 DEF EnqueueEntry, Now
  <1>5. ASSUME AdvanceTail(e), UNCHANGED <<head, entry>>,
               call[e].pc \in {"enq_help", "enq_advance"}
        PROVE  KeepQueues
    <2>1. t <= tail[q] /\ t < Frontier(q)
      BY <1>1, <1>5 DEF CallCoherent
    <2> QED BY <1>1, <1>2, <1>5, <2>1, TailStep DEF KeepQueues
  <1>6. CASE EnqueueHelp(e)
    <2>1. call'[e].pc = "enq_tail" /\ \A x \in Procs \ {e} : call'[x] = call[x]
      BY <1>1, <1>2, <1>6, Moved DEF EnqueueHelp
    <2>2. token' = token /\ retained' = retained
      BY <1>6 DEF EnqueueHelp, history
    <2>3. Frame(e) /\ KeepTokens
      BY <1>2, <1>6, <2>1, <2>2 DEF EnqueueHelp, At, Frame, KeepTokens, Holding
    <2>4. KeepQueues
      BY <1>5, <1>6 DEF EnqueueHelp, At
    <2>5. CallCoherent(e)'
      BY <1>1, <1>6, <2>1, <2>2 DEF EnqueueHelp, At, CallCoherent
    <2> QED BY <2>3, <2>4, <2>5 DEF Effect
  <1>7. CASE EnqueueInstall(e)
    <2>1. CASE w = call[e].seen
      <3>1. /\ call'[e].pc = "enq_advance" /\ call'[e].queue = q /\ call'[e].ticket = t
            /\ \A x \in Procs \ {e} : call'[x] = call[x]
        BY <1>1, <1>2, <1>7, <2>1, Moved DEF EnqueueInstall
      <3>2. token' = token /\ tail' = tail
        BY <1>7 DEF EnqueueInstall
      <3>3. PICK k, u : k = q /\ u = t
        OBVIOUS
      <3>4. Frontier(k)' = u + 1
        BY <1>1, <1>7, <2>1, <3>3, InstallStep DEF Installs
      <3>5. CallCoherent(e)'
        <4>1. /\ u \in Nat /\ u <= tail[k] /\ u < TicketCeiling /\ token[e].owned # "none"
          BY <1>1, <1>2, <1>7, <3>3 DEF EnqueueInstall, At, CallCoherent
        <4>2. call'[e].pc = "enq_advance" /\ call'[e].queue = k /\ call'[e].ticket = u
          BY <3>1, <3>3
        <4> QED BY <3>2, <3>4, <4>1, <4>2 DEF CallCoherent
      <3> QED BY <1>2, <1>7, <2>1, <3>1, <3>2, <3>5 DEF Effect, Frame, Installs
    <2>2. CASE w # call[e].seen
      <3>1. call'[e].pc = "enq_tail" /\ \A x \in Procs \ {e} : call'[x] = call[x]
        BY <1>1, <1>2, <1>7, <2>2, Moved DEF EnqueueInstall
      <3>2. Frame(e) /\ KeepQueues /\ KeepTokens
        BY <1>1, <1>2, <1>7, <2>2, <3>1, QuietStep DEF EnqueueInstall, At, history, queues
      <3>3. CallCoherent(e)'
        BY <1>1, <1>7, <3>1 DEF EnqueueInstall, At, CallCoherent
      <3> QED BY <3>2, <3>3 DEF Effect
    <2> QED BY <2>1, <2>2
  <1>8. CASE EnqueueAdvance(e)
    <2>1. call'[e].pc = "idle" /\ \A x \in Procs \ {e} : call'[x] = call[x]
      BY <1>1, <1>2, <1>8, Moved DEF EnqueueAdvance
    <2>2. /\ token'[e].owned = "none" /\ retained' = retained
          /\ \A x \in Endpoints \ {e} : token'[x] = token[x]
      BY <1>2, <1>8 DEF EnqueueAdvance, history, NoToken
    <2>3. ~Holding(e) /\ ~Holding(e)'
      BY <1>8, <2>2 DEF EnqueueAdvance, At, Holding
    <2>4. Frame(e) /\ KeepTokens
      BY <1>2, <2>1, <2>2, <2>3 DEF Frame, KeepTokens, Holding
    <2>5. KeepQueues
      BY <1>5, <1>8 DEF EnqueueAdvance, At
    <2> QED BY <2>1, <2>4, <2>5, AtRest DEF Effect
  <1> QED BY <1>3, <1>4, <1>6, <1>7, <1>8

\* A call that moves to a label at which it still needs, or has not yet, a token.
LEMMA MoveEffect ==
  ASSUME TypeOK, NEW e \in Endpoints, call[e].pc # "enq_advance",
         UNCHANGED <<queues, retained>>,
         \A x \in Procs \ {e} : call'[x] = call[x],
         \A x \in Endpoints \ {e} : token'[x] = token[x],
         token'[e].owned = token[e].owned, token'[e].block = token[e].block,
         \/ call'[e].pc \in {"idle", "retire", "retire_gate", "retire_cas"}
         \/ call'[e].pc \in {"drain", "deq_head"} /\ token[e].owned = "none"
         \/ /\ call'[e].pc \in {"commit", "return_failure", "return", "enq_tail"}
            /\ token[e].owned # "none"
  PROVE  Effect(e)
  <1>1. Frame(e) /\ KeepQueues /\ KeepTokens
    BY QuietStep, StateTypes
  <1>2. CallCoherent(e)'
    BY DEF CallCoherent
  <1> QED BY <1>1, <1>2 DEF Effect

\* A step of a queue operation has one of the effects.
LEMMA StepEffect ==
  ASSUME IInv, NEW e \in Endpoints, Step(e)
  PROVE  Effect(e)
  <1>1. TypeOK /\ CallCoherent(e)
    BY DEF IInv
  <1>2. e \in Procs /\ token \in [Endpoints -> Tokens]
    BY <1>1, StateTypes DEF TypeOK
  <1>3. CASE ReserveBlock(e)
    <2>1. /\ call[e].pc = "claimed" /\ UNCHANGED <<queues, retained>>
          /\ \A x \in Endpoints \ {e} : token'[x] = token[x]
          /\ token'[e].owned = token[e].owned /\ token'[e].block = token[e].block
      BY <1>2, <1>3 DEF ReserveBlock, At, history, Tokens
    <2>2. CASE \E r : Fail(e, r)
      BY <1>1, <2>1, <2>2, FailEffect
    <2>3. CASE Finish(e)
      <3>1. call'[e].pc = "idle" /\ \A x \in Procs \ {e} : call'[x] = call[x]
        BY <1>1, <1>2, <2>3, Moved
      <3> QED BY <1>1, <2>1, <3>1, MoveEffect
    <2> QED BY <1>3, <2>2, <2>3 DEF ReserveBlock
  <1>4. CASE ReadMetadata(e)
    <2>1. /\ call[e].pc = "claimed" /\ UNCHANGED <<queues, retained>>
          /\ \A x \in Endpoints \ {e} : token'[x] = token[x]
          /\ token'[e].owned = token[e].owned /\ token'[e].block = token[e].block
      BY <1>2, <1>4 DEF ReadMetadata, At, history, Tokens
    <2>2. CASE \E r : Fail(e, r)
      BY <1>1, <2>1, <2>2, FailEffect
    <2>3. CASE Finish(e)
      <3>1. call'[e].pc = "idle" /\ \A x \in Procs \ {e} : call'[x] = call[x]
        BY <1>1, <1>2, <2>3, Moved
      <3> QED BY <1>1, <2>1, <3>1, MoveEffect
    <2> QED BY <1>4, <2>2, <2>3 DEF ReadMetadata
  <1>5. CASE CommitBlock(e) \/ ReturnBlock(e)
    <2>1. /\ call[e].pc \in {"commit", "return"} /\ UNCHANGED <<queues, retained, token>>
          /\ token[e].owned # "none"
      BY <1>1, <1>5 DEF CommitBlock, ReturnBlock, At, CallCoherent, history
    <2>2. CASE \E r : Fail(e, r)
      BY <1>1, <2>1, <2>2, FailEffect
    <2>3. CASE Goto(e, "enq_tail")
      <3>1. call'[e].pc = "enq_tail" /\ \A x \in Procs \ {e} : call'[x] = call[x]
        BY <1>1, <1>2, <2>3, Moved
      <3> QED BY <1>1, <2>1, <3>1, MoveEffect
    <2> QED BY <1>5, <2>2, <2>3 DEF CommitBlock, ReturnBlock
  <1>6. CASE DrainFailure(e)
    <2>1. /\ call[e].pc = "drain" /\ UNCHANGED <<queues, retained, token>>
          /\ token[e].owned = "none"
      BY <1>1, <1>6 DEF DrainFailure, At, CallCoherent, history
    <2>2. /\ call'[e].pc \in {"idle", "deq_head"}
          /\ \A x \in Procs \ {e} : call'[x] = call[x]
      BY <1>1, <1>2, <1>6, Moved DEF DrainFailure
    <2> QED BY <1>1, <2>1, <2>2, MoveEffect
  <1>7. CASE ReturnFailure(e)
    <2>1. /\ call[e].pc = "return_failure" /\ UNCHANGED <<queues, retained, token>>
          /\ token[e].owned # "none"
      BY <1>1, <1>7 DEF ReturnFailure, At, CallCoherent, history
    <2>2. /\ call'[e].pc \in {"idle", "return"}
          /\ \A x \in Procs \ {e} : call'[x] = call[x]
      BY <1>1, <1>2, <1>7, Moved DEF ReturnFailure
    <2> QED BY <1>1, <2>1, <2>2, MoveEffect
  <1>8. CASE RetireStep(e)
    <2>1. /\ call[e].pc \in {"retire", "retire_gate", "retire_cas"} /\ UNCHANGED <<queues, retained, token>>
      BY <1>8 DEF RetireStep, RetireFailure, RetireLoad, RetireGate, At, history
    <2>2. /\ call'[e].pc \in {"idle", "retire_gate", "retire_cas"}
          /\ \A x \in Procs \ {e} : call'[x] = call[x]
      BY <1>1, <1>2, <1>8, Moved DEF RetireStep, RetireFailure, RetireLoad, RetireGate
    <2> QED BY <1>1, <2>1, <2>2, MoveEffect
  <1> QED BY <1>3, <1>4, <1>5, <1>6, <1>7, <1>8, DequeueEffect, EnqueueEffect DEF Step

\* The Authority's own calls, Quarantine, a crash and stuttering.
LEMMA AwayEffect ==
  ASSUME IInv,
         \/ \E p \in Retirers, r \in Reasons : Retire(p, r)
         \/ RetireStep(Authority) \/ Quarantine
         \/ \E e \in Crashable : Crash(e)
         \/ UNCHANGED vars
  PROVE  \E p \in Procs : Effect(p)
  <1>1. TypeOK /\ Authority \in Procs /\ Authority \notin Endpoints /\ Endpoints \subseteq Procs
    BY NcqAssumption, StateTypes DEF IInv, Endpoints
  <1>2. ASSUME UNCHANGED <<queues, retained, call, token>>
        PROVE  Effect(Authority)
    <2>1. Frame(Authority) /\ KeepQueues /\ KeepTokens
      BY <1>1, <1>2, QuietQueues DEF Frame, KeepTokens, Holding
    <2> QED BY <1>1, <2>1 DEF Effect
  <1>3. ASSUME NEW p \in Retirers, NEW r \in Reasons, Retire(p, r)
        PROVE  p \in Procs /\ Effect(p)
    <2>1. p \in Procs
      BY NcqAssumption DEF Procs, Endpoints
    <2>2. /\ call[p].pc = "idle" /\ UNCHANGED <<queues, retained, token>>
          /\ call'[p].pc = "retire" /\ \A x \in Procs \ {p} : call'[x] = call[x]
      BY <1>1, <1>3, <2>1, Moved DEF Retire, At, history
    <2>3. Frame(p) /\ KeepQueues /\ KeepTokens
      BY <1>1, <2>1, <2>2, QuietStep
    <2>4. p \in Endpoints => CallCoherent(p)'
      BY <2>2, AtRest
    <2> QED BY <2>1, <2>3, <2>4 DEF Effect
  <1>4. CASE RetireStep(Authority)
    <2>1. /\ UNCHANGED <<queues, retained, token>>
          /\ \A x \in Procs \ {Authority} : call'[x] = call[x]
      BY <1>1, <1>4, Moved DEF RetireStep, RetireFailure, RetireLoad, RetireGate, history
    <2>2. Frame(Authority) /\ KeepQueues /\ KeepTokens
      BY <1>1, <2>1, QuietStep
    <2> QED BY <1>1, <2>2 DEF Effect
  <1>5. CASE Quarantine
    BY <1>1, <1>2, <1>5 DEF Quarantine, history
  <1>6. ASSUME NEW e \in Crashable, Crash(e) PROVE Effect(Authority)
    BY <1>2, <1>6 DEF Crash
  <1>7. CASE UNCHANGED vars
    BY <1>1, <1>2, <1>7 DEF vars, history
  <1> QED BY <1>1, <1>3, <1>4, <1>5, <1>6, <1>7

\* So has every step of the system.
LEMMA NextEffect ==
  ASSUME IInv, [Next]_vars
  PROVE  \E p \in Procs : Effect(p)
  <1>1. TypeOK /\ Endpoints \subseteq Procs /\ Producers \cup Consumers = Endpoints
    BY StateTypes DEF IInv, Endpoints
  <1>2. ASSUME NEW e \in Endpoints,
               \/ WriteReserve(e) \/ WriteCommit(e) \/ ReadBorrow(e) \/ ReturnToken(e)
        PROVE  Effect(e)
    <2>1. /\ call[e].pc = "idle" /\ UNCHANGED <<queues, retained, token>>
      BY <1>2 DEF WriteReserve, WriteCommit, ReadBorrow, ReturnToken, At, history
    <2>2. /\ \/ call'[e].pc \in {"drain", "deq_head"} /\ token[e].owned = "none"
             \/ call'[e].pc \in {"commit", "return_failure"} /\ token[e].owned # "none"
          /\ \A x \in Procs \ {e} : call'[x] = call[x]
      BY <1>1, <1>2, Moved DEF WriteReserve, WriteCommit, ReadBorrow, ReturnToken
    <2> QED BY <1>1, <2>1, <2>2, MoveEffect
  <1>3. ASSUME NEW e \in Endpoints, EnableDrain(e) PROVE Effect(e)
    <2>1. call[e].pc = "idle" /\ UNCHANGED <<queues, retained, token, call>>
      BY <1>3 DEF EnableDrain, At, history
    <2> QED BY <1>1, <2>1, MoveEffect
  <1>4. ASSUME NEW e \in Endpoints, AbandonRetained(e) PROVE Effect(e)
    <2>1. call[e].pc = "idle" /\ UNCHANGED <<queues, call>>
      BY <1>4 DEF AbandonRetained, At
    <2>2. \A x \in Endpoints \ {e} : token'[x] = token[x]
      BY <1>1, <1>4 DEF AbandonRetained, TypeOK
    <2>3. Frame(e) /\ KeepQueues
      BY <1>1, <2>1, <2>2, QuietQueues DEF Frame
    <2>4. CallCoherent(e)'
      BY <2>1, AtRest
    <2> QED BY <1>4, <2>3, <2>4 DEF Effect
  <1>5. ASSUME NEW e \in Endpoints, Step(e) PROVE Effect(e)
    BY <1>5, StepEffect
  <1> QED BY <1>1, <1>2, <1>3, <1>4, <1>5, AwayEffect DEF Next
-----------------------------------------------------------------------------
(***************************************************************************)
(* The parts of IInv, one by one.                                          *)
(***************************************************************************)

\* A successful claim takes the ticket at the head, and its block goes to the claimer.
LEMMA ClaimStep ==
  ASSUME IInv, NEW e \in Endpoints, Claims(e),
         NEW q, q = call[e].queue, NEW h, h = call[e].ticket
  PROVE  /\ q \in Queues /\ h \in Nat /\ h = head[q] /\ h \in Tickets(q)
         /\ head' = [head EXCEPT ![q] = h + 1] /\ UNCHANGED <<tail, entry, retained>>
         /\ \A k \in Queues : Frontier(k)' = Frontier(k)
         /\ ~Holding(e) /\ Holding(e)' /\ token'[e].block = Slot(q, h)
  <1>1. TypeOK /\ CallCoherent(e) /\ DequeueClaim(e) /\ head[q] = h
    BY DEF IInv, Claims
  <1>2. /\ e \in Procs /\ q \in Queues /\ h \in Nat /\ Frontier(q) \in Nat
        /\ token \in [Endpoints -> Tokens]
    BY <1>1, StateTypes, CeilingType, FrontierType DEF TypeOK
  <1>3. call[e].pc = "deq_cas" /\ token[e].owned = "none" /\ h < Frontier(q)
        /\ entry[q][Index(h)] = call[e].seen
    BY <1>1 DEF DequeueClaim, At, CallCoherent
  <1>4. /\ head' = [head EXCEPT ![q] = h + 1] /\ UNCHANGED <<tail, entry, retained>>
        /\ token'[e].owned # "none" /\ token'[e].block = call[e].seen.block
    BY <1>1, <1>2 DEF DequeueClaim, history
  <1>5. call'[e].pc = "claimed"
    BY <1>1, <1>2, Moved DEF DequeueClaim
  <1>6. \A k \in Queues : Frontier(k)' = Frontier(k)
    BY <1>4 DEF Frontier
  <1>7. h \in Tickets(q)
    BY <1>1, <1>2, <1>3 DEF Tickets
  <1> QED BY <1>1, <1>2, <1>3, <1>4, <1>5, <1>6, <1>7 DEF Holding, Slot

\* Every step keeps the window of each queue.
LEMMA WindowNext ==
  ASSUME IInv, NEW p \in Procs, Effect(p)
  PROVE  Window' /\ LastLap'
  <1>1. TypeOK /\ Window /\ LastLap
        /\ \A q \in Queues : head[q] \in Nat /\ Frontier(q) \in Nat
    BY StateTypes, CeilingType, FrontierType DEF IInv
  <1>2. CASE KeepQueues
    BY <1>1, <1>2 DEF KeepQueues, Window, LastLap, TicketAt
  <1>3. CASE p \in Endpoints /\ Claims(p)
    <2>1. PICK q, h : q = call[p].queue /\ h = call[p].ticket
      OBVIOUS
    <2>2. /\ q \in Queues /\ h \in Nat /\ h = head[q] /\ h \in Tickets(q)
          /\ head' = [head EXCEPT ![q] = h + 1] /\ entry' = entry
          /\ \A k \in Queues : Frontier(k)' = Frontier(k)
      BY <1>3, <2>1, ClaimStep
    <2>3. head \in [Queues -> 0 .. TicketCeiling] /\ h < Frontier(q)
      BY <1>1, <2>2 DEF TypeOK, Tickets
    <2>4. Window'
      BY <1>1, <2>2, <2>3, Capacity DEF Window
    <2> QED BY <1>1, <2>2, <2>4 DEF LastLap, TicketAt
  <1>4. CASE p \in Endpoints /\ Installs(p)
    <2>1. PICK q, t : q = call[p].queue /\ t = call[p].ticket
      OBVIOUS
    <2>2. CallCoherent(p) /\ Holding(p) /\ head' = head
      BY <1>4 DEF IInv, Installs, EnqueueInstall, At, CallCoherent, Holding
    <2>3. /\ q \in Queues /\ t = Frontier(q) /\ Frontier(q)' = t + 1
          /\ \A k \in Queues : k # q => Frontier(k)' = Frontier(k)
          /\ LastLap'
      BY <1>1, <1>4, <2>1, <2>2, InstallStep
    <2>4. Frontier(q) < head[q] + N
      BY <1>4, <2>2, <2>3, RoomToInstall
    <2>5. Window'
      BY <1>1, <2>2, <2>3, <2>4, Capacity DEF Window
    <2> QED BY <2>3, <2>5
  <1> QED BY <1>2, <1>3, <1>4 DEF Effect

\* What an endpoint knows survives the steps of the others.
LEMMA CoherentNext ==
  ASSUME IInv, TypeOK', NEW p \in Procs, Effect(p), NEW e \in Endpoints
  PROVE  CallCoherent(e)'
  <1>1. TypeOK /\ Window /\ LastLap /\ CallCoherent(e) /\ e \in Procs
        /\ \A q \in Queues : head[q] \in Nat /\ tail[q] \in Nat /\ Frontier(q) \in Nat
    BY StateTypes, CeilingType, FrontierType DEF IInv
  <1>2. CASE e = p
    BY <1>2 DEF Effect
  <1>3. CASE e # p
    <2>1. PICK q \in Queues, t \in Nat : q = call[e].queue /\ t = call[e].ticket
      BY <1>1, StateTypes, CeilingType
    <2>2. /\ call'[e] = call[e] /\ token'[e] = token[e]
          /\ call'[e].queue = q /\ call'[e].ticket = t
      BY <1>3, <2>1 DEF Effect, Frame
    <2>3. SUFFICES /\ head[q] <= head'[q] /\ tail[q] <= tail'[q]
                   /\ Frontier(q) <= Frontier(q)'
                   /\ head'[q] \in Nat /\ tail'[q] \in Nat /\ Frontier(q)' \in Nat
                   /\ call[e].pc = "deq_cas" /\ head'[q] = t =>
                        head[q] = t /\ entry'[q][Index(t)] = entry[q][Index(t)]
      BY <1>1, <2>1, <2>2, CeilingType DEF CallCoherent
    <2>4. call[e].pc = "deq_cas" => t <= head[q] /\ t < Frontier(q)
      BY <1>1, <2>1 DEF CallCoherent
    <2>5. CASE KeepQueues
      <3>1. tail'[q] \in Nat
        BY CeilingType DEF TypeOK
      <3> QED BY <1>1, <2>5, <3>1 DEF KeepQueues
    <2>6. CASE p \in Endpoints /\ Claims(p)
      <3>1. PICK k, h : k = call[p].queue /\ h = call[p].ticket
        OBVIOUS
      <3>2. /\ k \in Queues /\ h \in Nat /\ h = head[k]
            /\ head' = [head EXCEPT ![k] = h + 1] /\ UNCHANGED <<tail, entry>>
            /\ \A j \in Queues : Frontier(j)' = Frontier(j)
        BY <2>6, <3>1, ClaimStep
      <3>3. head'[q] = IF q = k THEN h + 1 ELSE head[q]
        BY <1>1, <3>2 DEF TypeOK
      <3> QED BY <1>1, <2>4, <3>2, <3>3
    <2>7. CASE p \in Endpoints /\ Installs(p)
      <3>1. PICK k, u : k = call[p].queue /\ u = call[p].ticket
        OBVIOUS
      <3>2. CallCoherent(p) /\ Holding(p) /\ head' = head /\ tail' = tail
        BY <2>7 DEF IInv, Installs, EnqueueInstall, At, CallCoherent, Holding
      <3>3. /\ k \in Queues /\ u \in Nat /\ u = Frontier(k) /\ Frontier(k)' = u + 1
            /\ \A j \in Queues : j # k => Frontier(j)' = Frontier(j)
            /\ entry' = [entry EXCEPT ![k][Index(u)] =
                          [cycle |-> Cycle(u), block |-> token[p].block]]
        BY <1>1, <2>7, <3>1, <3>2, InstallStep
      <3>4. entry \in [Queues -> [Blocks -> Entries]] /\ Index(t) \in Blocks /\ Index(u) \in Blocks
        BY <1>1, <3>3, IndexType DEF TypeOK
      <3>5. ASSUME call[e].pc = "deq_cas", head[q] = t
            PROVE  entry'[q][Index(t)] = entry[q][Index(t)]
        <4>1. CASE q = k
          <5>1. Frontier(q) < head[q] + N
            BY <2>7, <3>2, RoomToInstall
          <5>2. Index(t) # Index(u)
            BY <1>1, <2>4, <3>3, <3>5, <4>1, <5>1, SameIndex, Capacity
          <5> QED BY <3>3, <3>4, <5>2
        <4>2. CASE q # k
          BY <3>3, <3>4, <4>2
        <4> QED BY <4>1, <4>2
      <3> QED BY <1>1, <3>2, <3>3, <3>5
    <2> QED BY <2>5, <2>6, <2>7 DEF Effect
  <1> QED BY <1>2, <1>3

\* A quiet step keeps the partition of the blocks.
LEMMA PartitionKept ==
  ASSUME IInv, KeepQueues, KeepTokens
  PROVE  Partition'
  <1>1. \A q \in Queues : Tickets(q)' = Tickets(q) /\ Contents(q)' = Contents(q)
    BY DEF KeepQueues, Tickets, Contents, Slot
  <1>2. Held' = Held /\ retained' = retained
    BY DEF KeepTokens, Held
  <1>3. \A q \in Queues : \A t, u \in Tickets(q) : Slot(q, t)' = Slot(q, t)
    BY DEF KeepQueues, Slot
  <1>4. \A q \in Queues : \A t, u \in Tickets(q)' : Slot(q, t)' = Slot(q, u)' => t = u
    BY <1>1, <1>3 DEF IInv, Partition
  <1>5. \A e, f \in Endpoints :
          Holding(e)' /\ Holding(f)' /\ token'[e].block = token'[f].block => e = f
    BY DEF KeepTokens, IInv, Partition
  <1>6. Contents("QF")' = Contents("QF") /\ Contents("QR")' = Contents("QR")
    BY <1>1 DEF Queues
  <1> QED BY <1>2, <1>4, <1>5, <1>6 DEF IInv, Partition

\* An abandoned block leaves its token and joins the retained ones.
LEMMA PartitionAbandoned ==
  ASSUME IInv, NEW e \in Endpoints, KeepQueues, AbandonRetained(e)
  PROVE  Partition'
  <1> DEFINE b == token[e].block
  <1>1. \A q \in Queues : Tickets(q)' = Tickets(q) /\ Contents(q)' = Contents(q)
    BY DEF KeepQueues, Tickets, Contents, Slot
  <1>2. \A q \in Queues : \A t, u \in Tickets(q)' : Slot(q, t)' = Slot(q, u)' => t = u
    BY <1>1 DEF KeepQueues, Slot, IInv, Partition
  <1>3. token \in [Endpoints -> Tokens] /\ b \in Blocks
    BY StateTypes DEF IInv, TypeOK
  <1>4. /\ Holding(e) /\ ~Holding(e)' /\ retained' = retained \cup {b}
        /\ \A f \in Endpoints \ {e} : token'[f] = token[f] /\ (Holding(f)' <=> Holding(f))
    BY <1>3 DEF AbandonRetained, At, Holding, NoToken
  <1>5. \A f, g \in Endpoints :
          Holding(f)' /\ Holding(g)' /\ token'[f].block = token'[g].block => f = g
    BY <1>4 DEF IInv, Partition
  <1>6. Held = Held' \cup {b} /\ b \notin Held'
    BY <1>4 DEF Held, IInv, Partition
  <1>7. Contents("QF")' = Contents("QF") /\ Contents("QR")' = Contents("QR")
    BY <1>1 DEF Queues
  <1> HIDE DEF b
  <1> QED BY <1>2, <1>4, <1>5, <1>6, <1>7 DEF IInv, Partition

\* A claim takes the oldest block out of its queue and leaves the other alone.
LEMMA ClaimContents ==
  ASSUME IInv, NEW e \in Endpoints, Claims(e),
         NEW q, q = call[e].queue, NEW h, h = call[e].ticket, NEW b, b = Slot(q, h)
  PROVE  /\ \A k \in Queues, t \in Nat : Slot(k, t)' = Slot(k, t)
         /\ \A k \in Queues : k # q => Tickets(k)' = Tickets(k) /\ Contents(k)' = Contents(k)
         /\ Tickets(q)' = Tickets(q) \ {h}
         /\ Contents(q)' = Contents(q) \ {b} /\ b \in Contents(q)
  <1>1. /\ q \in Queues /\ h \in Nat /\ h = head[q] /\ h \in Tickets(q)
        /\ head' = [head EXCEPT ![q] = h + 1] /\ UNCHANGED <<tail, entry>>
        /\ \A k \in Queues : Frontier(k)' = Frontier(k)
    BY ClaimStep
  <1>2. head \in [Queues -> Nat] /\ Frontier(q) \in Nat
    BY CeilingType, FrontierType, <1>1 DEF IInv, TypeOK
  <1>3. /\ \A k \in Queues, t \in Nat : Slot(k, t)' = Slot(k, t)
        /\ \A k \in Queues : k # q => Tickets(k)' = Tickets(k)
        /\ Tickets(q)' = Tickets(q) \ {h}
    BY <1>1, <1>2 DEF Slot, Tickets
  <1>4. \A k \in Queues : Tickets(k) \subseteq Nat
    BY ContentsType DEF IInv
  <1>5. \A k \in Queues : k # q => Contents(k)' = Contents(k)
    BY <1>3, <1>4 DEF Contents
  <1>6. Contents(q)' = Contents(q) \ {b} /\ b \in Contents(q)
    BY <1>1, <1>3, <1>4 DEF Contents, IInv, Partition
  <1> QED BY <1>3, <1>5, <1>6

\* The claimed block moves from its queue to its owner.
LEMMA PartitionClaimed ==
  ASSUME IInv, NEW e \in Endpoints, Frame(e), Claims(e)
  PROVE  Partition'
  <1>1. PICK q, h : q = call[e].queue /\ h = call[e].ticket
    OBVIOUS
  <1>2. /\ q \in Queues /\ h \in Nat /\ h = head[q] /\ h \in Tickets(q)
        /\ head' = [head EXCEPT ![q] = h + 1] /\ UNCHANGED <<tail, entry, retained>>
        /\ \A k \in Queues : Frontier(k)' = Frontier(k)
        /\ ~Holding(e) /\ Holding(e)' /\ token'[e].block = Slot(q, h)
    BY <1>1, ClaimStep
  <1>3. \A k \in Queues : Tickets(k) \subseteq Nat
    BY ContentsType DEF IInv
  <1>4. PICK b : b = Slot(q, h)
    OBVIOUS
  <1>5. /\ \A k \in Queues, t \in Nat : Slot(k, t)' = Slot(k, t)
        /\ \A k \in Queues : k # q => Tickets(k)' = Tickets(k)
        /\ Tickets(q)' = Tickets(q) \ {h}
        /\ \A k \in Queues : k # q => Contents(k)' = Contents(k)
        /\ Contents(q)' = Contents(q) \ {b} /\ b \in Contents(q)
    BY <1>1, <1>4, ClaimContents
  <1>6. \A k \in Queues : \A t, u \in Tickets(k)' : Slot(k, t)' = Slot(k, u)' => t = u
    BY <1>3, <1>5 DEF IInv, Partition
  <1>7. \A f \in Endpoints \ {e} : token'[f] = token[f] /\ (Holding(f)' <=> Holding(f))
    BY DEF Frame, Holding
  <1>8. Held' = Held \cup {b} /\ token'[e].block = b
    BY <1>2, <1>4, <1>7 DEF Held
  <1>9. \A f \in Endpoints \ {e} : Holding(f) => token[f].block # b
    BY <1>2, <1>5 DEF Held, IInv, Partition, Queues
  <1>10. \A f, g \in Endpoints :
           Holding(f)' /\ Holding(g)' /\ token'[f].block = token'[g].block => f = g
    BY <1>7, <1>8, <1>9 DEF IInv, Partition
  <1>11. CASE q = "QF"
    <2>1. Contents("QF")' = Contents("QF") \ {b} /\ Contents("QR")' = Contents("QR")
      BY <1>5, <1>11 DEF Queues
    <2> QED BY <1>2, <1>5, <1>6, <1>8, <1>10, <1>11, <2>1 DEF IInv, Partition
  <1>12. CASE q = "QR"
    <2>1. Contents("QR")' = Contents("QR") \ {b} /\ Contents("QF")' = Contents("QF")
      BY <1>5, <1>12 DEF Queues
    <2> QED BY <1>2, <1>5, <1>6, <1>8, <1>10, <1>12, <2>1 DEF IInv, Partition
  <1> QED BY <1>2, <1>11, <1>12 DEF Queues

\* An installation adds the owner's block to its queue and leaves the other alone.
LEMMA InstallContents ==
  ASSUME IInv, NEW e \in Endpoints, Installs(e),
         NEW q, q = call[e].queue, NEW t, t = call[e].ticket,
         NEW b \in Blocks, b = token[e].block
  PROVE  /\ Slot(q, t)' = b /\ \A u \in Tickets(q) : Slot(q, u)' = Slot(q, u)
         /\ \A k \in Queues, u \in Nat : k # q => Slot(k, u)' = Slot(k, u)
         /\ Tickets(q)' = Tickets(q) \cup {t} /\ t \notin Tickets(q)
         /\ \A k \in Queues : k # q => Tickets(k)' = Tickets(k) /\ Contents(k)' = Contents(k)
         /\ Contents(q)' = Contents(q) \cup {b}
         /\ b \notin Contents("QF") \cup Contents("QR")
  <1>1. CallCoherent(e) /\ Holding(e) /\ head' = head
    BY DEF IInv, Installs, EnqueueInstall, At, CallCoherent, Holding
  <1>2. /\ q \in Queues /\ t \in Nat /\ t = Frontier(q) /\ Frontier(q)' = t + 1
        /\ \A k \in Queues : k # q => Frontier(k)' = Frontier(k)
        /\ entry' = [entry EXCEPT ![q][Index(t)] =
                      [cycle |-> Cycle(t), block |-> token[e].block]]
    BY <1>1, InstallStep DEF IInv
  <1>3. /\ entry \in [Queues -> [Blocks -> Entries]] /\ \A u \in Nat : Index(u) \in Blocks
        /\ head[q] \in Nat /\ head[q] <= t /\ t < head[q] + N
        /\ \A k \in Queues : Tickets(k) \subseteq Nat
    <2>1. TypeOK /\ \A k \in Queues : Tickets(k) \subseteq Nat
      BY ContentsType DEF IInv
    <2>2. head[q] <= t /\ t < head[q] + N
      BY <1>1, <1>2, RoomToInstall DEF IInv, Window
    <2>3. head[q] \in Nat
      BY <1>2, <2>1, StateTypes, CeilingType
    <2> QED BY <2>1, <2>2, <2>3, IndexType DEF TypeOK
  <1>4. Slot(q, t)' = b
    BY <1>2, <1>3 DEF Slot
  <1>5. \A k \in Queues, u \in Nat : k # q => Slot(k, u)' = Slot(k, u)
    BY <1>2, <1>3 DEF Slot
  <1>6. ASSUME NEW u \in Tickets(q) PROVE Slot(q, u)' = Slot(q, u)
    <2>1. u \in Nat /\ head[q] <= u /\ u < t
      BY <1>2, <1>3 DEF Tickets
    <2>2. Index(u) # Index(t)
      BY <1>2, <1>3, <2>1, SameIndex, Capacity
    <2> QED BY <1>2, <1>3, <2>1, <2>2 DEF Slot
  <1>7. /\ Tickets(q)' = Tickets(q) \cup {t} /\ t \notin Tickets(q)
        /\ \A k \in Queues : k # q => Tickets(k)' = Tickets(k)
    BY <1>1, <1>2, <1>3 DEF Tickets
  <1>8. \A k \in Queues : k # q => Contents(k)' = Contents(k)
    BY <1>3, <1>5, <1>7 DEF Contents
  <1>9. Contents(q)' = Contents(q) \cup {b}
    BY <1>4, <1>6, <1>7 DEF Contents
  <1>10. b \notin Contents("QF") \cup Contents("QR")
    BY <1>1, RoomToInstall DEF Queues
  <1> QED BY <1>4, <1>5, <1>6, <1>7, <1>8, <1>9, <1>10

\* The installed block moves from its owner to the end of the queue.
LEMMA PartitionInstalled ==
  ASSUME IInv, NEW e \in Endpoints, Effect(e), Installs(e)
  PROVE  Partition'
  <1>1. PICK q, t : q = call[e].queue /\ t = call[e].ticket
    OBVIOUS
  <1>2. CallCoherent(e) /\ Holding(e) /\ UNCHANGED <<head, token, retained>>
    BY DEF IInv, Installs, EnqueueInstall, At, CallCoherent, Holding, history
  <1>3. PICK b \in Blocks : b = token[e].block
    BY StateTypes DEF IInv
  <1>4. q \in Queues /\ \A k \in Queues : Tickets(k) \subseteq Nat
    BY <1>1, StateTypes, ContentsType DEF IInv
  <1>5. /\ Slot(q, t)' = b /\ \A u \in Tickets(q) : Slot(q, u)' = Slot(q, u)
        /\ \A k \in Queues, u \in Nat : k # q => Slot(k, u)' = Slot(k, u)
        /\ Tickets(q)' = Tickets(q) \cup {t}
        /\ \A k \in Queues : k # q => Tickets(k)' = Tickets(k) /\ Contents(k)' = Contents(k)
        /\ Contents(q)' = Contents(q) \cup {b}
        /\ b \notin Contents("QF") \cup Contents("QR")
    BY <1>1, <1>3, InstallContents
  <1>6. \A k \in Queues : \A u, v \in Tickets(k)' : Slot(k, u)' = Slot(k, v)' => u = v
    <2>1. \A u \in Tickets(q) : Slot(q, u) # b
      BY <1>4, <1>5 DEF Contents, Queues
    <2>2. \A u, v \in Tickets(q)' : Slot(q, u)' = Slot(q, v)' => u = v
      BY <1>4, <1>5, <2>1 DEF IInv, Partition
    <2>3. \A k \in Queues : k # q => \A u, v \in Tickets(k)' : Slot(k, u)' = Slot(k, v)' => u = v
      BY <1>4, <1>5 DEF IInv, Partition
    <2> QED BY <2>2, <2>3
  <1>7. /\ ~Holding(e)'
        /\ \A f \in Endpoints \ {e} : token'[f] = token[f] /\ (Holding(f)' <=> Holding(f))
    <2>1. call'[e].pc = "enq_advance"
      BY StateTypes, Moved DEF IInv, Installs, EnqueueInstall
    <2> QED BY <1>2, <2>1 DEF Effect, Frame, Holding
  <1>8. \A f, g \in Endpoints :
          Holding(f)' /\ Holding(g)' /\ token'[f].block = token'[g].block => f = g
    BY <1>7 DEF IInv, Partition
  <1>9. Held = Held' \cup {b} /\ b \notin Held'
    BY <1>2, <1>3, <1>7 DEF Held, IInv, Partition
  <1>10. CASE q = "QF"
    <2>1. Contents("QF")' = Contents("QF") \cup {b} /\ Contents("QR")' = Contents("QR")
      BY <1>5, <1>10 DEF Queues
    <2> QED BY <1>2, <1>5, <1>6, <1>8, <1>9, <2>1 DEF IInv, Partition
  <1>11. CASE q = "QR"
    <2>1. Contents("QR")' = Contents("QR") \cup {b} /\ Contents("QF")' = Contents("QF")
      BY <1>5, <1>11 DEF Queues
    <2> QED BY <1>2, <1>5, <1>6, <1>8, <1>9, <2>1 DEF IInv, Partition
  <1> QED BY <1>4, <1>10, <1>11 DEF Queues
-----------------------------------------------------------------------------
(***************************************************************************)
(* The theorems.                                                           *)
(***************************************************************************)

\* The constructed object satisfies the invariant.
LEMMA InitInvariant == Init => IInv
  <1> SUFFICES ASSUME Init PROVE IInv
    OBVIOUS
  <1>1. TypeOK
    BY InitType
  <1>2. ASSUME NEW i \in Blocks PROVE i \in Nat /\ Index(i) = i
    BY Capacity DEF Index, Blocks
  <1>3. Index(N) = 0 /\ Cycle(N) = N
    BY Capacity DEF Index, Cycle
  <1>4. ASSUME NEW q \in Queues
        PROVE  /\ tail[q] = N /\ \A i \in Blocks : entry[q][i].cycle = 0
    BY DEF Init
  <1>5. \A q \in Queues : Frontier(q) = N
    BY <1>3, <1>4, Capacity DEF Frontier, Installed, Blocks
  <1>6. head["QF"] = 0 /\ head["QR"] = N /\ \A i \in Blocks : entry["QF"][i].block = i
    BY DEF Init, Queues
  <1>7. Window
    BY <1>5, <1>6, Capacity DEF Window, Queues
  <1>8. LastLap
    BY <1>2, <1>4, <1>5, Capacity DEF LastLap, TicketAt, Blocks
  <1>9. ASSUME NEW e \in Endpoints PROVE CallCoherent(e) /\ ~Holding(e)
    BY StateTypes, <1>1 DEF Init, NoCall, NoToken, CallCoherent, Holding
  <1>10. Tickets("QF") = Blocks /\ Tickets("QR") = {}
    BY <1>5, <1>6, Capacity DEF Tickets, Blocks, Queues
  <1>11. \A t \in Blocks : Slot("QF", t) = t
    BY <1>2, <1>6 DEF Slot
  <1>12. Contents("QF") = Blocks /\ Contents("QR") = {} /\ Held = {} /\ retained = {}
    BY <1>9, <1>10, <1>11 DEF Contents, Held, Init
  <1>13. Partition
    BY <1>9, <1>10, <1>11, <1>12 DEF Partition, Queues
  <1> QED BY <1>1, <1>7, <1>8, <1>9, <1>13 DEF IInv

\* Every step keeps the invariant.
LEMMA NextInvariant == IInv /\ [Next]_vars => IInv'
  <1> SUFFICES ASSUME IInv, [Next]_vars PROVE IInv'
    OBVIOUS
  <1>1. TypeOK'
    BY TypeNext
  <1>2. PICK p \in Procs : Effect(p)
    BY NextEffect
  <1>3. Window' /\ LastLap'
    BY <1>2, WindowNext
  <1>4. \A e \in Endpoints : CallCoherent(e)'
    BY <1>1, <1>2, CoherentNext
  <1>5. Partition'
    BY <1>2, PartitionKept, PartitionAbandoned, PartitionClaimed, PartitionInstalled DEF Effect
  <1> QED BY <1>1, <1>3, <1>4, <1>5 DEF IInv

\* IInv holds in every reachable state.
THEOREM Invariance == Spec => []IInv
  BY InitInvariant, NextInvariant, PTL DEF Spec

\* Type correctness: in particular el_ncq_enqueue and el_ncq_dequeue never move
\* a cursor past the ticket ceiling, so no cursor wraps around.
THEOREM TypeCorrect == Spec => []TypeOK
  <1>1. IInv => TypeOK
    BY DEF IInv
  <1> QED BY <1>1, Invariance, PTL

\* The queues keep the order FrontierOrder states of head, tail and entries.
THEOREM FrontierOrdered == Spec => []FrontierOrder
  <1>1. ASSUME IInv, NEW q \in Queues PROVE Frontier(q) \in Nat /\ Frontier(q) >= N
    <2>1. Frontier(q) \in Nat
      BY <1>1, FrontierType DEF IInv
    <2>2. SUFFICES ASSUME Frontier(q) < N PROVE FALSE
      BY <2>1, Capacity
    <2>3. PICK i \in Blocks : i = Frontier(q)
      BY <2>1, <2>2, Capacity DEF Blocks
    <2>4. TicketAt(q, i) \in Frontier(q) - N .. Frontier(q) - 1 /\ Index(TicketAt(q, i)) = i
      BY <1>1 DEF IInv, LastLap
    <2>5. TicketAt(q, i) \in Nat
      BY <1>1, StateTypes DEF IInv, TicketAt, Entries, Blocks
    <2> QED BY <2>1, <2>2, <2>3, <2>4, <2>5, Capacity DEF Index
  <1>2. IInv => FrontierOrder
    <2> SUFFICES ASSUME IInv, NEW q \in Queues
                 PROVE  /\ head[q] <= Frontier(q) /\ Frontier(q) <= head[q] + N
                        /\ \A t \in Frontier(q) - N .. Frontier(q) - 1 :
                             Installed(t, entry[q][Index(t)])
      BY DEF FrontierOrder
    <2>1. ASSUME NEW t \in Frontier(q) - N .. Frontier(q) - 1
          PROVE  t \in Nat /\ Frontier(q) - N <= t /\ t < Frontier(q)
      BY <1>1, Capacity
    <2> QED BY <2>1, LapInstalled DEF IInv, Window
  <1> QED BY <1>2, Invariance, PTL

\* No block is lost, doubled or stolen, whatever the interleaving of producers,
\* consumers, retirement, abandonment and crashes.
THEOREM TokensPartitioned == Spec => []Partition
  <1>1. IInv => Partition
    BY DEF IInv
  <1> QED BY <1>1, Invariance, PTL

\* A dequeue that returns empty-handed does so at an instant of emptiness.
THEOREM EmptyExact == Spec => EmptyIsExact
  <1>1. ASSUME IInv, [Next]_vars, NEW e \in Endpoints, DequeueEntry(e), call'[e].pc = "idle"
        PROVE  Contents(call[e].queue) = {}
    <2>1. PICK q, t : q = call[e].queue /\ t = call[e].ticket
      OBVIOUS
    <2>2. /\ TypeOK /\ LastLap /\ Window /\ CallCoherent(e) /\ e \in Procs
          /\ q \in Queues /\ t \in Nat /\ call[e] \in Calls
          /\ head[q] \in Nat /\ Frontier(q) \in Nat
      BY <1>1, <2>1, StateTypes, CeilingType, FrontierType DEF IInv, TypeOK
    <2>3. t <= head[q]
      BY <1>1, <2>1, <2>2 DEF DequeueEntry, At, CallCoherent
    <2>4. Vacant(t, entry[q][Index(t)])
      <3>1. Fail(e, "COUNTER") => call'[e].pc = "retire"
        BY <2>2, Moved DEF Fail
      <3>2. Goto(e, "deq_head") => call'[e].pc = "deq_head"
        BY <2>2, Moved
      <3>3. \A w : call' = [call EXCEPT ![e] = [@ EXCEPT !.pc = "deq_cas", !.seen = w]]
                     => call'[e].pc = "deq_cas"
        BY <2>2, CallFields DEF TypeOK
      <3> QED BY <1>1, <2>1, <3>1, <3>2, <3>3 DEF DequeueEntry
    <2>5. Frontier(q) = head[q]
      BY <2>2, <2>3, <2>4, EntryFrontier DEF Window
    <2> QED BY <2>1, <2>2, <2>5 DEF Contents, Tickets
  <1>2. IInv /\ [Next]_vars =>
          [\A e \in Endpoints :
             DequeueEntry(e) /\ call'[e].pc = "idle" => Contents(call[e].queue) = {}]_vars
    BY <1>1
  <1> QED BY <1>2, Invariance, PTL DEF Spec, EmptyIsExact
=============================================================================
