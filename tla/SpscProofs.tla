----------------------------- MODULE SpscProofs -----------------------------
(***************************************************************************)
(* The inductive invariant of Spsc, for every capacity, word size, epoch   *)
(* ceiling and choice of who retires the generation and who may die; what  *)
(* follows from it: no data race on a block, messages intact, and checks   *)
(* that never condemn a correct generation; and that every step is a step  *)
(* of the abstract channel.                                                *)
(***************************************************************************)
EXTENDS Spsc, SequenceTheorems, TLAPS

(***************************************************************************)
(* Slots.                                                                  *)
(***************************************************************************)

\* What the assumption of Spsc gives about its constants.
LEMMA Sizes ==
  /\ N \in Nat /\ N >= 2
  /\ TicketCeiling \in Nat /\ TicketCeiling >= N
  /\ EpochCeiling \in Nat \ {0}
  /\ Producer # Consumer
  /\ Endpoints = {Producer, Consumer} /\ Endpoints \subseteq Procs
  /\ Retirers \subseteq Procs /\ Reasons \subseteq FailureReasons
  /\ Crashable \subseteq Endpoints
  BY SpscAssumption DEF TicketCeiling, Endpoints, Procs

\* A ticket has a slot.
LEMMA SlotType ==
  ASSUME NEW t \in Nat
  PROVE  Index(t) \in Blocks
  BY Sizes DEF Index, Blocks

\* Two tickets less than a lap apart have different slots.
LEMMA OneSlot ==
  ASSUME NEW t \in Nat, NEW u \in Nat, t < u + N, u < t + N, Index(t) = Index(u)
  PROVE  t = u
  <1> DEFINE a == t \div N
             b == u \div N
             r == t % N
  <1>1. /\ a \in Int /\ b \in Int /\ r \in 0 .. N - 1
        /\ t = N * a + r /\ u = N * b + r
    BY Sizes DEF Index
  <1>2. a < b => N * a + N <= N * b
    <2>1. a < b => N * (a + 1) <= N * b
      BY <1>1, Sizes
    <2>2. N * (a + 1) = N * a + N
      BY <1>1, Sizes
    <2> QED BY <2>1, <2>2
  <1>3. b < a => N * b + N <= N * a
    <2>1. b < a => N * (b + 1) <= N * a
      BY <1>1, Sizes
    <2>2. N * (b + 1) = N * b + N
      BY <1>1, Sizes
    <2> QED BY <2>1, <2>2
  <1>4. N * a \in Int /\ N * b \in Int
    BY <1>1, Sizes
  <1>5. a = b
    <2> HIDE DEF a, b, r
    <2> QED BY <1>1, <1>2, <1>3, <1>4, Sizes
  <1> QED BY <1>1, <1>5
-----------------------------------------------------------------------------
(***************************************************************************)
(* The control state, and calls.                                           *)
(***************************************************************************)
Control ==
  /\ gate \in {"READY", "RETIRE_REQUESTED"} /\ failure \in FailureReasons
  /\ aware \subseteq Procs /\ poisoned \subseteq Endpoints
  /\ NoFalseAlarm

Calls == [pc : Labels, notify : NotifyLists]

\* The call of p has moved, and no other one.
Moves(p) == /\ call' \in [Procs -> Calls]
            /\ \A x \in Procs \ {p} : call'[x] = call[x]
Returns(p) == Moves(p) /\ call'[p].pc \in {"idle", "notify"}
GoesTo(p, label) == Moves(p) /\ call'[p].pc = label

\* A call moves on, returns, or fails; only a reason that somebody gave, or
\* one that is no accusation, is recorded.
LEMMA CallSteps ==
  ASSUME TypeOK, NoFalseAlarm, NEW p \in Procs
  PROVE  /\ \A words \in NotifyLists : Leave(p, words) => Returns(p)
         /\ \A label \in Labels : Goto(p, label) => GoesTo(p, label)
         /\ UNCHANGED call => Moves(p) /\ call'[p] = call[p]
         /\ UNCHANGED <<control, poisoned>> => Control'
         /\ \A r \in Reasons \cup {"COUNTER"} :
              RetireRaw(p, r) /\ poisoned' \subseteq Endpoints => Control'
         /\ p \in Endpoints => (Fail(p, "COUNTER") => Control' /\ Returns(p))
  <1>1. call \in [Procs -> Calls]
    BY DEF TypeOK, Calls
  <1>2. \A c \in Calls : call' = [call EXCEPT ![p] = c] => Moves(p) /\ call'[p] = c
    BY <1>1 DEF Moves
  <1>3. ASSUME NEW words \in NotifyLists, Leave(p, words) PROVE Returns(p)
    <2> DEFINE c == IF Parkable /\ words # <<>> THEN [pc |-> "notify", notify |-> words]
                                                ELSE NoCall
    <2>1. c \in Calls /\ c.pc \in {"idle", "notify"}
      BY DEF Calls, Labels, NotifyLists, NoCall
    <2>2. call' = [call EXCEPT ![p] = c]
      BY <1>3 DEF Leave
    <2> HIDE DEF c
    <2> QED BY <1>2, <2>1, <2>2 DEF Returns
  <1>4. ASSUME NEW label \in Labels, Goto(p, label) PROVE GoesTo(p, label)
    <2>1. [call[p] EXCEPT !.pc = label] \in Calls
      BY <1>1 DEF Calls
    <2>2. [call[p] EXCEPT !.pc = label].pc = label
      BY <1>1 DEF Calls
    <2>3. call' = [call EXCEPT ![p] = [call[p] EXCEPT !.pc = label]]
      BY <1>4 DEF Goto
    <2> QED BY <1>2, <2>1, <2>2, <2>3 DEF GoesTo
  <1>5. UNCHANGED call => Moves(p) /\ call'[p] = call[p]
    BY <1>1 DEF Moves
  <1>6. UNCHANGED <<control, poisoned>> => Control'
    BY DEF control, Control, TypeOK, NoFalseAlarm
  <1>7. ASSUME NEW r \in Reasons \cup {"COUNTER"}, RetireRaw(p, r), poisoned' \subseteq Endpoints
        PROVE  Control'
    <2>1. r \in FailureReasons /\ r \notin {"INTEGRITY", "PROTOCOL"} \ Reasons
      BY Sizes DEF FailureReasons
    <2> QED BY <1>7, <2>1 DEF RetireRaw, Control, TypeOK, NoFalseAlarm
  <1>8. ASSUME p \in Endpoints, Fail(p, "COUNTER") PROVE Control' /\ Returns(p)
    <2>1. poisoned' \subseteq Endpoints
      BY <1>8 DEF Fail, TypeOK
    <2>2. Control'
      BY <1>7, <1>8, <2>1 DEF Fail
    <2>3. <<"data", "space">> \in NotifyLists
      BY DEF NotifyLists
    <2> QED BY <1>3, <1>8, <2>2, <2>3 DEF Fail
  <1> QED BY <1>3, <1>4, <1>5, <1>6, <1>7, <1>8
-----------------------------------------------------------------------------
(***************************************************************************)
(* What one side leaves alone stays coherent for the other.                *)
(***************************************************************************)

\* The parts of a typed state.
LEMMA StateTypes ==
  ASSUME TypeOK
  PROVE  /\ published \in 0 .. TicketCeiling /\ reclaimed \in 0 .. published
         /\ cursor[Producer] = published /\ cursor[Consumer] = reclaimed
         /\ \A e \in Endpoints :
              /\ view[e] \in Nat /\ cached[e] \in Nat /\ cached[e] <= view[e]
              /\ token[e].owned \in {"none", "write", "read"}
              /\ token[e].block \in Blocks /\ token[e].epoch \in 0 .. EpochCeiling
         /\ view[Producer] <= reclaimed /\ view[Consumer] <= published
         /\ \A b \in Blocks : desc[b].epoch \in 0 .. EpochCeiling /\ desc[b].meta \in Nat
  BY Sizes DEF TypeOK

\* The types of the state but for the control part and the calls.
Data ==
  /\ published \in 0 .. TicketCeiling /\ reclaimed \in 0 .. published
  /\ cursor = [e \in Endpoints |-> IF e = Producer THEN published ELSE reclaimed]
  /\ view \in [Endpoints -> 0 .. TicketCeiling]
  /\ view[Producer] <= reclaimed /\ view[Consumer] <= published
  /\ cached \in [Endpoints -> 0 .. TicketCeiling]
  /\ \A e \in Endpoints : cached[e] <= view[e]
  /\ desc \in [Blocks -> [epoch : 0 .. EpochCeiling, meta : 0 .. TicketCeiling]]
  /\ token \in [Endpoints -> [owned : {"none", "write", "read"}, block : Blocks,
                             epoch : 0 .. EpochCeiling]]
  /\ draining \subseteq Endpoints /\ retained \subseteq Blocks /\ crashed \subseteq Endpoints

\* The type invariant, put together.
LEMMA Parts ==
  /\ TypeOK /\ NoFalseAlarm <=> Data /\ Control /\ call \in [Procs -> Calls]
  /\ (TypeOK /\ NoFalseAlarm)' <=> Data' /\ Control' /\ call' \in [Procs -> Calls]
  BY DEF TypeOK, Data, Control, Calls

\* Nothing but the control state and the calls has changed.
LEMMA DataKept ==
  ASSUME Data, UNCHANGED <<cursors, loads, desc, token, draining, history>>
  PROVE  Data'
  BY DEF Data, cursors, loads, history

\* The producer stays coherent while the consumer reclaims.
LEMMA ProducerKept ==
  ASSUME TypeOK, ProducerCoherent, reclaimed' \in Nat, reclaimed <= reclaimed',
         call'[Producer] = call[Producer], token'[Producer] = token[Producer],
         UNCHANGED <<published, desc>>
  PROVE  ProducerCoherent'
  BY StateTypes, Sizes DEF ProducerCoherent, SameEpoch

\* The consumer stays coherent while the producer changes no block it reads.
LEMMA ConsumerKept ==
  ASSUME TypeOK, ConsumerCoherent,
         call'[Consumer] = call[Consumer], token'[Consumer] = token[Consumer],
         view'[Consumer] = view[Consumer], reclaimed' = reclaimed,
         token[Consumer].owned = "read" =>
           desc'[Index(reclaimed)].epoch = desc[Index(reclaimed)].epoch
  PROVE  ConsumerCoherent'
  BY StateTypes, Sizes DEF ConsumerCoherent, SameEpoch

\* A borrowed block is a published one, and the next slot of a producer with
\* room is not.
LEMMA Apart ==
  ASSUME TypeOK, published < reclaimed + N, NEW t \in reclaimed .. published - 1
  PROVE  t \in Nat /\ Index(t) \in Blocks /\ Index(t) # Index(published)
  <1>1. t \in Nat /\ published \in Nat /\ t < published /\ published < t + N
    BY StateTypes, Sizes
  <1> QED BY <1>1, OneSlot, SlotType, Sizes

\* What the consumer borrows is published.
LEMMA Borrowed ==
  ASSUME TypeOK, ConsumerCoherent, token[Consumer].owned = "read"
  PROVE  reclaimed \in reclaimed .. published - 1
  BY StateTypes, Sizes DEF ConsumerCoherent
-----------------------------------------------------------------------------
(***************************************************************************)
(* The steps of the producer.                                              *)
(***************************************************************************)
LEMMA ProducerNext ==
  ASSUME Safe, WriteReserve \/ WriteCommit \/ WriteAbort \/ ProducerStep
  PROVE  Safe'
  <1> DEFINE P == Producer
             C == Consumer
             b == Index(published)
  <1>1. /\ TypeOK /\ ProducerCoherent /\ ConsumerCoherent /\ Intact /\ NoFalseAlarm
        /\ Data /\ Control /\ call \in [Procs -> Calls]
    BY Parts DEF Safe
  <1>2. /\ P \in Procs /\ C \in Procs /\ P # C /\ P \in Endpoints /\ C \in Endpoints
        /\ N \in Nat /\ TicketCeiling \in Nat /\ EpochCeiling \in Nat \ {0}
    BY Sizes
  <1>3. /\ published \in 0 .. TicketCeiling /\ reclaimed \in 0 .. published
        /\ cursor[P] = published /\ b \in Blocks
        /\ view[P] \in Nat /\ view[P] <= reclaimed /\ cached[P] \in Nat /\ cached[P] <= view[P]
    BY <1>1, <1>2, StateTypes, SlotType
  <1>4. /\ \A words \in NotifyLists : Leave(P, words) => Returns(P)
        /\ \A label \in Labels : Goto(P, label) => GoesTo(P, label)
        /\ UNCHANGED call => Moves(P) /\ call'[P] = call[P]
        /\ UNCHANGED <<control, poisoned>> => Control'
        /\ Fail(P, "COUNTER") => Control' /\ Returns(P)
    BY <1>1, <1>2, CallSteps
  <1>5. /\ {<<>>, <<"data">>} \subseteq NotifyLists
        /\ {"load_reclaimed", "stamp", "commit", "publish"} \subseteq Labels
    BY DEF NotifyLists, Labels
  <1> DEFINE Goal == Data' /\ Control' /\ Moves(P)
                     /\ ProducerCoherent' /\ ConsumerCoherent' /\ Intact'
  <1>6. SUFFICES Goal
    BY Parts DEF Safe, Moves
  <1>7. Moves(P) => call'[C] = call[C]
    BY <1>2 DEF Moves
  \* A step that moves nothing but its call.
  <1>8. ASSUME Control', Moves(P), ProducerCoherent',
               UNCHANGED <<cursors, loads, desc, token, draining, history>>
        PROVE  Goal
    <2>1. Data'
      BY <1>1, <1>8, DataKept
    <2>2. ConsumerCoherent'
      BY <1>1, <1>7, <1>8, ConsumerKept DEF cursors, loads
    <2>3. Intact'
      BY <1>1, <1>8 DEF Intact, cursors
    <2> QED BY <1>8, <2>1, <2>2, <2>3
  <1>10. CASE WriteReserve
    <2>1. cached[P] <= cursor[P]
      BY <1>3
    <2>2. CASE cursor[P] >= TicketCeiling
      <3>1. Fail(P, "COUNTER") /\ token[P].owned = "none"
        BY <1>10, <2>2 DEF WriteReserve
      <3>2. UNCHANGED <<cursors, loads, desc, token, draining, history>>
        BY <1>10 DEF WriteReserve
      <3>3. ProducerCoherent'
        BY <1>1, <1>4, <3>1, <3>2 DEF ProducerCoherent, Returns
      <3> QED BY <1>4, <1>8, <3>1, <3>2, <3>3 DEF Returns
    <2>3. CASE cursor[P] < TicketCeiling
      <3> DEFINE label == IF Full(cached[P]) THEN "load_reclaimed" ELSE "stamp"
      <3>1. /\ Goto(P, label) /\ token[P].owned = "none"
            /\ UNCHANGED <<control, poisoned>>
            /\ UNCHANGED <<cursors, loads, desc, token, draining, history>>
        BY <1>2, <1>3, <1>10, <2>1, <2>3 DEF WriteReserve
      <3>2. label \in Labels
        BY <1>5
      <3>3. GoesTo(P, label)
        BY <1>4, <3>1, <3>2
      <3>4. label = "stamp" => published < reclaimed + N
        BY <1>2, <1>3 DEF Full
      <3>5. ProducerCoherent'
        BY <1>1, <1>3, <2>3, <3>1, <3>3, <3>4 DEF ProducerCoherent, GoesTo, cursors
      <3> QED BY <1>4, <1>8, <3>1, <3>3, <3>5 DEF GoesTo
    <2> QED BY <1>2, <1>3, <2>2, <2>3
  <1>11. CASE WriteCommit
    <2>1. /\ Goto(P, "commit") /\ token[P].owned = "write"
          /\ UNCHANGED <<control, cursors, loads, desc, token, flags, history>>
      BY <1>11 DEF WriteCommit
    <2>2. GoesTo(P, "commit") /\ Control'
      BY <1>4, <1>5, <2>1 DEF flags
    <2>3. ProducerCoherent'
      BY <1>1, <2>1, <2>2 DEF ProducerCoherent, GoesTo, cursors, SameEpoch
    <2> QED BY <1>8, <2>1, <2>2, <2>3 DEF GoesTo, flags
  <1>12. CASE WriteAbort
    <2>1. /\ call[P].pc = "idle" /\ token' = [token EXCEPT ![P] = NoToken]
          /\ UNCHANGED <<control, poisoned, call>>
          /\ UNCHANGED <<cursors, loads, desc, draining, history>>
      BY <1>1, <1>12 DEF WriteAbort, ProducerCoherent, At
    <2>2. Control' /\ Moves(P) /\ call'[P] = call[P]
      BY <1>4, <2>1
    <2>3. Data'
      <3>1. NoToken \in [owned : {"none", "write", "read"}, block : Blocks, epoch : 0 .. EpochCeiling]
        BY Sizes DEF NoToken, Blocks
      <3> QED BY <1>1, <1>2, <2>1, <3>1 DEF Data, cursors, loads, history
    <2>4. ProducerCoherent'
      BY <1>1, <1>2, <2>1, <2>2 DEF ProducerCoherent, Data, NoToken
    <2>5. ConsumerCoherent' /\ Intact'
      BY <1>1, <1>2, <1>7, <2>1, <2>2, ConsumerKept DEF Data, Intact, cursors, loads
    <2> QED BY <2>2, <2>3, <2>4, <2>5
  <1>13. CASE LoadReclaimed
    <2>1. PICK r \in view[P] .. reclaimed :
            /\ cached' = [cached EXCEPT ![P] = r] /\ view' = [view EXCEPT ![P] = r]
            /\ IF r > cursor[P] THEN Fail(P, "PROTOCOL")
               ELSE /\ IF Full(r) THEN Leave(P, <<>>) ELSE Goto(P, "stamp")
                    /\ UNCHANGED <<control, poisoned>>
      BY <1>13 DEF LoadReclaimed
    <2>2. /\ call[P].pc = "load_reclaimed"
          /\ UNCHANGED <<cursors, desc, token, draining, history>>
      BY <1>13 DEF LoadReclaimed, At
    <2>3. r \in Nat /\ r <= reclaimed /\ view[P] <= r
      BY <1>3, <2>1
    <2>4. /\ IF Full(r) THEN Returns(P) ELSE GoesTo(P, "stamp")
          /\ Control'
      BY <1>2, <1>3, <1>4, <1>5, <2>1, <2>3
    <2>5. Moves(P)
      BY <2>4 DEF Returns, GoesTo
    <2>6. Data'
      <3>1. r \in 0 .. TicketCeiling
        BY <1>2, <1>3, <2>3
      <3>2. /\ view' \in [Endpoints -> 0 .. TicketCeiling] /\ view'[P] = r /\ view'[C] = view[C]
            /\ cached' \in [Endpoints -> 0 .. TicketCeiling]
            /\ \A e \in Endpoints : cached'[e] <= view'[e]
        BY <1>1, <1>2, <2>1, <3>1 DEF Data
      <3> QED BY <1>1, <2>2, <2>3, <3>2 DEF Data, cursors, history
    <2>7. ~Full(r) => published < reclaimed + N
      BY <1>2, <1>3, <2>3 DEF Full
    <2>8. ProducerCoherent'
      BY <1>1, <2>2, <2>4, <2>7 DEF ProducerCoherent, Returns, GoesTo, cursors
    <2>9. ConsumerCoherent' /\ Intact'
      <3>1. view'[C] = view[C]
        BY <1>1, <1>2, <2>1 DEF Data
      <3> QED BY <1>1, <1>7, <2>2, <2>5, <3>1, ConsumerKept DEF Intact, cursors
    <2> QED BY <2>4, <2>5, <2>6, <2>8, <2>9
  \* Where the producer has room, its block is none of the published ones.
  <1>14. ASSUME published < reclaimed + N, UNCHANGED <<published, reclaimed>>,
                \A i \in Blocks \ {b} : desc'[i] = desc[i]
         PROVE  /\ Intact'
                /\ Moves(P) /\ token'[C] = token[C] /\ view'[C] = view[C] => ConsumerCoherent'
    <2>1. \A t \in reclaimed .. published - 1 : Index(t) \in Blocks \ {b}
      BY <1>1, <1>14, Apart
    <2>2. Intact'
      BY <1>1, <1>14, <2>1 DEF Intact
    <2>3. token[C].owned = "read" => desc'[Index(reclaimed)] = desc[Index(reclaimed)]
      BY <1>1, <1>14, <2>1, Borrowed
    <2> QED BY <1>1, <1>7, <1>14, <2>2, <2>3, ConsumerKept
  <1>15. CASE StampEpoch
    <2> DEFINE k == desc[b].epoch + 1
    <2>1. /\ call[P].pc = "stamp" /\ token[P].owned = "none" /\ published < reclaimed + N
          /\ published < TicketCeiling
          /\ UNCHANGED <<cursors, loads, draining, history>>
      BY <1>1, <1>15 DEF StampEpoch, ProducerCoherent, At
    <2>2. desc[b].epoch \in 0 .. EpochCeiling
      BY <1>1, <1>3, StateTypes
    <2>3. CASE k > EpochCeiling
      <3>1. Fail(P, "COUNTER") /\ UNCHANGED <<desc, token>>
        BY <1>3, <1>15, <2>3 DEF StampEpoch
      <3>2. ProducerCoherent'
        BY <1>1, <1>4, <2>1, <3>1 DEF ProducerCoherent, Returns, cursors
      <3> QED BY <1>4, <1>8, <2>1, <3>1, <3>2 DEF Returns
    <2>4. CASE k <= EpochCeiling
      <3>1. /\ desc' = [desc EXCEPT ![b].epoch = k]
            /\ token' = [token EXCEPT ![P] = [owned |-> "write", block |-> b, epoch |-> k]]
            /\ Leave(P, <<>>) /\ UNCHANGED <<control, poisoned>>
        BY <1>2, <1>3, <1>15, <2>2, <2>4 DEF StampEpoch
      <3>2. Control' /\ Returns(P)
        BY <1>4, <1>5, <3>1
      <3>3. k \in 0 .. EpochCeiling /\ k >= 1
        BY <1>2, <2>2, <2>4
      <3> HIDE DEF k
      <3>4. [owned |-> "write", block |-> b, epoch |-> k] \in
              [owned : {"none", "write", "read"}, block : Blocks, epoch : 0 .. EpochCeiling]
        BY <1>3, <3>3
      <3>5. /\ token' \in [Endpoints -> [owned : {"none", "write", "read"}, block : Blocks,
                                         epoch : 0 .. EpochCeiling]]
            /\ token'[P] = [owned |-> "write", block |-> b, epoch |-> k] /\ token'[C] = token[C]
        BY <1>1, <1>2, <3>1, <3>4 DEF Data
      <3>6. /\ desc' \in [Blocks -> [epoch : 0 .. EpochCeiling, meta : 0 .. TicketCeiling]]
            /\ desc'[b].epoch = k
            /\ \A i \in Blocks \ {b} : desc'[i] = desc[i]
        BY <1>1, <1>3, <3>1, <3>3 DEF Data
      <3>7. Data'
        BY <1>1, <2>1, <3>5, <3>6 DEF Data, cursors, loads, history
      <3>8. ProducerCoherent'
        BY <1>1, <2>1, <3>2, <3>3, <3>5, <3>6 DEF ProducerCoherent, SameEpoch, Returns, cursors
      <3>9. ConsumerCoherent' /\ Intact'
        BY <1>14, <2>1, <3>2, <3>5, <3>6 DEF Returns, cursors, loads
      <3> QED BY <3>2, <3>7, <3>8, <3>9 DEF Returns
    <2> QED BY <1>2, <2>2, <2>3, <2>4
  <1>16. CASE CommitBlock
    <2>1. /\ token[P].owned = "write" /\ token[P].block = b /\ SameEpoch(P)
          /\ published < reclaimed + N
      BY <1>1, <1>16 DEF CommitBlock, ProducerCoherent, At
    <2>2. /\ desc' = [desc EXCEPT ![b].meta = published] /\ Goto(P, "publish")
          /\ UNCHANGED <<control, poisoned>>
          /\ UNCHANGED <<cursors, loads, token, draining, history>>
      BY <1>3, <1>16, <2>1 DEF CommitBlock
    <2>3. Control' /\ GoesTo(P, "publish")
      BY <1>4, <1>5, <2>2
    <2>4. /\ desc' \in [Blocks -> [epoch : 0 .. EpochCeiling, meta : 0 .. TicketCeiling]]
          /\ desc'[b].meta = published /\ desc'[b].epoch = desc[b].epoch
          /\ \A i \in Blocks \ {b} : desc'[i] = desc[i]
      BY <1>1, <1>3, <2>2 DEF Data
    <2>5. Data'
      BY <1>1, <2>2, <2>4 DEF Data, cursors, loads, history
    <2>6. ProducerCoherent'
      BY <1>1, <2>1, <2>2, <2>3, <2>4 DEF ProducerCoherent, SameEpoch, GoesTo, cursors
    <2>7. ConsumerCoherent' /\ Intact'
      BY <1>14, <2>1, <2>2, <2>3, <2>4 DEF GoesTo, cursors, loads
    <2> QED BY <2>3, <2>5, <2>6, <2>7 DEF GoesTo
  <1>17. CASE PublishBlock
    <2>1. /\ token[P].owned = "write" /\ token[P].block = b /\ SameEpoch(P)
          /\ published < reclaimed + N /\ published < TicketCeiling
          /\ desc[b].meta = published /\ desc[b].epoch >= 1
      BY <1>1, <1>17 DEF PublishBlock, ProducerCoherent, SameEpoch, At
    <2>2. /\ published' = published + 1
          /\ cursor' = [cursor EXCEPT ![P] = published']
          /\ token' = [token EXCEPT ![P] = NoToken]
          /\ Leave(P, <<"data">>)
          /\ UNCHANGED <<control, reclaimed, loads, desc, flags, history>>
      BY <1>3, <1>17 DEF PublishBlock
    <2>3. Control' /\ Returns(P)
      BY <1>4, <1>5, <2>2 DEF flags
    <2>4. /\ token' \in [Endpoints -> [owned : {"none", "write", "read"}, block : Blocks,
                                       epoch : 0 .. EpochCeiling]]
          /\ token'[P].owned = "none" /\ token'[C] = token[C]
      <3>1. NoToken \in [owned : {"none", "write", "read"}, block : Blocks, epoch : 0 .. EpochCeiling]
        BY Sizes DEF NoToken, Blocks
      <3>2. NoToken.owned = "none"
        BY DEF NoToken
      <3> QED BY <1>1, <1>2, <2>2, <3>1, <3>2 DEF Data
    <2>5. Data'
      <3>1. cursor' = [e \in Endpoints |-> IF e = P THEN published' ELSE reclaimed]
        BY <1>1, <1>2, <2>2 DEF Data
      <3>2. published' \in 0 .. TicketCeiling /\ reclaimed \in 0 .. published'
            /\ view[C] <= published'
        BY <1>1, <1>2, <1>3, <2>1, <2>2, StateTypes
      <3> QED BY <1>1, <2>2, <2>4, <3>1, <3>2 DEF Data, loads, flags, history
    <2>6. ProducerCoherent'
      BY <2>3, <2>4 DEF ProducerCoherent, Returns
    <2>7. ConsumerCoherent'
      BY <1>1, <1>7, <2>2, <2>3, <2>4, ConsumerKept DEF Returns, loads
    <2>8. Intact'
      <3>1. \A t \in reclaimed .. published' - 1 : t \in reclaimed .. published - 1 \/ t = published
        BY <1>3, <2>2
      <3> QED BY <1>1, <1>2, <1>3, <2>1, <2>2, <3>1 DEF Intact
    <2> QED BY <2>3, <2>5, <2>6, <2>7, <2>8 DEF Returns
  <1> QED BY <1>10, <1>11, <1>12, <1>13, <1>15, <1>16, <1>17 DEF ProducerStep
-----------------------------------------------------------------------------
(***************************************************************************)
(* The steps of the consumer.                                              *)
(***************************************************************************)
LEMMA ConsumerNext ==
  ASSUME Safe, ReadBorrow \/ ReadRelease \/ EnableDrain \/ ConsumerStep
  PROVE  Safe'
  <1> DEFINE P == Producer
             C == Consumer
             b == Index(reclaimed)
             Tokens == [owned : {"none", "write", "read"}, block : Blocks, epoch : 0 .. EpochCeiling]
             Goal == Data' /\ Control' /\ Moves(C)
                     /\ ProducerCoherent' /\ ConsumerCoherent' /\ Intact'
  <1>1. /\ TypeOK /\ ProducerCoherent /\ ConsumerCoherent /\ Intact /\ NoFalseAlarm
        /\ Data /\ Control /\ call \in [Procs -> Calls]
    BY Parts DEF Safe
  <1>2. /\ P \in Procs /\ C \in Procs /\ P # C /\ P \in Endpoints /\ C \in Endpoints
        /\ N \in Nat /\ TicketCeiling \in Nat /\ EpochCeiling \in Nat \ {0}
    BY Sizes
  <1>3. /\ published \in 0 .. TicketCeiling /\ reclaimed \in 0 .. published
        /\ cursor[C] = reclaimed /\ b \in Blocks /\ published - reclaimed <= N
        /\ view[C] \in Nat /\ view[C] <= published /\ cached[C] \in Nat /\ cached[C] <= view[C]
    BY <1>1, <1>2, StateTypes, SlotType DEF Intact
  <1>4. /\ \A words \in NotifyLists : Leave(C, words) => Returns(C)
        /\ \A label \in Labels : Goto(C, label) => GoesTo(C, label)
        /\ UNCHANGED call => Moves(C) /\ call'[C] = call[C]
        /\ UNCHANGED <<control, poisoned>> => Control'
        /\ Fail(C, "COUNTER") => Control' /\ Returns(C)
    BY <1>1, <1>2, CallSteps
  <1>5. /\ {<<>>, <<"space">>} \subseteq NotifyLists
        /\ {"load_published", "metadata", "release"} \subseteq Labels
    BY DEF NotifyLists, Labels
  <1>6. SUFFICES Goal
    BY Parts DEF Safe, Moves
  <1>7. Moves(C) => call'[P] = call[P]
    BY <1>2 DEF Moves
  \* The producer looks at none of what changes before a reclamation.
  <1>8. ASSUME Moves(C), token'[P] = token[P], UNCHANGED <<published, reclaimed, desc>>
        PROVE  ProducerCoherent' /\ Intact'
    BY <1>1, <1>3, <1>7, <1>8, ProducerKept DEF Intact
  <1>9. token[P] \in Tokens /\ token \in [Endpoints -> Tokens]
    BY <1>1, <1>2 DEF Data
  \* What follows the choice of the value found in the cache or loaded.
  <1>10. ASSUME NEW pub \in Nat, BorrowAt(pub), reclaimed <= pub, pub <= view'[C],
                view'[C] \in Nat, view'[C] <= published, token[C].owned = "none",
                UNCHANGED <<cursors, desc>>
         PROVE  /\ Control' /\ Moves(C) /\ token' \in [Endpoints -> Tokens]
                /\ ProducerCoherent' /\ ConsumerCoherent' /\ Intact'
    <2>1. ~(pub < cursor[C] \/ pub > TicketCeiling \/ pub - cursor[C] > N)
      BY <1>2, <1>3, <1>10
    <2>2. ~(pub # cursor[C] /\ cursor[C] >= TicketCeiling)
      BY <1>2, <1>3, <1>10
    <2>3. Control'
      BY <1>4, <1>10, <2>1, <2>2 DEF BorrowAt
    <2>4. CASE pub = reclaimed
      <3>1. Returns(C) /\ UNCHANGED token
        BY <1>3, <1>4, <1>5, <1>10, <2>1, <2>2, <2>4 DEF BorrowAt
      <3>2. ConsumerCoherent'
        BY <1>1, <1>10, <2>4, <3>1 DEF ConsumerCoherent, Returns, cursors
      <3> QED BY <1>8, <1>9, <1>10, <2>3, <3>1, <3>2 DEF Returns, cursors
    <2>5. CASE pub # reclaimed
      <3> DEFINE lease == [owned |-> "read", block |-> b, epoch |-> 0]
      <3>1. token' = [token EXCEPT ![C] = lease] /\ Goto(C, "metadata")
        BY <1>3, <1>10, <2>1, <2>2, <2>5 DEF BorrowAt
      <3>2. GoesTo(C, "metadata")
        BY <1>4, <1>5, <3>1
      <3>3. lease \in Tokens /\ lease.owned = "read" /\ lease.block = b
        BY <1>2, <1>3
      <3> HIDE DEF lease
      <3>4. token' \in [Endpoints -> Tokens] /\ token'[C] = lease /\ token'[P] = token[P]
        BY <1>2, <1>9, <3>1, <3>3
      <3>5. reclaimed < view'[C]
        BY <1>3, <1>10, <2>5
      <3>6. ConsumerCoherent'
        BY <1>3, <1>10, <3>2, <3>3, <3>4, <3>5 DEF ConsumerCoherent, GoesTo, cursors
      <3> QED BY <1>8, <1>10, <2>3, <3>2, <3>4, <3>6 DEF GoesTo, cursors
    <2> QED BY <2>4, <2>5
  \* A step that moves the call, and perhaps the epoch of the consumer's token.
  <1>11. ASSUME Control', Moves(C), token' \in [Endpoints -> Tokens], token'[P] = token[P],
                ConsumerCoherent', UNCHANGED <<cursors, loads, desc, draining, history>>
         PROVE  Goal
    <2>1. Data'
      BY <1>1, <1>11 DEF Data, cursors, loads, history
    <2> QED BY <1>8, <1>11, <2>1 DEF cursors
  <1>12. CASE ReadBorrow
    <2>1. /\ call[C].pc = "idle" /\ token[C].owned = "none"
          /\ UNCHANGED <<cursors, loads, desc, draining, history>>
      BY <1>12 DEF ReadBorrow, At
    <2>2. CASE cached[C] > cursor[C]
      <3>1. BorrowAt(cached[C])
        BY <1>12, <2>2 DEF ReadBorrow
      <3>2. Goal
        <4>1. /\ Control' /\ Moves(C) /\ token' \in [Endpoints -> Tokens]
              /\ ProducerCoherent' /\ ConsumerCoherent' /\ Intact'
          BY <1>3, <1>10, <2>1, <2>2, <3>1 DEF loads
        <4>2. Data'
          BY <1>1, <2>1, <4>1 DEF Data, cursors, loads, history
        <4> QED BY <4>1, <4>2
      <3> QED BY <3>2
    <2>3. CASE ~(cached[C] > cursor[C])
      <3>1. Goto(C, "load_published") /\ UNCHANGED <<control, token, poisoned>>
        BY <1>12, <2>3 DEF ReadBorrow
      <3>2. GoesTo(C, "load_published") /\ Control'
        BY <1>4, <1>5, <3>1
      <3>3. ConsumerCoherent'
        BY <1>1, <2>1, <3>1, <3>2 DEF ConsumerCoherent, GoesTo, cursors, loads
      <3> QED BY <1>9, <1>11, <2>1, <3>1, <3>2, <3>3 DEF GoesTo
    <2> QED BY <2>2, <2>3
  <1>13. CASE LoadPublished
    <2>1. PICK pub \in view[C] .. published :
            /\ cached' = [cached EXCEPT ![C] = pub] /\ view' = [view EXCEPT ![C] = pub]
            /\ BorrowAt(pub)
      BY <1>13 DEF LoadPublished
    <2>2. /\ token[C].owned = "none" /\ reclaimed <= view[C]
          /\ UNCHANGED <<cursors, desc, draining, history>>
      BY <1>1, <1>13 DEF LoadPublished, ConsumerCoherent, At
    <2>3. pub \in 0 .. TicketCeiling /\ pub \in Nat /\ view[C] <= pub /\ pub <= published
      BY <1>2, <1>3, <2>1
    <2>4. /\ view' \in [Endpoints -> 0 .. TicketCeiling] /\ view'[C] = pub /\ view'[P] = view[P]
          /\ cached' \in [Endpoints -> 0 .. TicketCeiling]
          /\ \A e \in Endpoints : cached'[e] <= view'[e]
      BY <1>1, <1>2, <2>1, <2>3 DEF Data
    <2>5. /\ Control' /\ Moves(C) /\ token' \in [Endpoints -> Tokens]
          /\ ProducerCoherent' /\ ConsumerCoherent' /\ Intact'
      BY <1>3, <1>10, <2>1, <2>2, <2>3, <2>4
    <2>6. Data'
      BY <1>1, <2>2, <2>3, <2>4, <2>5 DEF Data, cursors, history
    <2> QED BY <2>5, <2>6
  <1>14. CASE ReadMetadata
    <2> DEFINE k == desc[b].epoch
    <2>1. /\ call[C].pc = "metadata" /\ token[C].owned = "read" /\ token[C].block = b
          /\ UNCHANGED <<cursors, loads, desc, draining, history>>
      BY <1>1, <1>14 DEF ReadMetadata, ConsumerCoherent, At
    <2>2. k \in 1 .. EpochCeiling
      BY <1>1, <1>2, <1>3, <2>1, Borrowed, StateTypes DEF Intact
    <2>3. token' = [token EXCEPT ![C].epoch = k] /\ Leave(C, <<>>) /\ UNCHANGED <<control, poisoned>>
      BY <1>14, <2>1, <2>2 DEF ReadMetadata
    <2>4. Returns(C) /\ Control'
      BY <1>4, <1>5, <2>3
    <2>5. [token[C] EXCEPT !.epoch = k] \in Tokens
      BY <1>2, <1>9, <2>2
    <2>6. /\ token' \in [Endpoints -> Tokens] /\ token'[P] = token[P]
          /\ token'[C].owned = "read" /\ token'[C].block = b /\ token'[C].epoch = k
      BY <1>2, <1>9, <2>1, <2>3, <2>5
    <2>7. ConsumerCoherent'
      BY <1>1, <2>1, <2>4, <2>6 DEF ConsumerCoherent, SameEpoch, Returns, cursors, loads
    <2> QED BY <1>11, <2>1, <2>4, <2>6, <2>7 DEF Returns
  <1>15. CASE ReadRelease
    <2>1. /\ Goto(C, "release") /\ token[C].owned = "read" /\ call[C].pc = "idle"
          /\ UNCHANGED <<control, cursors, loads, desc, token, flags, history>>
      BY <1>15 DEF ReadRelease, At
    <2>2. GoesTo(C, "release") /\ Control'
      BY <1>4, <1>5, <2>1 DEF flags
    <2>3. ConsumerCoherent'
      BY <1>1, <2>1, <2>2 DEF ConsumerCoherent, SameEpoch, GoesTo, cursors, loads
    <2> QED BY <1>9, <1>11, <2>1, <2>2, <2>3 DEF GoesTo, flags
  <1>16. CASE EnableDrain
    <2>1. /\ draining' = draining \cup {C}
          /\ UNCHANGED <<control, cursors, loads, desc, token, poisoned, call, history>>
      BY <1>16 DEF EnableDrain
    <2>2. Control' /\ Moves(C) /\ call'[C] = call[C]
      BY <1>4, <2>1
    <2>3. Data'
      BY <1>1, <1>2, <2>1 DEF Data, cursors, loads, history
    <2>4. ConsumerCoherent'
      BY <1>1, <2>1, <2>2, ConsumerKept DEF cursors, loads
    <2> QED BY <1>8, <2>1, <2>2, <2>3, <2>4 DEF cursors
  <1>17. CASE ReleaseBlock
    <2>1. /\ token[C].owned = "read" /\ token[C].block = b /\ SameEpoch(C)
          /\ reclaimed < view[C]
      BY <1>1, <1>17 DEF ReleaseBlock, ConsumerCoherent, At
    <2>2. /\ reclaimed' = reclaimed + 1
          /\ cursor' = [cursor EXCEPT ![C] = reclaimed']
          /\ token' = [token EXCEPT ![C] = NoToken]
          /\ Leave(C, <<"space">>)
          /\ UNCHANGED <<control, poisoned>>
          /\ UNCHANGED <<published, loads, desc, draining, history>>
      BY <1>3, <1>17, <2>1 DEF ReleaseBlock
    <2>3. Control' /\ Returns(C)
      BY <1>4, <1>5, <2>2
    <2>4. /\ token' \in [Endpoints -> Tokens]
          /\ token'[C].owned = "none" /\ token'[P] = token[P]
      <3>1. NoToken \in Tokens
        BY Sizes DEF NoToken, Blocks
      <3>2. NoToken.owned = "none"
        BY DEF NoToken
      <3> HIDE DEF Tokens
      <3> QED BY <1>2, <1>9, <2>2, <3>1, <3>2
    <2>5. reclaimed' \in 0 .. published /\ reclaimed' <= view[C] /\ reclaimed' \in Nat
          /\ reclaimed <= reclaimed'
      BY <1>3, <2>1, <2>2
    <2>6. Data'
      <3>1. cursor' = [e \in Endpoints |-> IF e = P THEN published ELSE reclaimed']
        BY <1>1, <2>2, Sizes DEF Data
      <3>2. view[P] <= reclaimed'
        <4>1. view[P] \in Nat /\ view[P] <= reclaimed /\ reclaimed \in Nat
          BY <1>1, <1>2, <1>3, StateTypes
        <4> QED BY <2>2, <4>1
      <3> QED BY <1>1, <2>2, <2>4, <2>5, <3>1, <3>2 DEF Data, loads, history
    <2>7. ProducerCoherent'
      BY <1>1, <1>7, <2>2, <2>3, <2>4, <2>5, ProducerKept DEF Returns
    <2>8. ConsumerCoherent'
      BY <1>1, <2>2, <2>3, <2>4, <2>5 DEF ConsumerCoherent, Returns, loads
    <2>9. Intact'
      <3>1. \A t \in reclaimed' .. published - 1 : t \in reclaimed .. published - 1
        BY <1>3, <2>2
      <3>2. published - reclaimed' <= N
        BY <1>2, <1>3, <2>2
      <3> QED BY <1>1, <2>2, <3>1, <3>2 DEF Intact
    <2> QED BY <2>3, <2>6, <2>7, <2>8, <2>9 DEF Returns
  <1> QED BY <1>12, <1>13, <1>14, <1>15, <1>16, <1>17 DEF ConsumerStep
-----------------------------------------------------------------------------
(***************************************************************************)
(* All steps.                                                              *)
(***************************************************************************)

\* The constructed object is safe.
LEMMA InitSafe == Init => Safe
  <1> SUFFICES ASSUME Init PROVE Safe
    OBVIOUS
  <1>1. /\ N \in Nat /\ N >= 2 /\ TicketCeiling \in Nat /\ EpochCeiling \in Nat
        /\ Producer \in Endpoints /\ Consumer \in Endpoints
        /\ Producer \in Procs /\ Consumer \in Procs
    BY Sizes
  <1>2. NoCall \in Calls /\ NoCall.pc = "idle"
    BY DEF NoCall, Calls, Labels, NotifyLists
  <1>3. /\ NoToken \in [owned : {"none", "write", "read"}, block : Blocks, epoch : 0 .. EpochCeiling]
        /\ NoToken.owned = "none"
    BY <1>1 DEF NoToken, Blocks
  <1>4. Data
    <2>1. desc \in [Blocks -> [epoch : 0 .. EpochCeiling, meta : 0 .. TicketCeiling]]
      BY <1>1 DEF Init
    <2>2. token \in [Endpoints -> [owned : {"none", "write", "read"}, block : Blocks,
                                  epoch : 0 .. EpochCeiling]]
      BY <1>3 DEF Init
    <2> QED BY <1>1, <2>1, <2>2 DEF Init, Data
  <1>5. Control
    BY DEF Init, Control, NoFalseAlarm, FailureReasons
  <1>6. call \in [Procs -> Calls]
    BY <1>2 DEF Init
  <1>7. ProducerCoherent /\ ConsumerCoherent
    <2>1. /\ token[Producer].owned = "none" /\ token[Consumer].owned = "none"
          /\ call[Producer].pc = "idle" /\ call[Consumer].pc = "idle"
          /\ reclaimed = 0 /\ view[Consumer] = 0
      BY <1>1, <1>2, <1>3 DEF Init
    <2> QED BY <2>1 DEF ProducerCoherent, ConsumerCoherent
  <1>8. Intact
    BY <1>1 DEF Init, Intact
  <1> QED BY <1>4, <1>5, <1>6, <1>7, <1>8, Parts DEF Safe

\* Every step keeps it safe.
LEMMA NextSafe == Safe /\ [Next]_vars => Safe'
  <1> SUFFICES ASSUME Safe, [Next]_vars PROVE Safe'
    OBVIOUS
  <1>1. /\ TypeOK /\ ProducerCoherent /\ ConsumerCoherent /\ Intact /\ NoFalseAlarm
        /\ Data /\ Control /\ call \in [Procs -> Calls]
    BY Parts DEF Safe
  <1>2. /\ Producer \in Procs /\ Consumer \in Procs /\ Producer # Consumer
        /\ Producer \in Endpoints /\ Consumer \in Endpoints
    BY Sizes
  <1>3. ASSUME NEW e \in Endpoints, AbandonRetained(e) PROVE Safe'
    <2>1. /\ token' = [token EXCEPT ![e] = NoToken] /\ call[e].pc = "idle"
          /\ poisoned' = poisoned \cup {e} /\ retained' = retained \cup {token[e].block}
          /\ UNCHANGED <<control, cursors, loads, desc, draining, call, crashed>>
      BY <1>3 DEF AbandonRetained, At
    <2>2. Data'
      <3>1. NoToken \in [owned : {"none", "write", "read"}, block : Blocks, epoch : 0 .. EpochCeiling]
        BY Sizes DEF NoToken, Blocks
      <3>2. token[e].block \in Blocks
        BY <1>1, StateTypes
      <3> QED BY <1>1, <2>1, <3>1, <3>2 DEF Data, cursors, loads
    <2>3. Control'
      BY <1>1, <2>1 DEF Control, control, NoFalseAlarm
    <2>4. \A x \in Endpoints : token'[x] = IF x = e THEN NoToken ELSE token[x]
      BY <1>1, <2>1 DEF Data
    <2>5. NoToken.owned = "none"
      BY DEF NoToken
    <2>6. ProducerCoherent' /\ ConsumerCoherent'
      BY <1>1, <1>2, <2>1, <2>4, <2>5
      DEF ProducerCoherent, ConsumerCoherent, SameEpoch, cursors, loads
    <2>7. Intact'
      BY <1>1, <2>1 DEF Intact, cursors
    <2> QED BY <1>1, <2>1, <2>2, <2>3, <2>6, <2>7, Parts DEF Safe
  <1>4. ASSUME NEW p \in Retirers, NEW r \in Reasons, Retire(p, r) PROVE Safe'
    <2>1. p \in Procs /\ call[p].pc = "idle" /\ RetireRaw(p, r)
          /\ UNCHANGED <<cursors, loads, desc, token, flags, history>>
      BY <1>4, Sizes DEF Retire, At
    <2>2. Returns(p)
      BY <1>1, <1>4, <2>1, CallSteps DEF Retire, NotifyLists
    <2>3. Control'
      BY <1>1, <2>1, CallSteps DEF flags, Control
    <2>4. Data'
      BY <1>1, <2>1, DataKept DEF flags
    <2>5. ProducerCoherent' /\ ConsumerCoherent'
      <3>1. \A e \in Endpoints : call'[e] = call[e] \/ e = p
        BY <2>2, Sizes DEF Returns, Moves
      <3> QED BY <1>1, <1>2, <2>1, <2>2, <3>1
              DEF ProducerCoherent, ConsumerCoherent, SameEpoch, Returns, cursors, loads
    <2>6. Intact'
      BY <1>1, <2>1 DEF Intact, cursors
    <2> QED BY <2>2, <2>3, <2>4, <2>5, <2>6, Parts DEF Safe, Returns, Moves
  <1>5. ASSUME NEW e \in Crashable, Crash(e) PROVE Safe'
    BY <1>1, <1>5, Sizes
    DEF Safe, Crash, TypeOK, ProducerCoherent, ConsumerCoherent, Intact, NoFalseAlarm, SameEpoch,
        control, cursors, loads, flags
  <1>6. CASE UNCHANGED vars
    BY <1>1, <1>6
    DEF Safe, vars, TypeOK, ProducerCoherent, ConsumerCoherent, Intact, NoFalseAlarm, SameEpoch,
        control, cursors, loads, flags, history
  <1> QED BY <1>3, <1>4, <1>5, <1>6, ProducerNext, ConsumerNext DEF Next

-----------------------------------------------------------------------------
(***************************************************************************)
(* What is abandoned.                                                      *)
(***************************************************************************)

\* A connection is poisoned by a call that then returns, or not at all.
LEMMA Poisoning ==
  ASSUME TypeOK, NEW e \in Endpoints
  PROVE  /\ \A r \in FailureReasons : Fail(e, r) =>
              poisoned' = poisoned \cup {e} /\ call'[e].pc \in {"idle", "notify"}
         /\ \A words \in NotifyLists : Leave(e, words) =>
              call'[e].pc \in {"idle", "notify"} /\ \A x \in Endpoints \ {e} : call'[x] = call[x]
         /\ \A r \in FailureReasons : Fail(e, r) => \A x \in Endpoints \ {e} : call'[x] = call[x]
  <1>1. e \in Procs /\ Endpoints \subseteq Procs /\ call \in [Procs -> Calls]
    BY Sizes DEF TypeOK, Calls
  <1>2. ASSUME NEW words \in NotifyLists, Leave(e, words)
        PROVE  call'[e].pc \in {"idle", "notify"} /\ \A x \in Endpoints \ {e} : call'[x] = call[x]
    BY <1>1, <1>2 DEF Leave, NoCall
  <1>3. <<"data", "space">> \in NotifyLists
    BY DEF NotifyLists
  <1> QED BY <1>2, <1>3 DEF Fail

\* One side acts, the other has what it had: what was abandoned stays so.
LEMMA OthersAbandonment ==
  ASSUME Safe, Abandonment, Safe', retained' = retained, NEW e \in Endpoints, e \notin poisoned,
         \/ poisoned' = poisoned
         \/ poisoned' = poisoned \cup {e} /\ call'[e].pc \in {"idle", "notify"},
         \A x \in Endpoints \ {e} : call'[x] = call[x] /\ token'[x] = token[x],
         e = Producer => reclaimed' = reclaimed /\ published <= published',
         e = Consumer => published' = published /\ reclaimed <= reclaimed'
  PROVE  Abandonment'
  <1>1. /\ published \in Nat /\ reclaimed \in Nat /\ published' \in Nat /\ reclaimed' \in Nat
        /\ N \in Nat /\ Producer # Consumer /\ Endpoints = {Producer, Consumer}
        /\ poisoned \subseteq Endpoints
    BY Sizes DEF Safe, TypeOK
  <1>2. \A x \in poisoned' : call'[x].pc \in {"idle", "notify", "wake"}
    BY <1>1 DEF Abandonment
  <1>3. ASSUME NEW b \in retained'
        PROVE  \/ /\ Consumer \in poisoned' /\ token'[Consumer].owned = "none"
                  /\ reclaimed' < published' /\ b = Index(reclaimed')
               \/ /\ Producer \in poisoned' /\ token'[Producer].owned = "none"
                  /\ published' < reclaimed' + N /\ b = Index(published')
    <2>0. \/ /\ Consumer \in poisoned /\ token[Consumer].owned = "none"
             /\ reclaimed < published /\ b = Index(reclaimed)
          \/ /\ Producer \in poisoned /\ token[Producer].owned = "none"
             /\ published < reclaimed + N /\ b = Index(published)
      BY <1>3 DEF Abandonment
    <2>1. CASE e = Producer
      <3>1. /\ token'[Consumer] = token[Consumer] /\ reclaimed' = reclaimed
            /\ published <= published' /\ poisoned \subseteq poisoned'
        BY <1>1, <2>1
      <3> QED BY <1>1, <2>0, <2>1, <3>1
    <2>2. CASE e = Consumer
      <3>1. /\ token'[Producer] = token[Producer] /\ published' = published
            /\ reclaimed <= reclaimed' /\ poisoned \subseteq poisoned'
        BY <1>1, <2>2
      <3>2. Consumer \notin poisoned
        BY <2>2
      <3>3. published < reclaimed + N => published' < reclaimed' + N
        BY <1>1, <3>1
      <3>4. /\ token[Producer].owned = "none" => token'[Producer].owned = "none"
            /\ Producer \in poisoned => Producer \in poisoned'
            /\ Index(published) = Index(published')
        BY <3>1
      <3>5. /\ Producer \in poisoned /\ token[Producer].owned = "none"
            /\ published < reclaimed + N /\ b = Index(published)
        BY <2>0, <3>2
      <3> QED BY <3>3, <3>4, <3>5
    <2> QED BY <1>1, <2>1, <2>2
  <1> QED BY <1>2, <1>3 DEF Abandonment

\* The calls that a live connection makes or goes on with.
LEMMA AbandonmentStep ==
  ASSUME Safe, Abandonment, Safe',
         \/ WriteReserve \/ WriteCommit \/ WriteAbort \/ ProducerStep
         \/ ReadBorrow \/ ReadRelease \/ ConsumerStep
  PROVE  Abandonment'
  <1> DEFINE P == Producer
             C == Consumer
  <1>1. /\ P \in Endpoints /\ C \in Endpoints /\ P # C /\ Endpoints = {P, C}
        /\ TypeOK /\ ProducerCoherent /\ ConsumerCoherent
        /\ \A e \in Endpoints : cursor[e] = IF e = P THEN published ELSE reclaimed
        /\ published \in Nat /\ reclaimed \in Nat /\ call \in [Procs -> Calls]
        /\ Endpoints \subseteq Procs /\ token[P] = token[P] /\ DOMAIN token = Endpoints
    BY Sizes DEF Safe, TypeOK, Calls
  <1>2. /\ {<<>>, <<"data">>, <<"space">>} \subseteq NotifyLists
        /\ {"INTEGRITY", "PROTOCOL", "COUNTER"} \subseteq FailureReasons
    BY DEF NotifyLists, FailureReasons
  <1>3. \A e \in Endpoints :
          /\ \A words \in NotifyLists : Leave(e, words) => \A x \in Endpoints \ {e} : call'[x] = call[x]
          /\ \A r \in FailureReasons : Fail(e, r) =>
               /\ poisoned' = poisoned \cup {e} /\ call'[e].pc \in {"idle", "notify"}
               /\ \A x \in Endpoints \ {e} : call'[x] = call[x]
          /\ \A label : Goto(e, label) => \A x \in Endpoints \ {e} : call'[x] = call[x]
    BY <1>1, Poisoning DEF Goto
  <1>4. \A e \in Endpoints : call[e].pc \notin {"idle", "notify", "wake"} => e \notin poisoned
    BY DEF Abandonment
  <1> DEFINE Acts(e) ==
        /\ e \notin poisoned /\ retained' = retained
        /\ \/ poisoned' = poisoned
           \/ poisoned' = poisoned \cup {e} /\ call'[e].pc \in {"idle", "notify"}
        /\ \A x \in Endpoints \ {e} : call'[x] = call[x] /\ token'[x] = token[x]
        /\ e = P => reclaimed' = reclaimed /\ published <= published'
        /\ e = C => published' = published /\ reclaimed <= reclaimed'
  <1>6. ASSUME NEW e \in Endpoints, Acts(e) PROVE Abandonment'
    BY <1>6, OthersAbandonment
  <1>10. ASSUME WriteReserve PROVE Acts(P)
    BY <1>1, <1>2, <1>3, <1>10 DEF WriteReserve, Ready, cursors, history
  <1>11. ASSUME WriteCommit PROVE Acts(P)
    BY <1>1, <1>3, <1>11 DEF WriteCommit, Ready, cursors, flags, history
  <1>12. ASSUME WriteAbort PROVE Acts(P)
    BY <1>1, <1>2, <1>3, <1>12 DEF WriteAbort, ReturnAllowed, cursors, history
  <1>13. ASSUME LoadReclaimed PROVE Acts(P)
    BY <1>1, <1>2, <1>3, <1>4, <1>13 DEF LoadReclaimed, At, cursors, history
  <1>14. ASSUME StampEpoch PROVE Acts(P)
    BY <1>1, <1>2, <1>3, <1>4, <1>14 DEF StampEpoch, At, cursors, history
  <1>15. ASSUME CommitBlock PROVE Acts(P)
    BY <1>1, <1>2, <1>3, <1>4, <1>15 DEF CommitBlock, At, cursors, history
  <1>16. ASSUME PublishBlock PROVE Acts(P)
    BY <1>1, <1>2, <1>3, <1>4, <1>16 DEF PublishBlock, At, flags, history
  <1>17. ASSUME NEW pub, BorrowAt(pub)
         PROVE  /\ \/ poisoned' = poisoned
                   \/ poisoned' = poisoned \cup {C} /\ call'[C].pc \in {"idle", "notify"}
                /\ \A x \in Endpoints \ {C} : call'[x] = call[x] /\ token'[x] = token[x]
    BY <1>1, <1>2, <1>3, <1>17 DEF BorrowAt
  <1>18. ASSUME ReadBorrow PROVE Acts(C)
    BY <1>1, <1>3, <1>17, <1>18 DEF ReadBorrow, ReadyToDrain, Ready, cursors, history
  <1>19. ASSUME LoadPublished PROVE Acts(C)
    BY <1>1, <1>4, <1>17, <1>19 DEF LoadPublished, At, cursors, history
  <1>20. ASSUME ReadMetadata PROVE Acts(C)
    BY <1>1, <1>2, <1>3, <1>4, <1>20 DEF ReadMetadata, At, cursors, history
  <1>21. ASSUME ReadRelease PROVE Acts(C)
    BY <1>1, <1>3, <1>21 DEF ReadRelease, ReturnAllowed, cursors, flags, history
  <1>22. ASSUME ReleaseBlock PROVE Acts(C)
    BY <1>1, <1>2, <1>3, <1>4, <1>22 DEF ReleaseBlock, At, history
  <1> QED BY <1>1, <1>6, <1>10, <1>11, <1>12, <1>13, <1>14, <1>15, <1>16, <1>18, <1>19, <1>20,
             <1>21, <1>22 DEF ProducerStep, ConsumerStep

\* The constructed object satisfies the invariant.
LEMMA InitInvariant == Init => IInv
  BY InitSafe DEF IInv, Init, Abandonment

\* Every step keeps the invariant.
LEMMA NextInvariant == IInv /\ [Next]_vars => IInv'
  <1> SUFFICES ASSUME IInv, [Next]_vars PROVE Abandonment'
    BY NextSafe DEF IInv
  <1>1. Safe /\ Abandonment /\ Safe'
    BY NextSafe DEF IInv
  <1>2. /\ TypeOK /\ ProducerCoherent /\ ConsumerCoherent /\ Endpoints = {Producer, Consumer}
        /\ Producer # Consumer /\ Endpoints \subseteq Procs
    BY <1>1, Sizes DEF Safe
  <1>3. ASSUME NEW e \in Endpoints, AbandonRetained(e) PROVE Abandonment'
    <2>1. /\ token[e].owned # "none" /\ token' = [token EXCEPT ![e] = NoToken]
          /\ call[e].pc = "idle"
          /\ poisoned' = poisoned \cup {e} /\ retained' = retained \cup {token[e].block}
          /\ UNCHANGED <<published, reclaimed, call>>
      BY <1>3 DEF AbandonRetained, At, cursors
    <2>2. \A x \in Endpoints : token'[x].owned = IF x = e THEN "none" ELSE token[x].owned
      BY <1>2, <2>1 DEF TypeOK, NoToken
    <2>3. \/ e = Producer /\ published < reclaimed + N /\ token[e].block = Index(published)
          \/ e = Consumer /\ reclaimed < published /\ token[e].block = Index(reclaimed)
      <3>1. e = Producer => published < reclaimed + N /\ token[e].block = Index(published)
        BY <1>2, <2>1 DEF ProducerCoherent
      <3>2. e = Consumer => reclaimed < published /\ token[e].block = Index(reclaimed)
        BY <1>2, <2>1, Borrowed, StateTypes DEF ConsumerCoherent
      <3> QED BY <1>2, <3>1, <3>2
    <2>4. \A x \in poisoned' : call'[x].pc \in {"idle", "notify", "wake"}
      BY <1>1, <2>1 DEF Abandonment
    <2> QED BY <1>1, <1>2, <2>1, <2>2, <2>3, <2>4 DEF Abandonment
  <1>4. CASE EnableDrain
    BY <1>1, <1>4 DEF EnableDrain, Abandonment, cursors, history
  <1>5. ASSUME NEW p \in Retirers, NEW r \in Reasons, Retire(p, r) PROVE Abandonment'
    <2>1. /\ Leave(p, <<"data", "space">>) /\ p \in Procs
          /\ UNCHANGED <<cursors, token, flags, history>>
      BY <1>5, Sizes DEF Retire
    <2>2. Returns(p)
      BY <1>1, <2>1, CallSteps DEF Safe, NotifyLists
    <2>3. \A e \in Endpoints : call'[e] = call[e] \/ call'[e].pc \in {"idle", "notify"}
      BY <1>2, <2>2 DEF Returns, Moves
    <2>4. poisoned \subseteq Endpoints
      BY <1>2 DEF TypeOK
    <2> QED BY <1>1, <2>1, <2>3, <2>4 DEF Abandonment, cursors, flags, history
  <1>6. ASSUME NEW e \in Crashable, Crash(e) PROVE Abandonment'
    BY <1>1, <1>6 DEF Crash, Abandonment, cursors, flags
  <1>7. CASE UNCHANGED vars
    BY <1>1, <1>7 DEF vars, Abandonment, cursors, flags, history
  <1> QED BY <1>1, <1>3, <1>4, <1>5, <1>6, <1>7, AbandonmentStep DEF Next
-----------------------------------------------------------------------------
(***************************************************************************)
(* The theorems.                                                           *)
(***************************************************************************)

\* The invariant holds in every reachable state of every SPSC ring.
THEOREM Invariance == Spec => []IInv
  BY InitInvariant, NextInvariant, PTL DEF Spec

\* The checks of el_spsc_reserve, el_spsc_borrow, el_spsc_commit and
\* el_spsc_release never record INTEGRITY or PROTOCOL against endpoints that
\* follow the interface, however stale the cursors are that they load.
THEOREM NeverFalselyAlarmed == Spec => []NoFalseAlarm
  BY Invariance, PTL DEF IInv, Safe

\* What the invariant says of races and of messages.
LEMMA InvariantRaceFree == IInv => RaceFree
  <1> SUFFICES ASSUME IInv PROVE RaceFree
    OBVIOUS
  <1>1. /\ TypeOK /\ ProducerCoherent /\ ConsumerCoherent /\ published - reclaimed <= N
        /\ cursor[Producer] = published
    BY StateTypes DEF IInv, Safe, Intact
  <1>2. Writing # {} => published < reclaimed + N /\ Writing = {Index(published)}
    BY <1>1 DEF Writing, ProducerCoherent
  <1>3. Writing \cap Unreclaimed = {}
    BY <1>1, <1>2, Apart DEF Unreclaimed
  <1>4. Reading \subseteq Unreclaimed
    BY <1>1, Borrowed DEF Reading, Unreclaimed, ConsumerCoherent
  <1> QED BY <1>1, <1>3, <1>4 DEF RaceFree

LEMMA InvariantIntact == IInv => MessageIntact
  BY DEF IInv, Safe, Intact, ConsumerCoherent, MessageIntact, Reading

\* No two endpoints are ever about to access the same block, and no more than
\* N messages are between the cursors (el_spsc_reserve, el_spsc_borrow).
THEOREM NeverRacing == Spec => []RaceFree
  BY InvariantRaceFree, Invariance, PTL

\* Between the cursors every slot holds the message that was committed at its
\* ticket, and a lease carries its block's epoch (el_spsc_commit, el_spsc_borrow).
THEOREM MessagesIntact == Spec => []MessageIntact
  BY InvariantIntact, Invariance, PTL
-----------------------------------------------------------------------------
(***************************************************************************)
(* Spsc implements the abstract channel of a generation: the cursors and   *)
(* tokens of one producer and one consumer are a set of free blocks, a     *)
(* sequence of published ones and their owners, and every step of the code *)
(* is a step of the channel or leaves it alone.                            *)
(***************************************************************************)

(***************************************************************************)
(* The blocks of consecutive tickets.                                      *)
(***************************************************************************)
Run(f, p) == [i \in 1 .. p - f |-> Index(f + i - 1)]

\* A run is a sequence of blocks, empty when its end has been reached.
LEMMA RunType ==
  ASSUME NEW f \in Nat, NEW p \in Nat
  PROVE  /\ Run(f, p) \in Seq(Blocks)
         /\ f <= p => Len(Run(f, p)) = p - f
         /\ p <= f => Run(f, p) = <<>>
         /\ {Run(f, p)[i] : i \in DOMAIN Run(f, p)} = {Index(t) : t \in f .. p - 1}
  <1>1. \A i \in 1 .. p - f : f + i - 1 \in Nat /\ Index(f + i - 1) \in Blocks
    BY SlotType
  <1>2. p <= f => 1 .. p - f = {}
    OBVIOUS
  <1>3. ASSUME f <= p PROVE Run(f, p) \in Seq(Blocks) /\ Len(Run(f, p)) = p - f
    <2>1. p - f \in Nat
      BY <1>3
    <2> QED BY <1>1, <2>1 DEF Run
  <1>4. ASSUME p <= f PROVE Run(f, p) = <<>>
    <2>1. Run(f, p) = [i \in {} |-> Index(f + i - 1)]
      BY <1>2, <1>4 DEF Run
    <2> QED BY <2>1
  <1>5. {Run(f, p)[i] : i \in DOMAIN Run(f, p)} = {Index(t) : t \in f .. p - 1}
    <2>1. DOMAIN Run(f, p) = 1 .. p - f
      BY DEF Run
    <2>2. \A i \in 1 .. p - f : Run(f, p)[i] = Index(f + i - 1) /\ f + i - 1 \in f .. p - 1
      BY DEF Run
    <2>3. \A t \in f .. p - 1 : t - f + 1 \in 1 .. p - f /\ Run(f, p)[t - f + 1] = Index(t)
      <3>1. ASSUME NEW t \in f .. p - 1 PROVE t - f + 1 \in 1 .. p - f /\ f + (t - f + 1) - 1 = t
        OBVIOUS
      <3> QED BY <3>1 DEF Run
    <2> QED BY <2>1, <2>2, <2>3
  <1>6. Run(f, p) \in Seq(Blocks)
    <2>1. <<>> \in Seq(Blocks)
      OBVIOUS
    <2>2. f <= p \/ p <= f
      OBVIOUS
    <2> QED BY <1>3, <1>4, <2>1, <2>2
  <1> QED BY <1>3, <1>4, <1>5, <1>6

\* A publication appends a block.
LEMMA RunAppend ==
  ASSUME NEW f \in Nat, NEW p \in Nat, f <= p
  PROVE  Run(f, p + 1) = Append(Run(f, p), Index(p))
  <1> DEFINE s == Run(f, p)
             u == Run(f, p + 1)
             v == Append(s, Index(p))
  <1>0. p + 1 \in Nat /\ f <= p + 1 /\ (p + 1) - f = p - f + 1
    OBVIOUS
  <1>1. s \in Seq(Blocks) /\ Len(s) = p - f /\ u \in Seq(Blocks) /\ Len(u) = p - f + 1
    <2>1. u \in Seq(Blocks) /\ Len(u) = (p + 1) - f
      BY <1>0, RunType
    <2>2. s \in Seq(Blocks) /\ Len(s) = p - f
      BY RunType
    <2> HIDE DEF u, s
    <2> QED BY <1>0, <2>1, <2>2
  <1>2. /\ v \in Seq(Blocks) /\ Len(v) = p - f + 1
        /\ \A i \in 1 .. p - f : v[i] = s[i]
        /\ v[p - f + 1] = Index(p)
    BY <1>1, SlotType, AppendProperties
  <1>3. \A i \in 1 .. p - f + 1 : u[i] = v[i]
    <2>1. \A i \in 1 .. p - f : u[i] = Index(f + i - 1) /\ s[i] = Index(f + i - 1)
      BY DEF Run
    <2>2. u[p - f + 1] = Index(p)
      <3>1. f + (p - f + 1) - 1 = p /\ p - f + 1 \in 1 .. p + 1 - f
        OBVIOUS
      <3> QED BY <3>1 DEF Run
    <2>3. \A i \in 1 .. p - f + 1 : i \in 1 .. p - f \/ i = p - f + 1
      OBVIOUS
    <2> HIDE DEF s, u, v
    <2> QED BY <1>2, <2>1, <2>2, <2>3
  <1> HIDE DEF s, u, v
  <1>4. u = v
    BY <1>1, <1>2, <1>3, SeqEqual
  <1> QED BY <1>4 DEF u, v, s

\* A borrowing takes the first one.
LEMMA RunTail ==
  ASSUME NEW f \in Nat, NEW p \in Nat, f < p
  PROVE  /\ Run(f, p) # <<>> /\ Head(Run(f, p)) = Index(f)
         /\ Tail(Run(f, p)) = Run(f + 1, p)
  <1> DEFINE s == Run(f, p)
             u == Run(f + 1, p)
  <1>0. f + 1 \in Nat /\ f + 1 <= p /\ p - (f + 1) = p - f - 1
    OBVIOUS
  <1>1. s \in Seq(Blocks) /\ Len(s) = p - f /\ u \in Seq(Blocks) /\ Len(u) = p - f - 1
    <2>1. u \in Seq(Blocks) /\ Len(u) = p - (f + 1)
      BY <1>0, RunType
    <2>2. s \in Seq(Blocks) /\ Len(s) = p - f
      BY RunType
    <2> HIDE DEF u, s
    <2> QED BY <1>0, <2>1, <2>2
  <1>2. s # <<>>
    BY <1>1, EmptySeq
  <1>3. /\ Tail(s) \in Seq(Blocks) /\ Len(Tail(s)) = p - f - 1
        /\ \A i \in 1 .. p - f - 1 : Tail(s)[i] = s[i + 1]
    BY <1>1, <1>2, HeadTailProperties
  <1>4. Head(s) = s[1] /\ s[1] = Index(f)
    <2>1. f + 1 - 1 = f /\ 1 \in 1 .. p - f
      OBVIOUS
    <2>2. s[1] = Index(f)
      BY <2>1 DEF Run
    <2> HIDE DEF s
    <2> QED BY <1>1, <1>2, <2>2
  <1>5. \A i \in 1 .. p - f - 1 : s[i + 1] = u[i]
    <2>1. ASSUME NEW i \in 1 .. p - f - 1 PROVE s[i + 1] = u[i]
      <3>1. i + 1 \in 1 .. p - f /\ i \in 1 .. p - (f + 1) /\ f + (i + 1) - 1 = (f + 1) + i - 1
        OBVIOUS
      <3> QED BY <3>1 DEF Run
    <2> QED BY <2>1
  <1> HIDE DEF s, u
  <1>6. Tail(s) = u
    BY <1>1, <1>3, <1>5, SeqEqual
  <1> QED BY <1>2, <1>4, <1>6 DEF s, u
-----------------------------------------------------------------------------
(***************************************************************************)
(* What a change of the mapped state is in the channel.                    *)
(***************************************************************************)
Queued == {ReadySeq[i] : i \in DOMAIN ReadySeq}
Mapped == <<Writing, Reading, ReadySeq, retained, desc>>

\* The tokens that a holder of no block, or of one, has in the channel.
LEMMA Owning ==
  ASSUME NEW k, NEW b
  PROVE  /\ HolderToken(k, {}) = Promise!NoToken
         /\ HolderToken(k, {b}) = Promise!Token(k, b)
  BY DEF HolderToken, Promise!NoToken, Promise!Token

\* Both endpoints, and the holder of each.
LEMMA Holding ==
  /\ Producer # Consumer /\ Promise!Endpoints = Endpoints
  /\ Holders[Producer] = HolderToken("write", Writing)
  /\ Holders[Consumer] = HolderToken("read", Reading)
  /\ Holders'[Producer] = HolderToken("write", Writing')
  /\ Holders'[Consumer] = HolderToken("read", Reading')
  /\ \A t : UNCHANGED Reading /\ HolderToken("write", Writing') = t
              => Holders' = [Holders EXCEPT ![Producer] = t]
  /\ \A t : UNCHANGED Writing /\ HolderToken("read", Reading') = t
              => Holders' = [Holders EXCEPT ![Consumer] = t]
  <1>1. Producer # Consumer /\ Endpoints = {Producer, Consumer}
    BY Sizes
  <1>2. Promise!Endpoints = Endpoints
    BY <1>1 DEF Promise!Endpoints
  <1> DEFINE w == HolderToken("write", Writing)
             r == HolderToken("read", Reading)
  <1>3. /\ Holders = [e \in Endpoints |-> IF e = Producer THEN w ELSE r]
        /\ Holders' = [e \in Endpoints |-> IF e = Producer THEN w' ELSE r']
    BY DEF Holders
  <1>4. UNCHANGED Reading => r' = r
    BY DEF HolderToken
  <1>5. UNCHANGED Writing => w' = w
    BY DEF HolderToken
  <1> HIDE DEF w, r
  <1>6. /\ Holders[Producer] = w /\ Holders[Consumer] = r
        /\ Holders'[Producer] = w' /\ Holders'[Consumer] = r'
    BY <1>1, <1>3
  <1>7. \A t : UNCHANGED Reading /\ w' = t => Holders' = [Holders EXCEPT ![Producer] = t]
    BY <1>1, <1>3, <1>4
  <1>8. \A t : UNCHANGED Writing /\ r' = t => Holders' = [Holders EXCEPT ![Consumer] = t]
    BY <1>1, <1>3, <1>5
  <1> QED BY <1>1, <1>2, <1>6, <1>7, <1>8 DEF w, r

\* A step that changes nothing of it stutters in the channel.
LEMMA Stuttering ==
  ASSUME UNCHANGED Mapped
  PROVE  UNCHANGED Promise!vars
  BY DEF Mapped, Promise!vars, FreeBlocks, Holders

\* The producer gets a free block.
LEMMA Reserving ==
  ASSUME NEW b \in FreeBlocks, Writing = {}, Writing' = {b},
         UNCHANGED <<Reading, ReadySeq, retained, desc>>
  PROVE  Promise!Next
  <1>1. b \in Blocks /\ FreeBlocks' = FreeBlocks \ {b}
    BY DEF FreeBlocks
  <1>2. Promise!Reserve(Producer, b)
    BY <1>1, Owning, Holding DEF Promise!Reserve, Promise!Take
  <1> QED BY <1>1, <1>2 DEF Promise!Next

\* The producer changes the message of its block.
LEMMA WritingTo ==
  ASSUME NEW b \in Blocks, Writing = {b}, UNCHANGED <<Writing, Reading, ReadySeq, retained>>,
         desc' \in [Blocks -> Messages], \A c \in Blocks \ {b} : desc'[c] = desc[c]
  PROVE  Promise!Next
  <1>1. Promise!Write(Producer, b)
    BY Owning, Holding DEF Promise!Write, FreeBlocks, Holders
  <1> QED BY <1>1 DEF Promise!Next

\* The producer's block joins the published ones.
LEMMA Publishing ==
  ASSUME NEW b \in Blocks, ReadySeq \in Seq(Blocks), Writing = {b}, Writing' = {},
         ReadySeq' = Append(ReadySeq, b), UNCHANGED <<Reading, retained, desc>>
  PROVE  Promise!Next
  <1>1. Queued' = Queued \cup {b}
    BY AppendProperties DEF Queued
  <1>2. FreeBlocks' = FreeBlocks
    BY <1>1 DEF FreeBlocks, Queued
  <1>3. Promise!Publish(Producer, b)
    BY <1>2, Owning, Holding DEF Promise!Publish, Promise!Drop
  <1> QED BY <1>3 DEF Promise!Next

\* The consumer gets the oldest published block.
LEMMA Borrowing ==
  ASSUME ReadySeq \in Seq(Blocks), ReadySeq # <<>>, Reading = {}, Reading' = {Head(ReadySeq)},
         ReadySeq' = Tail(ReadySeq), UNCHANGED <<Writing, retained, desc>>
  PROVE  Promise!Next
  <1> DEFINE s == ReadySeq
             u == Tail(s)
  <1>1. Queued = Queued' \cup {Head(ReadySeq)}
    <2>1. /\ s \in Seq(Blocks) /\ Len(s) \in Nat /\ DOMAIN s = 1 .. Len(s) /\ 1 \in 1 .. Len(s)
          /\ Head(s) = s[1]
      BY EmptySeq
    <2>2. /\ DOMAIN u = 1 .. Len(s) - 1
          /\ \A i \in 1 .. Len(s) - 1 : u[i] = s[i + 1]
      BY <2>1, HeadTailProperties
    <2>3. \A i \in 2 .. Len(s) : i - 1 \in 1 .. Len(s) - 1 /\ (i - 1) + 1 = i
      BY <2>1
    <2>4. \A i \in 1 .. Len(s) - 1 : i + 1 \in 1 .. Len(s)
      BY <2>1
    <2>5. Queued = {s[i] : i \in DOMAIN s} /\ Queued' = {u[i] : i \in DOMAIN u}
      BY DEF Queued
    <2> HIDE DEF s, u
    <2>6. \A i \in 2 .. Len(s) : s[i] = u[i - 1]
      BY <2>1, <2>2, <2>3
    <2>7. \A i \in 1 .. Len(s) : i = 1 \/ i \in 2 .. Len(s)
      BY <2>1
    <2>8. {s[i] : i \in DOMAIN s} = {u[i] : i \in DOMAIN u} \cup {s[1]}
      <3>1. \A i \in DOMAIN s : s[i] = s[1] \/ \E j \in DOMAIN u : s[i] = u[j]
        BY <2>1, <2>2, <2>3, <2>6, <2>7
      <3>2. \A j \in DOMAIN u : \E i \in DOMAIN s : u[j] = s[i]
        BY <2>1, <2>2, <2>4
      <3>3. 1 \in DOMAIN s
        BY <2>1
      <3> QED BY <3>1, <3>2, <3>3
    <2> QED BY <2>1, <2>5, <2>8 DEF s
  <1>2. FreeBlocks' = FreeBlocks
    BY <1>1 DEF FreeBlocks, Queued
  <1>3. Promise!Borrow(Consumer)
    BY <1>2, Owning, Holding DEF Promise!Borrow, Promise!Take
  <1> QED BY <1>3 DEF Promise!Next

\* The producer's block is free again.
LEMMA ReturningWrite ==
  ASSUME NEW b \in Blocks, Writing = {b}, Writing' = {}, b \notin Reading \cup retained \cup Queued,
         UNCHANGED <<Reading, ReadySeq, retained, desc>>
  PROVE  Promise!Next
  <1>1. FreeBlocks' = FreeBlocks \cup {b}
    BY DEF FreeBlocks, Queued
  <1>2. Promise!Return(Producer, "write", b)
    BY <1>1, Owning, Holding DEF Promise!Return, Promise!Drop
  <1> QED BY <1>2, Holding, Sizes DEF Promise!Next

\* The consumer's block is free again.
LEMMA ReturningRead ==
  ASSUME NEW b \in Blocks, Reading = {b}, Reading' = {}, b \notin Writing \cup retained \cup Queued,
         UNCHANGED <<Writing, ReadySeq, retained, desc>>
  PROVE  Promise!Next
  <1>1. FreeBlocks' = FreeBlocks \cup {b}
    BY DEF FreeBlocks, Queued
  <1>2. Promise!Return(Consumer, "read", b)
    BY <1>1, Owning, Holding DEF Promise!Return, Promise!Drop
  <1> QED BY <1>2, Holding, Sizes DEF Promise!Next

\* The producer's block is retained.
LEMMA AbandoningWrite ==
  ASSUME NEW b \in Blocks, Writing = {b}, Writing' = {}, retained' = retained \cup {b},
         UNCHANGED <<Reading, ReadySeq, desc>>
  PROVE  Promise!Next
  <1>1. FreeBlocks' = FreeBlocks
    BY DEF FreeBlocks
  <1>2. Promise!Abandon(Producer, "write", b)
    BY <1>1, Owning, Holding DEF Promise!Abandon, Promise!Drop
  <1> QED BY <1>2, Holding, Sizes DEF Promise!Next

\* The consumer's block is retained.
LEMMA AbandoningRead ==
  ASSUME NEW b \in Blocks, Reading = {b}, Reading' = {}, retained' = retained \cup {b},
         UNCHANGED <<Writing, ReadySeq, desc>>
  PROVE  Promise!Next
  <1>1. FreeBlocks' = FreeBlocks
    BY DEF FreeBlocks
  <1>2. Promise!Abandon(Consumer, "read", b)
    BY <1>1, Owning, Holding DEF Promise!Abandon, Promise!Drop
  <1> QED BY <1>2, Holding, Sizes DEF Promise!Next
-----------------------------------------------------------------------------
(***************************************************************************)
(* The mapped state of a reachable one.                                    *)
(***************************************************************************)

\* A retired block lies at the cursor of a poisoned connection.
LEMMA Retired ==
  ASSUME IInv
  PROVE  /\ Consumer \notin poisoned /\ Index(reclaimed) \in retained =>
              Producer \in poisoned /\ reclaimed = published
         /\ Producer \notin poisoned /\ published < reclaimed + N =>
              Index(published) \notin retained
         /\ Producer \notin poisoned /\ Index(reclaimed) \in retained => reclaimed < published
         /\ Reading # {} => Index(reclaimed) \notin retained
         /\ Writing # {} => Index(published) \notin retained
  <1>1. /\ TypeOK /\ ProducerCoherent /\ ConsumerCoherent /\ Abandonment
        /\ published \in Nat /\ reclaimed \in Nat /\ reclaimed <= published /\ N \in Nat
        /\ published - reclaimed <= N
    BY StateTypes, Sizes DEF IInv, Safe, Intact
  <1>2. published < reclaimed + N /\ Index(published) = Index(reclaimed) => published = reclaimed
    BY <1>1, OneSlot, Sizes
  <1>3. Writing # {} => /\ published < reclaimed + N
                        /\ token[Producer].owned # "none" \/ Producer \notin poisoned
    BY <1>1 DEF Writing, ProducerCoherent, Abandonment
  <1>4. Reading # {} => token[Consumer].owned # "none" /\ reclaimed < published
    BY <1>1, Borrowed DEF Reading, ConsumerCoherent
  <1>5. \A b \in retained :
          \/ /\ Consumer \in poisoned /\ token[Consumer].owned = "none"
             /\ reclaimed < published /\ b = Index(reclaimed)
          \/ /\ Producer \in poisoned /\ token[Producer].owned = "none"
             /\ published < reclaimed + N /\ b = Index(published)
    BY <1>1 DEF Abandonment
  <1> QED BY <1>1, <1>2, <1>3, <1>4, <1>5

\* Where the published blocks begin, and that no block is in two places.
LEMMA Shape ==
  ASSUME IInv
  PROVE  /\ published \in Nat /\ reclaimed \in Nat /\ reclaimed <= published
         /\ FirstReady = IF Reads THEN reclaimed + 1 ELSE reclaimed
         /\ FirstReady \in Nat /\ ReadySeq = Run(FirstReady, published)
         /\ ReadySeq \in Seq(Blocks)
         /\ Reads <=> Reading # {} \/ Index(reclaimed) \in retained
         /\ Queued = {Index(t) : t \in FirstReady .. published - 1}
         /\ Writing = {} \/ (Writing = {Index(published)} /\ published < reclaimed + N)
         /\ Reading = {} \/ (Reading = {Index(reclaimed)} /\ reclaimed < published)
         /\ Index(reclaimed) \in Blocks /\ Index(published) \in Blocks
  <1>1. /\ TypeOK /\ ProducerCoherent /\ ConsumerCoherent
        /\ published \in Nat /\ reclaimed \in Nat /\ reclaimed <= published
        /\ cursor[Producer] = published /\ cursor[Consumer] = reclaimed
    BY StateTypes, Sizes DEF IInv, Safe
  <1>2. FirstReady = (IF Reads THEN reclaimed + 1 ELSE reclaimed) /\ FirstReady \in Nat
    BY <1>1 DEF FirstReady
  <1>3. ReadySeq = Run(FirstReady, published)
    BY DEF ReadySeq, Run
  <1>4. ReadySeq \in Seq(Blocks) /\ Queued = {Index(t) : t \in FirstReady .. published - 1}
    <2>1. Run(FirstReady, published) \in Seq(Blocks)
      BY <1>1, <1>2, RunType
    <2>2. {Run(FirstReady, published)[i] : i \in DOMAIN Run(FirstReady, published)} =
            {Index(t) : t \in FirstReady .. published - 1}
      BY <1>1, <1>2, RunType
    <2> QED BY <1>3, <2>1, <2>2 DEF Queued
  <1>5. Writing = {} \/ (Writing = {Index(published)} /\ published < reclaimed + N)
    BY <1>1 DEF Writing, ProducerCoherent
  <1>6. Reading = {} \/ (Reading = {Index(reclaimed)} /\ reclaimed < published)
    BY <1>1, Borrowed DEF Reading, ConsumerCoherent
  <1>7. Reads <=> Reading # {} \/ Index(reclaimed) \in retained
    BY <1>1 DEF Reads
  <1> QED BY <1>1, <1>2, <1>3, <1>4, <1>5, <1>6, <1>7, SlotType

\* The slots at the cursors are none of those queued.
LEMMA Separate ==
  ASSUME IInv
  PROVE  /\ published < reclaimed + N => Index(published) \notin Queued
         /\ published < reclaimed + N => Index(published) \notin Reading
         /\ Reading # {} => Index(reclaimed) \notin Queued
  <1>1. /\ TypeOK /\ published \in Nat /\ reclaimed \in Nat /\ N \in Nat
        /\ published - reclaimed <= N
    BY StateTypes, Sizes DEF IInv, Safe, Intact
  <1>2. \A t \in FirstReady .. published - 1 : t \in reclaimed .. published - 1
    BY <1>1, Shape
  <1>3. published < reclaimed + N => Index(published) \notin Queued
    BY <1>1, <1>2, Shape, Apart
  <1>4. published < reclaimed + N => Index(published) \notin Reading
    <2>1. Reading # {} => reclaimed \in reclaimed .. published - 1 /\ Reading = {Index(reclaimed)}
      BY <1>1, Shape
    <2> QED BY <1>1, <2>1, Apart
  <1>5. Reading # {} => Index(reclaimed) \notin Queued
    <2> SUFFICES ASSUME Reading # {}, NEW t \in FirstReady .. published - 1,
                        Index(t) = Index(reclaimed)
                 PROVE  FALSE
      BY Shape
    <2>1. FirstReady = reclaimed + 1
      BY Shape
    <2>2. t \in Nat /\ reclaimed < t /\ t < reclaimed + N
      BY <1>1, <2>1
    <2> QED BY <1>1, <2>2, OneSlot
  <1> QED BY <1>3, <1>4, <1>5
-----------------------------------------------------------------------------
(***************************************************************************)
(* The steps of the producer.                                              *)
(***************************************************************************)
Simulated == [Promise!Next]_(Promise!vars)

\* What the consumer and the cursors contribute to the mapped state.
LEMMA Frame ==
  /\ token'[Consumer] = token[Consumer] => UNCHANGED Reading
  /\ UNCHANGED <<cursors, retained, Reading>> => UNCHANGED ReadySeq
  <1>1. token'[Consumer] = token[Consumer] => UNCHANGED Reading
    BY DEF Reading
  <1>2. ASSUME UNCHANGED <<cursors, retained, Reading>> PROVE UNCHANGED ReadySeq
    <2>1. UNCHANGED FirstReady
      BY <1>2 DEF cursors, FirstReady, Reads
    <2> QED BY <1>2, <2>1 DEF cursors, ReadySeq
  <1> QED BY <1>1, <1>2

\* A reservation takes effect at the check that finds room, a publication at
\* the store; the stamp and the commit write to the block.
LEMMA ProducerSimulated ==
  ASSUME IInv, WriteReserve \/ WriteCommit \/ WriteAbort \/ ProducerStep
  PROVE  Simulated
  <1> DEFINE P == Producer
             C == Consumer
             b == Index(published)
             Kept == UNCHANGED <<cursors, retained, desc>> /\ token'[C] = token[C]
  <1>1. /\ TypeOK /\ NoFalseAlarm /\ ProducerCoherent /\ Abandonment
        /\ P \in Endpoints /\ C \in Endpoints /\ P # C /\ P \in Procs
        /\ b \in Blocks /\ published \in Nat /\ reclaimed \in Nat /\ N \in Nat
        /\ cursor[P] = published /\ cached[P] \in Nat /\ cached[P] <= view[P]
        /\ view[P] \in Nat /\ view[P] <= reclaimed /\ reclaimed <= published
        /\ EpochCeiling \in Nat /\ TicketCeiling \in Nat
    BY StateTypes, SlotType, Sizes DEF IInv, Safe
  <1>2. /\ \A words \in NotifyLists : Leave(P, words) => Returns(P)
        /\ \A label \in Labels : Goto(P, label) => GoesTo(P, label)
        /\ UNCHANGED call => call'[P] = call[P]
        /\ Fail(P, "COUNTER") => Returns(P)
        /\ {<<>>, <<"data">>} \subseteq NotifyLists
        /\ {"load_reclaimed", "stamp", "commit", "publish"} \subseteq Labels
    BY <1>1, CallSteps DEF NotifyLists, Labels
  <1>3. Kept => UNCHANGED <<Reading, ReadySeq, retained, desc>>
    BY Frame
  <1>4. /\ token[P].owned = "write" => Writing = {b} /\ token[P].block = b
        /\ call[P].pc = "stamp" => Writing = {b}
        /\ token[P].owned = "none" /\ call[P].pc # "stamp" => Writing = {}
        /\ token'[P] = token[P] /\ token[P].owned = "write" => Writing' = Writing
        /\ token'[P].owned = "none" /\ call'[P].pc # "stamp" => Writing' = {}
        /\ token'[P].owned = "none" /\ call'[P].pc = "stamp" /\ UNCHANGED cursors => Writing' = {b}
    BY <1>1 DEF Writing, ProducerCoherent, cursors
  <1>5. ASSUME Kept, UNCHANGED Writing PROVE Simulated
    BY <1>3, <1>5, Stuttering DEF Simulated, Mapped
  <1>6. ASSUME Kept, Writing = {}, Writing' = {b}, P \notin poisoned, published < reclaimed + N
        PROVE  Simulated
    <2>1. b \in FreeBlocks
      BY <1>1, <1>6, Retired, Separate DEF FreeBlocks, Queued
    <2> QED BY <1>3, <1>6, <2>1, Reserving DEF Simulated
  <1>7. ASSUME Kept, Writing = {b}, Writing' = {} PROVE Simulated
    <2>1. b \notin Reading \cup retained \cup Queued
      BY <1>7, Shape, Retired, Separate
    <2> QED BY <1>1, <1>3, <1>7, <2>1, ReturningWrite DEF Simulated
  <1>8. ASSUME UNCHANGED <<cursors, retained, Writing>>, token'[C] = token[C], Writing = {b},
               NEW m \in Messages, desc' = [desc EXCEPT ![b] = m]
        PROVE  Simulated
    <2>1. desc \in [Blocks -> Messages]
      BY <1>1 DEF TypeOK, Messages
    <2>2. desc' \in [Blocks -> Messages] /\ \A c \in Blocks \ {b} : desc'[c] = desc[c]
      BY <1>1, <1>8, <2>1
    <2>3. UNCHANGED <<Reading, ReadySeq>>
      BY <1>8, Frame
    <2> QED BY <1>1, <1>8, <2>2, <2>3, WritingTo DEF Simulated
  <1>10. CASE WriteReserve
    <2>1. /\ token[P].owned = "none" /\ call[P].pc = "idle" /\ P \notin poisoned
          /\ Kept /\ token'[P] = token[P]
      BY <1>10 DEF WriteReserve, Ready, At, history
    <2>2. \/ Fail(P, "COUNTER")
          \/ ~Full(cached[P]) /\ Goto(P, "stamp")
          \/ Goto(P, "load_reclaimed")
      BY <1>1, <1>10 DEF WriteReserve
    <2>3. \/ Returns(P) \/ GoesTo(P, "load_reclaimed")
          \/ GoesTo(P, "stamp") /\ published < reclaimed + N
      BY <1>1, <1>2, <2>2 DEF Full
    <2>4. \/ Writing' = {} \/ (Writing' = {b} /\ published < reclaimed + N)
      BY <1>4, <2>1, <2>3 DEF Returns, GoesTo
    <2> QED BY <1>4, <1>5, <1>6, <2>1, <2>4
  <1>11. CASE WriteCommit
    <2>1. token[P].owned = "write" /\ Kept /\ token'[P] = token[P]
      BY <1>11 DEF WriteCommit, history
    <2> QED BY <1>4, <1>5, <2>1
  <1>12. CASE WriteAbort
    <2>1. /\ token[P].owned = "write" /\ call[P].pc = "idle"
          /\ token' = [token EXCEPT ![P] = NoToken] /\ UNCHANGED call
          /\ UNCHANGED <<cursors, desc, retained>>
      BY <1>1, <1>12 DEF WriteAbort, At, ProducerCoherent, history
    <2>2. token'[P].owned = "none" /\ token'[C] = token[C] /\ call'[P].pc = "idle"
      BY <1>1, <2>1 DEF TypeOK, NoToken
    <2> QED BY <1>4, <1>7, <2>1, <2>2
  <1>13. CASE LoadReclaimed
    <2>1. PICK r \in view[P] .. reclaimed :
            IF r > cursor[P] THEN Fail(P, "PROTOCOL")
            ELSE IF Full(r) THEN Leave(P, <<>>) ELSE Goto(P, "stamp")
      BY <1>13 DEF LoadReclaimed
    <2>2. /\ token[P].owned = "none" /\ call[P].pc = "load_reclaimed" /\ P \notin poisoned
          /\ Kept /\ token'[P] = token[P]
      BY <1>1, <1>13 DEF LoadReclaimed, At, ProducerCoherent, Abandonment, history
    <2>3. r \in Nat /\ r <= reclaimed /\ r <= published
      BY <1>1
    <2>4. \/ Returns(P)
          \/ GoesTo(P, "stamp") /\ published < reclaimed + N
      BY <1>1, <1>2, <2>1, <2>3 DEF Full
    <2>5. \/ Writing' = {} \/ (Writing' = {b} /\ published < reclaimed + N)
      BY <1>4, <2>2, <2>4 DEF Returns, GoesTo
    <2> QED BY <1>4, <1>5, <1>6, <2>2, <2>5
  <1>14. CASE StampEpoch
    <2> DEFINE k == desc[b].epoch + 1
    <2>1. /\ token[P].owned = "none" /\ call[P].pc = "stamp" /\ UNCHANGED <<cursors, retained>>
          /\ Writing = {b}
      BY <1>1, <1>4, <1>14 DEF StampEpoch, At, ProducerCoherent, history
    <2>2. desc \in [Blocks -> Messages] /\ k \in Nat
      BY <1>1 DEF TypeOK, Messages
    <2>3. CASE k > EpochCeiling
      <3>1. Fail(P, "COUNTER") /\ UNCHANGED <<desc, token>>
        BY <1>1, <1>14, <2>3 DEF StampEpoch
      <3>2. Writing' = {}
        BY <1>2, <1>4, <2>1, <3>1 DEF Returns
      <3> QED BY <1>7, <2>1, <3>1, <3>2
    <2>4. CASE ~(k > EpochCeiling)
      <3>1. /\ desc' = [desc EXCEPT ![b].epoch = k]
            /\ token' = [token EXCEPT ![P] = [owned |-> "write", block |-> b, epoch |-> k]]
        BY <1>1, <1>14, <2>4 DEF StampEpoch
      <3>2. token'[P].owned = "write" /\ token'[P].block = b /\ token'[C] = token[C]
        BY <1>1, <3>1 DEF TypeOK
      <3>3. Writing' = {b}
        BY <3>2 DEF Writing
      <3>4. /\ [desc[b] EXCEPT !.epoch = k] \in Messages
            /\ desc' = [desc EXCEPT ![b] = [desc[b] EXCEPT !.epoch = k]]
        BY <1>1, <2>2, <3>1 DEF Messages
      <3> QED BY <1>8, <2>1, <3>2, <3>3, <3>4
    <2> QED BY <2>3, <2>4
  <1>15. CASE CommitBlock
    <2>1. /\ token[P].owned = "write" /\ token[P].block = b /\ Writing = {b}
          /\ desc' = [desc EXCEPT ![b].meta = published]
          /\ UNCHANGED <<cursors, retained, token>>
      BY <1>1, <1>4, <1>15 DEF CommitBlock, At, ProducerCoherent, history
    <2>2. Writing' = Writing
      BY <1>4, <2>1
    <2>3. /\ [desc[b] EXCEPT !.meta = published] \in Messages
          /\ desc' = [desc EXCEPT ![b] = [desc[b] EXCEPT !.meta = published]]
      <3>1. desc \in [Blocks -> Messages]
        BY <1>1 DEF TypeOK, Messages
      <3> QED BY <1>1, <2>1, <3>1 DEF Messages
    <2> QED BY <1>8, <2>1, <2>2, <2>3
  <1>16. CASE PublishBlock
    <2>1. /\ token[P].owned = "write" /\ Writing = {b} /\ P \notin poisoned
          /\ published' = published + 1
          /\ cursor' = [cursor EXCEPT ![P] = published']
          /\ token' = [token EXCEPT ![P] = NoToken]
          /\ Leave(P, <<"data">>)
          /\ UNCHANGED <<reclaimed, retained, desc>>
      BY <1>1, <1>4, <1>16 DEF PublishBlock, At, ProducerCoherent, Abandonment, history
    <2>2. token'[P].owned = "none" /\ token'[C] = token[C] /\ cursor'[C] = cursor[C]
      BY <1>1, <2>1 DEF TypeOK, NoToken
    <2>3. Writing' = {}
      BY <1>2, <1>4, <2>1, <2>2 DEF Returns
    <2>4. UNCHANGED Reading /\ UNCHANGED FirstReady
      BY <2>1, <2>2, Frame DEF FirstReady, Reads
    <2>5. ReadySeq' = Run(FirstReady, published + 1)
      BY <2>1, <2>4 DEF ReadySeq, Run
    <2>6. FirstReady \in Nat /\ FirstReady <= published
      BY <1>1, <2>1, Shape, Retired
    <2>7. ReadySeq' = Append(ReadySeq, b) /\ ReadySeq \in Seq(Blocks)
      <3>1. ReadySeq = Run(FirstReady, published) /\ ReadySeq \in Seq(Blocks)
        BY Shape
      <3>2. Run(FirstReady, published + 1) = Append(Run(FirstReady, published), b)
        BY <1>1, <2>6, RunAppend
      <3> QED BY <2>5, <3>1, <3>2
    <2> QED BY <1>1, <2>1, <2>3, <2>4, <2>7, Publishing DEF Simulated
  <1> QED BY <1>10, <1>11, <1>12, <1>13, <1>14, <1>15, <1>16 DEF ProducerStep
-----------------------------------------------------------------------------
(***************************************************************************)
(* The steps of the consumer, and of the generation.                       *)
(***************************************************************************)
\* A borrowing takes effect when a published value is found, a release at the
\* store.
LEMMA ConsumerSimulated ==
  ASSUME IInv, ReadBorrow \/ ReadRelease \/ EnableDrain \/ ConsumerStep
  PROVE  Simulated
  <1> DEFINE P == Producer
             C == Consumer
             b == Index(reclaimed)
             Kept == /\ UNCHANGED <<published, cursor, retained, desc>>
                     /\ token'[P] = token[P] /\ call'[P] = call[P]
             Same == token'[C].owned = token[C].owned /\ token'[C].block = token[C].block
  <1>1. /\ TypeOK /\ NoFalseAlarm /\ ConsumerCoherent /\ Abandonment
        /\ P \in Endpoints /\ C \in Endpoints /\ P # C
        /\ b \in Blocks /\ published \in Nat /\ reclaimed \in Nat /\ N \in Nat
        /\ cursor[C] = reclaimed /\ cached[C] \in Nat /\ cached[C] <= view[C]
        /\ view[C] \in Nat /\ view[C] <= published /\ reclaimed <= published
        /\ published - reclaimed <= N /\ published <= TicketCeiling /\ TicketCeiling \in Nat
    BY StateTypes, SlotType, Sizes DEF IInv, Safe, Intact
  <1>2. /\ \A words \in NotifyLists : Leave(C, words) => call'[P] = call[P]
        /\ \A label : Goto(C, label) => call'[P] = call[P]
        /\ \A r \in FailureReasons : Fail(C, r) => call'[P] = call[P]
        /\ {<<>>, <<"space">>} \subseteq NotifyLists
        /\ {"INTEGRITY", "PROTOCOL", "COUNTER"} \subseteq FailureReasons
    <2>1. P \in Endpoints \ {C}
      BY <1>1
    <2>2. \A label : Goto(C, label) => call'[P] = call[P]
      <3>1. P \in Procs /\ call \in [Procs -> Calls]
        BY <1>1, Sizes DEF TypeOK, Calls
      <3> QED BY <1>1, <3>1 DEF Goto
    <2>3. /\ {<<>>, <<"space">>} \subseteq NotifyLists
          /\ {"INTEGRITY", "PROTOCOL", "COUNTER"} \subseteq FailureReasons
      BY DEF NotifyLists, FailureReasons
    <2> QED BY <1>1, <2>1, <2>2, <2>3, Poisoning
  <1>3. UNCHANGED cursor /\ token'[P] = token[P] /\ call'[P] = call[P] => UNCHANGED Writing
    BY DEF Writing
  <1>4. ASSUME Kept, UNCHANGED reclaimed, Same PROVE Simulated
    <2>1. UNCHANGED Reading
      BY <1>4 DEF Reading
    <2>2. UNCHANGED ReadySeq
      BY <1>4, <2>1, Frame DEF cursors
    <2> QED BY <1>3, <1>4, <2>1, <2>2, Stuttering DEF Simulated, Mapped
  \* A value between the cursors is found in the cache or loaded.
  <1>5. ASSUME NEW pub \in Nat, BorrowAt(pub), reclaimed <= pub, pub <= published,
               token[C].owned = "none", C \notin poisoned,
               UNCHANGED <<cursors, desc, retained>>
        PROVE  Simulated
    <2>1. CASE pub = reclaimed
      <3>1. Leave(C, <<>>) /\ UNCHANGED token
        BY <1>1, <1>5, <2>1 DEF BorrowAt
      <3> QED BY <1>2, <1>4, <1>5, <3>1 DEF cursors
    <2>2. CASE pub # reclaimed
      <3>1. /\ token' = [token EXCEPT ![C] = [owned |-> "read", block |-> b, epoch |-> 0]]
            /\ Goto(C, "metadata")
        BY <1>1, <1>5, <2>2 DEF BorrowAt
      <3>2. /\ token'[C].owned = "read" /\ token'[C].block = b /\ token'[P] = token[P]
            /\ call'[P] = call[P]
        BY <1>1, <1>2, <3>1 DEF TypeOK
      <3>3. Reading = {} /\ Reading' = {b} /\ UNCHANGED Writing
        BY <1>3, <1>5, <3>2 DEF Reading, cursors
      <3>4. reclaimed < published
        BY <1>1, <1>5, <2>2
      <3>5. FirstReady = reclaimed /\ ~Reads
        BY <1>1, <1>5, <3>3, <3>4, Shape, Retired
      <3>6. FirstReady' = reclaimed + 1
        BY <1>1, <1>5, <3>3 DEF FirstReady, Reads, cursors
      <3>7. ReadySeq = Run(reclaimed, published) /\ ReadySeq' = Run(reclaimed + 1, published)
        BY <1>5, <3>5, <3>6, Shape DEF ReadySeq, Run, cursors
      <3>8. /\ ReadySeq # <<>> /\ Head(ReadySeq) = b /\ ReadySeq' = Tail(ReadySeq)
            /\ ReadySeq \in Seq(Blocks)
        BY <1>1, <3>4, <3>7, RunTail, Shape
      <3> QED BY <1>5, <3>3, <3>8, Borrowing DEF Simulated
    <2> QED BY <2>1, <2>2
  <1>10. CASE ReadBorrow
    <2>1. /\ token[C].owned = "none" /\ C \notin poisoned
          /\ UNCHANGED <<cursors, desc, retained>>
      BY <1>10 DEF ReadBorrow, ReadyToDrain, Ready, history
    <2>2. CASE cached[C] > cursor[C]
      <3>1. BorrowAt(cached[C])
        BY <1>10, <2>2 DEF ReadBorrow
      <3>2. reclaimed <= cached[C] /\ cached[C] <= published
        BY <1>1, <2>2
      <3> QED BY <1>1, <1>5, <2>1, <3>1, <3>2
    <2>3. CASE ~(cached[C] > cursor[C])
      <3>1. Goto(C, "load_published") /\ UNCHANGED token
        BY <1>10, <2>3 DEF ReadBorrow
      <3> QED BY <1>2, <1>4, <2>1, <3>1 DEF cursors
    <2> QED BY <2>2, <2>3
  <1>11. CASE LoadPublished
    <2>1. PICK pub \in view[C] .. published : BorrowAt(pub)
      BY <1>11 DEF LoadPublished
    <2>2. /\ token[C].owned = "none" /\ C \notin poisoned /\ reclaimed <= view[C]
          /\ UNCHANGED <<cursors, desc, retained>>
      BY <1>1, <1>11 DEF LoadPublished, At, ConsumerCoherent, Abandonment, history
    <2>3. pub \in Nat /\ reclaimed <= pub /\ pub <= published
      BY <1>1, <2>2
    <2> QED BY <1>5, <2>1, <2>2, <2>3
  <1>12. CASE ReadMetadata
    <2>1. /\ \E k : token' = [token EXCEPT ![C].epoch = k]
          /\ Leave(C, <<>>) \/ Fail(C, "INTEGRITY")
          /\ UNCHANGED <<cursors, desc, retained>>
      BY <1>12 DEF ReadMetadata, history
    <2>2. Same /\ token'[P] = token[P]
      BY <1>1, <2>1 DEF TypeOK
    <2> QED BY <1>2, <1>4, <2>1, <2>2 DEF cursors
  <1>13. CASE ReadRelease
    BY <1>2, <1>4, <1>13 DEF ReadRelease, cursors, history
  <1>14. CASE EnableDrain
    BY <1>4, <1>14 DEF EnableDrain, cursors, history
  <1>15. CASE ReleaseBlock
    <2>1. /\ token[C].owned = "read" /\ token[C].block = b /\ SameEpoch(C) /\ C \notin poisoned
      BY <1>1, <1>15 DEF ReleaseBlock, At, ConsumerCoherent, Abandonment
    <2>2. /\ reclaimed' = reclaimed + 1
          /\ cursor' = [cursor EXCEPT ![C] = reclaimed']
          /\ token' = [token EXCEPT ![C] = NoToken]
          /\ Leave(C, <<"space">>)
          /\ UNCHANGED <<published, desc, retained>>
      BY <1>1, <1>15, <2>1 DEF ReleaseBlock, history
    <2>3. /\ token'[C].owned = "none" /\ token'[P] = token[P] /\ cursor'[P] = cursor[P]
          /\ cursor'[C] = reclaimed + 1 /\ call'[P] = call[P]
      BY <1>1, <1>2, <2>2 DEF TypeOK, NoToken
    <2>4. Reading = {b} /\ Reading' = {} /\ UNCHANGED Writing
      BY <2>1, <2>3 DEF Reading, Writing
    <2>5. /\ reclaimed < published /\ FirstReady = reclaimed + 1
          /\ ReadySeq = Run(reclaimed + 1, published)
      BY <1>1, <2>4, Shape
    <2>6. /\ Index(reclaimed + 1) \in retained => reclaimed + 1 = published
          /\ FirstReady' = IF Index(reclaimed + 1) \in retained THEN reclaimed + 2
                                                                ELSE reclaimed + 1
      <3>1. Index(reclaimed + 1) \in retained =>
              published < reclaimed + N /\ Index(reclaimed + 1) = Index(published)
        BY <1>1, <2>1 DEF Abandonment
      <3>2. published < reclaimed + N /\ Index(reclaimed + 1) = Index(published)
              => reclaimed + 1 = published
        BY <1>1, <2>5, OneSlot
      <3>3. FirstReady' = reclaimed + 1 + (IF Index(reclaimed + 1) \in retained THEN 1 ELSE 0)
        BY <2>2, <2>3, <2>4 DEF FirstReady, Reads
      <3> QED BY <1>1, <3>1, <3>2, <3>3
    <2>7. UNCHANGED ReadySeq
      <3>1. ReadySeq' = Run(FirstReady', published)
        BY <2>2 DEF ReadySeq, Run
      <3>2. CASE Index(reclaimed + 1) \in retained
        <4>1. Run(reclaimed + 1, published) = <<>> /\ Run(reclaimed + 2, published) = <<>>
          <5>1. /\ reclaimed + 1 \in Nat /\ reclaimed + 2 \in Nat
                /\ published <= reclaimed + 1 /\ published <= reclaimed + 2
            BY <1>1, <2>6, <3>2
          <5> QED BY <1>1, <5>1, RunType
        <4> QED BY <2>5, <2>6, <3>1, <3>2, <4>1
      <3> QED BY <2>5, <2>6, <3>1, <3>2
    <2>8. b \notin Writing \cup retained \cup Queued
      BY <1>1, <2>4, <2>5, Shape, Retired, Separate
    <2> QED BY <1>1, <2>2, <2>4, <2>7, <2>8, ReturningRead DEF Simulated
  <1> QED BY <1>10, <1>11, <1>12, <1>13, <1>14, <1>15 DEF ConsumerStep

\* Abandonment, retirement and death.
LEMMA OthersSimulated ==
  ASSUME IInv,
         \/ \E e \in Endpoints : AbandonRetained(e)
         \/ \E p \in Retirers, r \in Reasons : Retire(p, r)
         \/ \E e \in Crashable : Crash(e)
         \/ UNCHANGED vars
  PROVE  Simulated
  <1> DEFINE P == Producer
             C == Consumer
  <1>1. /\ TypeOK /\ NoFalseAlarm /\ ProducerCoherent /\ ConsumerCoherent
        /\ Endpoints = {P, C} /\ P # C /\ Endpoints \subseteq Procs
        /\ published \in Nat /\ reclaimed \in Nat /\ N \in Nat /\ reclaimed <= published
        /\ cursor[P] = published /\ cursor[C] = reclaimed
    BY StateTypes, Sizes DEF IInv, Safe
  <1>2. ASSUME UNCHANGED <<cursors, retained, desc, token>>,
               \/ call'[P] = call[P]
               \/ call[P].pc # "stamp" /\ call'[P].pc # "stamp"
        PROVE  Simulated
    <2>1. UNCHANGED <<Writing, Reading>>
      BY <1>2 DEF Writing, Reading, cursors
    <2> QED BY <1>2, <2>1, Frame, Stuttering DEF Simulated, Mapped
  <1>3. ASSUME AbandonRetained(P) PROVE Simulated
    <2> DEFINE b == Index(published)
    <2>1. /\ token[P].owned = "write" /\ token[P].block = b /\ published < reclaimed + N
          /\ call[P].pc = "idle"
          /\ token' = [token EXCEPT ![P] = NoToken] /\ retained' = retained \cup {b}
          /\ UNCHANGED <<cursors, desc, call>>
      BY <1>1, <1>3 DEF AbandonRetained, At, ProducerCoherent
    <2>2. token'[P].owned = "none" /\ token'[C] = token[C]
      BY <1>1, <2>1 DEF TypeOK, NoToken
    <2>3. Writing = {b} /\ Writing' = {} /\ UNCHANGED Reading
      BY <2>1, <2>2 DEF Writing, Reading
    <2>4. UNCHANGED ReadySeq
      <3>1. b = Index(reclaimed) => published = reclaimed
        BY <1>1, <2>1, OneSlot, Sizes
      <3>2. ReadySeq' = Run(FirstReady', published)
        BY <2>1 DEF ReadySeq, Run, cursors
      <3>3. CASE b # Index(reclaimed)
        <4>1. UNCHANGED FirstReady
          BY <1>1, <2>1, <2>3, <3>3 DEF FirstReady, Reads, cursors
        <4> QED BY <3>2, <4>1, Shape
      <3>4. CASE published = reclaimed
        <4>1. {FirstReady, FirstReady'} \subseteq {published, published + 1}
          BY <1>1, <2>1, <3>4 DEF FirstReady, cursors
        <4>2. Run(published, published) = <<>> /\ Run(published + 1, published) = <<>>
          <5>1. published + 1 \in Nat /\ published <= published /\ published <= published + 1
            BY <1>1
          <5> QED BY <1>1, <5>1, RunType
        <4> QED BY <3>2, <4>1, <4>2, Shape
      <3> QED BY <3>1, <3>3, <3>4
    <2> QED BY <2>1, <2>3, <2>4, Shape, AbandoningWrite DEF Simulated
  <1>4. ASSUME AbandonRetained(C) PROVE Simulated
    <2> DEFINE b == Index(reclaimed)
    <2>1. /\ token[C].owned = "read" /\ token[C].block = b
          /\ token' = [token EXCEPT ![C] = NoToken] /\ retained' = retained \cup {b}
          /\ UNCHANGED <<cursors, desc, call>>
      BY <1>1, <1>4 DEF AbandonRetained, At, ConsumerCoherent
    <2>2. token'[C].owned = "none" /\ token'[P] = token[P]
      BY <1>1, <2>1 DEF TypeOK, NoToken
    <2>3. Reading = {b} /\ Reading' = {} /\ UNCHANGED Writing
      BY <2>1, <2>2 DEF Writing, Reading, cursors
    <2>4. UNCHANGED ReadySeq
      <3>1. Reads /\ Reads'
        BY <1>1, <2>1, <2>3 DEF Reads, cursors
      <3>2. UNCHANGED FirstReady
        BY <2>1, <3>1 DEF FirstReady, cursors
      <3> QED BY <2>1, <3>2 DEF ReadySeq, cursors
    <2> QED BY <2>1, <2>3, <2>4, Shape, AbandoningRead DEF Simulated
  <1>5. ASSUME NEW p \in Retirers, NEW r \in Reasons, Retire(p, r) PROVE Simulated
    <2>1. /\ p \in Procs /\ call[p].pc = "idle" /\ Leave(p, <<"data", "space">>)
          /\ UNCHANGED <<cursors, retained, desc, token>>
      BY <1>5, Sizes DEF Retire, At, history
    <2>2. Returns(p)
      BY <1>1, <2>1, CallSteps DEF NotifyLists
    <2>3. call'[P] = call[P] \/ (call[P].pc # "stamp" /\ call'[P].pc # "stamp")
      BY <1>1, <2>1, <2>2 DEF Returns, Moves
    <2> QED BY <1>2, <2>1, <2>3
  <1>6. ASSUME NEW e \in Crashable, Crash(e) PROVE Simulated
    BY <1>2, <1>6 DEF Crash
  <1>7. CASE UNCHANGED vars
    BY <1>2, <1>7 DEF vars, history
  <1> QED BY <1>1, <1>3, <1>4, <1>5, <1>6, <1>7
-----------------------------------------------------------------------------
(***************************************************************************)
(* The theorem.                                                            *)
(***************************************************************************)

\* At first every block is free, and nothing is published.
LEMMA InitSimulated == Init => Promise!Init
  <1> SUFFICES ASSUME Init PROVE Promise!Init
    OBVIOUS
  <1>1. IInv /\ published = 0 /\ reclaimed = 0 /\ retained = {}
    BY InitInvariant DEF Init
  <1>2. Writing = {} /\ Reading = {}
    BY Sizes DEF Init, Writing, Reading, NoToken, NoCall
  <1>3. ReadySeq = <<>>
    <2>1. FirstReady = 0
      BY <1>1, <1>2, Shape
    <2> QED BY <1>1, <2>1, Shape, RunType
  <1>4. FreeBlocks = Blocks
    <2>1. Queued = {}
      BY <1>3 DEF Queued
    <2> QED BY <1>1, <1>2, <2>1 DEF FreeBlocks, Queued
  <1>5. Holders = [e \in Promise!Endpoints |-> Promise!NoToken]
    BY <1>2, Holding, Owning DEF Holders
  <1>6. desc \in [Blocks -> Messages]
    BY DEF Init, Messages
  <1> QED BY <1>1, <1>3, <1>4, <1>5, <1>6 DEF Promise!Init

\* Every SPSC ring implements the channel: each step of el_spsc_reserve,
\* el_spsc_commit, el_spsc_borrow, el_spsc_release, of an abort or an
\* abandonment takes effect at one instant as one step of it, under stale
\* loads, retirement and death.
THEOREM Implementation == Spec => ImplementsChannel
  <1>1. IInv /\ [Next]_vars => Simulated
    BY ProducerSimulated, ConsumerSimulated, OthersSimulated DEF Next
  <1> QED BY <1>1, InitSimulated, Invariance, PTL
          DEF Spec, Simulated, ImplementsChannel, Promise!Spec
=============================================================================
