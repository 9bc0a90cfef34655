--------------------------- MODULE SpscParkProofs ---------------------------
(***************************************************************************)
(* Parking on the SPSC layout, for every capacity, every choice of who     *)
(* retires and who dies, and every staleness of the loads: no wake-up is   *)
(* lost and none is spurious, and a ring whose endpoints also wait and     *)
(* wake still has everything that SpscProofs shows of one whose endpoints  *)
(* only poll.                                                              *)
(***************************************************************************)
EXTENDS SpscPark, SpscProofs

(***************************************************************************)
(* The inductive invariant.  An endpoint that has armed its word has seen  *)
(* what the last notification of that word released, or somebody is still  *)
(* to notify it; that is why an exchange of a word that is 0 already must  *)
(* not be left out.                                                        *)
(***************************************************************************)
Other(e) == IF e = Producer THEN Consumer ELSE Producer

\* p is still to exchange the word of e; p is about to wake e.
Pending(p, e) ==
  \/ call[p].pc = "notify" /\ \E i \in DOMAIN call[p].notify : call[p].notify[i] = Word(e)
  \/ /\ call[p].pc = "wake"
     /\ \E i \in DOMAIN Tail(call[p].notify) : Tail(call[p].notify)[i] = Word(e)
Waking(p, e) == call[p].pc = "wake" /\ Head(call[p].notify) = Word(e)

ParkTypes ==
  /\ word \in [Words -> {0, 1}]
  /\ carried \in [Words -> [peer : Nat, retired : BOOLEAN]]
  /\ \A e \in Endpoints : carried[Word(e)].peer <= Peer(e)
  /\ \A p \in Procs : call[p].pc \in {"notify", "wake"} => call[p].notify # <<>>
  /\ aware # {} => gate # "READY"
  /\ \A w \in Words : carried[w].retired => gate # "READY"
  /\ asleep \subseteq Endpoints

\* Whatever the last notification has not released is still to be notified.
Carries(e) ==
  /\ carried[Word(e)].peer < Peer(e) => Pending(Other(e), e)
  /\ gate # "READY" /\ ~carried[Word(e)].retired => \E p \in aware : Pending(p, e)

\* The same of what a waiter with an armed word has not seen.
Guarded(e) ==
  call[e].pc \in {"recheck", "sleep", "asleep"} /\ word[Word(e)] = 1 =>
    /\ view[e] < Peer(e) => Pending(Other(e), e)
    /\ gate # "READY" /\ e \notin aware => \E p \in aware : Pending(p, e)

\* It sleeps on what it has seen, on a word that is armed or about to wake it.
Resting(e) ==
  /\ call[e].pc \in {"sleep", "asleep"} => ~Available(e, view[e]) /\ e \notin aware
  /\ e \in asleep => /\ call[e].pc = "asleep"
                     /\ word[Word(e)] = 1 \/ \E p \in Procs : Waking(p, e)

Armed(e) == word[Word(e)] = 1 => call[e].pc \in ArmedLabels

Coherent(e) == Carries(e) /\ Guarded(e) /\ Resting(e) /\ Armed(e)
ParkInv == IInv /\ ParkTypes /\ \A e \in Endpoints : Coherent(e)
-----------------------------------------------------------------------------
(***************************************************************************)
(* Names, words and lists.                                                 *)
(***************************************************************************)

\* Each endpoint has a word of its own; the manager has none.
LEMMA Names ==
  /\ Endpoints = {Producer, Consumer} /\ Producer # Consumer
  /\ Authority \in Procs /\ Authority \notin Endpoints /\ Procs = Endpoints \cup {Authority}
  /\ \A e \in Endpoints : Word(e) \in Words /\ Waiter(Word(e)) = e /\ Other(e) \in Endpoints
                          /\ Other(e) # e /\ \A x \in Endpoints : x # e => Word(x) # Word(e) /\ x = Other(e)
  /\ \A w \in Words : Waiter(w) \in Endpoints /\ Word(Waiter(w)) = w
  /\ Peer(Producer) = reclaimed /\ Peer(Consumer) = published
  /\ Peer(Producer)' = reclaimed' /\ Peer(Consumer)' = published'
  BY SpscAssumption DEF Endpoints, Procs, Words, Word, Waiter, Other, Peer

\* A list of notifications names a word once, and the rest of it the others.
LEMMA ListSteps ==
  ASSUME NEW l \in NotifyLists, l # <<>>
  PROVE  /\ Head(l) \in Words /\ Tail(l) \in NotifyLists
         /\ \A w \in Words : w # Head(l) /\ (\E i \in DOMAIN l : l[i] = w)
                               => \E i \in DOMAIN Tail(l) : Tail(l)[i] = w
         /\ \E i \in DOMAIN l : l[i] = Head(l)
  <1>1. CASE l = <<"data">>
    BY <1>1 DEF Words, NotifyLists
  <1>2. CASE l = <<"space">>
    BY <1>2 DEF Words, NotifyLists
  <1>3. CASE l = <<"data", "space">>
    BY <1>3 DEF Words, NotifyLists
  <1> QED BY <1>1, <1>2, <1>3 DEF NotifyLists

\* The calls of a typed state.
LEMMA CallTypes ==
  ASSUME TypeOK
  PROVE  call \in [Procs -> Calls] /\ \A p \in Procs : call[p].notify \in NotifyLists
  BY DEF TypeOK, Calls
-----------------------------------------------------------------------------
(***************************************************************************)
(* The steps that poll: the calls of Spsc.                                 *)
(***************************************************************************)

PollLabels == {"idle", "load_reclaimed", "stamp", "commit", "publish",
               "load_published", "metadata", "release"}

\* The call of p moves on to a label of Spsc, or returns.
Polls(p) ==
  /\ \A x \in Procs \ {p} : call'[x] = call[x]
  /\ call'[p].pc \notin WaitLabels \cup {"wake"}
  /\ call'[p].pc = "notify" => call'[p].notify # <<>>

\* What a step of Spsc by p may do: a cursor that moves and a generation that
\* retires leave their notifications to be delivered.
Deed(p) ==
  /\ Polls(p)
  /\ call[p].pc \notin WaitLabels \cup {"notify", "wake"}
  /\ \A x \in Endpoints \ {p} : view'[x] = view[x]
  /\ \/ UNCHANGED control
     \/ gate' # "READY" /\ aware' = aware \cup {p} /\ \A e \in Endpoints : Pending(p, e)'
  /\ published' # published =>
       p = Producer /\ published <= published' /\ Pending(Producer, Consumer)'
  /\ reclaimed' # reclaimed =>
       p = Consumer /\ reclaimed <= reclaimed' /\ Pending(Consumer, Producer)'

\* A call that goes on to such a label, and one that returns.
LEMMA Polling ==
  ASSUME TypeOK, NEW p \in Procs
  PROVE  /\ \A label \in PollLabels : Goto(p, label) => Polls(p)
         /\ \A words \in NotifyLists : Leave(p, words) => Polls(p)
         /\ Leave(p, <<"data", "space">>) => \A e \in Endpoints : Pending(p, e)'
         /\ Leave(p, <<"data">>) => Pending(p, Consumer)'
         /\ Leave(p, <<"space">>) => Pending(p, Producer)'
         /\ UNCHANGED call /\ call[p].pc = "idle" => Polls(p)
  <1>1. call \in [Procs -> Calls]
    BY CallTypes
  <1>2. ASSUME NEW label \in PollLabels, Goto(p, label) PROVE Polls(p)
    BY <1>1, <1>2 DEF Goto, Polls, PollLabels, WaitLabels, Calls
  <1>3. ASSUME NEW words \in NotifyLists, Leave(p, words)
        PROVE  /\ Polls(p)
               /\ words # <<>> => call'[p].pc = "notify" /\ call'[p].notify = words
    BY <1>1, <1>3, ParkAssumption DEF Leave, Polls, WaitLabels, NoCall
  <1>4. {<<"data">>, <<"space">>, <<"data", "space">>} \subseteq NotifyLists
    BY DEF NotifyLists
  <1>5. /\ \E i \in DOMAIN <<"data", "space">> : <<"data", "space">>[i] = "data"
        /\ \E i \in DOMAIN <<"data", "space">> : <<"data", "space">>[i] = "space"
        /\ \E i \in DOMAIN <<"data">> : <<"data">>[i] = "data"
        /\ \E i \in DOMAIN <<"space">> : <<"space">>[i] = "space"
    <2>1. 1 \in DOMAIN <<"data", "space">> /\ 2 \in DOMAIN <<"data", "space">>
          /\ 1 \in DOMAIN <<"data">> /\ 1 \in DOMAIN <<"space">>
      OBVIOUS
    <2> QED BY <2>1
  <1>6. \A e \in Endpoints : Word(e) \in {"data", "space"}
    BY DEF Word
  <1>7. Word(Consumer) = "data" /\ Word(Producer) = "space"
    BY Names DEF Word
  <1>8. Leave(p, <<"data", "space">>) => \A e \in Endpoints : Pending(p, e)'
    BY <1>3, <1>4, <1>5, <1>6 DEF Pending, Word
  <1>9. Leave(p, <<"data">>) => Pending(p, Consumer)'
    BY <1>3, <1>4, <1>5, <1>7 DEF Pending, Word
  <1>10. Leave(p, <<"space">>) => Pending(p, Producer)'
    BY <1>3, <1>4, <1>5, <1>7 DEF Pending, Word
  <1>11. UNCHANGED call /\ call[p].pc = "idle" => Polls(p)
    BY DEF Polls, WaitLabels
  <1> QED BY <1>2, <1>3, <1>8, <1>9, <1>10, <1>11

\* The steps of the producer, of the consumer, and of the rest.
LEMMA ProducerDeeds ==
  ASSUME TypeOK, WriteReserve \/ WriteCommit \/ WriteAbort \/ ProducerStep
  PROVE  Deed(Producer)
  <1> DEFINE P == Producer
  <1>1. /\ P \in Procs /\ P \in Endpoints /\ P # Consumer /\ Endpoints \ {P} = {Consumer}
        /\ {<<>>, <<"data">>, <<"data", "space">>} \subseteq NotifyLists
        /\ published \in Nat /\ cursor[P] = published
        /\ view \in [Endpoints -> 0 .. TicketCeiling]
    <2>1. /\ published \in Nat /\ cursor[P] = published
          /\ view \in [Endpoints -> 0 .. TicketCeiling]
      BY Sizes, StateTypes DEF TypeOK
    <2> QED BY <2>1, Names DEF NotifyLists
  <1>2. /\ \A label \in PollLabels : Goto(P, label) => Polls(P)
        /\ \A words \in NotifyLists : Leave(P, words) => Polls(P)
        /\ Leave(P, <<"data", "space">>) => \A e \in Endpoints : Pending(P, e)'
        /\ Leave(P, <<"data">>) => Pending(P, Consumer)'
        /\ UNCHANGED call /\ call[P].pc = "idle" => Polls(P)
    BY <1>1, Polling
  <1>3. \A r : Fail(P, r) => /\ Polls(P) /\ gate' # "READY" /\ aware' = aware \cup {P}
                             /\ \A e \in Endpoints : Pending(P, e)'
    BY <1>1, <1>2 DEF Fail, RetireRaw
  <1> DEFINE Held == call[P].pc \notin WaitLabels \cup {"notify", "wake"}
             Safely == Polls(P) /\ (\/ UNCHANGED control
                                    \/ /\ gate' # "READY" /\ aware' = aware \cup {P}
                                       /\ \A e \in Endpoints : Pending(P, e)')
  <1>4. /\ \A label \in PollLabels : At(P, label) => Held
        /\ {"idle", "load_reclaimed", "stamp", "commit", "publish"} \subseteq PollLabels
    BY DEF At, PollLabels, WaitLabels
  <1>5. ASSUME Held, Safely, UNCHANGED <<published, reclaimed>>, view'[Consumer] = view[Consumer]
        PROVE  Deed(P)
    BY <1>1, <1>5 DEF Deed
  <1>10. CASE WriteReserve
    <2>1. Held /\ UNCHANGED <<published, reclaimed>> /\ view'[Consumer] = view[Consumer]
      BY <1>4, <1>10 DEF WriteReserve, cursors, loads
    <2>2. Safely
      BY <1>2, <1>3, <1>4, <1>10 DEF WriteReserve
    <2> QED BY <1>5, <2>1, <2>2
  <1>11. CASE WriteCommit
    <2>1. Held /\ UNCHANGED <<published, reclaimed>> /\ view'[Consumer] = view[Consumer]
      BY <1>4, <1>11 DEF WriteCommit, cursors, loads
    <2>2. Safely
      BY <1>2, <1>3, <1>4, <1>11 DEF WriteCommit
    <2> QED BY <1>5, <2>1, <2>2
  <1>12. CASE WriteAbort
    <2>1. Held /\ UNCHANGED <<published, reclaimed>> /\ view'[Consumer] = view[Consumer]
      BY <1>4, <1>12 DEF WriteAbort, cursors, loads
    <2>2. Safely
      BY <1>2, <1>3, <1>4, <1>12 DEF WriteAbort, At
    <2> QED BY <1>5, <2>1, <2>2
  <1>13. CASE LoadReclaimed
    <2>1. Held /\ UNCHANGED <<published, reclaimed>> /\ view'[Consumer] = view[Consumer]
      BY <1>1, <1>4, <1>13 DEF LoadReclaimed, cursors
    <2>2. Safely
      BY <1>1, <1>2, <1>3, <1>4, <1>13 DEF LoadReclaimed
    <2> QED BY <1>5, <2>1, <2>2
  <1>14. CASE StampEpoch
    <2>1. Held /\ UNCHANGED <<published, reclaimed>> /\ view'[Consumer] = view[Consumer]
      BY <1>4, <1>14 DEF StampEpoch, cursors, loads
    <2>2. Safely
      BY <1>1, <1>2, <1>3, <1>4, <1>14 DEF StampEpoch
    <2> QED BY <1>5, <2>1, <2>2
  <1>15. CASE CommitBlock
    <2>1. Held /\ UNCHANGED <<published, reclaimed>> /\ view'[Consumer] = view[Consumer]
      BY <1>4, <1>15 DEF CommitBlock, cursors, loads
    <2>2. Safely
      BY <1>2, <1>3, <1>4, <1>15 DEF CommitBlock
    <2> QED BY <1>5, <2>1, <2>2
  <1>16. CASE PublishBlock
    <2>1. Held /\ UNCHANGED <<control, reclaimed>> /\ view'[Consumer] = view[Consumer]
      BY <1>4, <1>16 DEF PublishBlock, loads
    <2>2. published' = published + 1 /\ Leave(P, <<"data">>)
      BY <1>1, <1>16 DEF PublishBlock
    <2>3. Polls(P) /\ Pending(P, Consumer)'
      BY <1>1, <1>2, <2>2
    <2> QED BY <1>1, <2>1, <2>2, <2>3 DEF Deed
  <1> QED BY <1>10, <1>11, <1>12, <1>13, <1>14, <1>15, <1>16 DEF ProducerStep

LEMMA ConsumerDeeds ==
  ASSUME TypeOK, ReadBorrow \/ ReadRelease \/ ConsumerStep
  PROVE  Deed(Consumer)
  <1> DEFINE C == Consumer
  <1>1. /\ C \in Procs /\ C \in Endpoints /\ C # Producer /\ Endpoints \ {C} = {Producer}
        /\ {<<>>, <<"space">>, <<"data", "space">>} \subseteq NotifyLists
        /\ reclaimed \in Nat /\ cursor[C] = reclaimed
        /\ view \in [Endpoints -> 0 .. TicketCeiling]
    <2>1. /\ reclaimed \in Nat /\ cursor[C] = reclaimed
          /\ view \in [Endpoints -> 0 .. TicketCeiling]
      BY Sizes, StateTypes DEF TypeOK
    <2> QED BY <2>1, Names DEF NotifyLists
  <1>2. /\ \A label \in PollLabels : Goto(C, label) => Polls(C)
        /\ \A words \in NotifyLists : Leave(C, words) => Polls(C)
        /\ Leave(C, <<"data", "space">>) => \A e \in Endpoints : Pending(C, e)'
        /\ Leave(C, <<"space">>) => Pending(C, Producer)'
    BY <1>1, Polling
  <1>3. \A r : Fail(C, r) => /\ Polls(C) /\ gate' # "READY" /\ aware' = aware \cup {C}
                             /\ \A e \in Endpoints : Pending(C, e)'
    BY <1>1, <1>2 DEF Fail, RetireRaw
  <1> DEFINE Held == call[C].pc \notin WaitLabels \cup {"notify", "wake"}
             Safely == Polls(C) /\ (\/ UNCHANGED control
                                    \/ /\ gate' # "READY" /\ aware' = aware \cup {C}
                                       /\ \A e \in Endpoints : Pending(C, e)')
  <1>4. /\ \A label \in PollLabels : At(C, label) => Held
        /\ {"idle", "load_published", "metadata", "release"} \subseteq PollLabels
    BY DEF At, PollLabels, WaitLabels
  <1>5. ASSUME Held, Safely, UNCHANGED <<published, reclaimed>>, view'[Producer] = view[Producer]
        PROVE  Deed(C)
    BY <1>1, <1>5 DEF Deed
  <1>6. \A pub : BorrowAt(pub) => Safely
    <2> SUFFICES ASSUME NEW pub, BorrowAt(pub) PROVE Safely
      OBVIOUS
    <2>1. \/ Fail(C, "PROTOCOL") \/ Fail(C, "COUNTER")
          \/ UNCHANGED control /\ (Leave(C, <<>>) \/ Goto(C, "metadata"))
      BY DEF BorrowAt
    <2>2. <<>> \in NotifyLists /\ "metadata" \in PollLabels
      BY <1>1, <1>4
    <2> QED BY <1>2, <1>3, <2>1, <2>2
  <1>10. CASE ReadBorrow
    <2>1. Held /\ UNCHANGED <<published, reclaimed>> /\ view'[Producer] = view[Producer]
      BY <1>4, <1>10 DEF ReadBorrow, cursors, loads
    <2>2. Safely
      BY <1>2, <1>4, <1>6, <1>10 DEF ReadBorrow
    <2> QED BY <1>5, <2>1, <2>2
  <1>11. CASE LoadPublished
    <2>1. Held /\ UNCHANGED <<published, reclaimed>> /\ view'[Producer] = view[Producer]
      BY <1>1, <1>4, <1>11 DEF LoadPublished, cursors
    <2>2. Safely
      BY <1>6, <1>11 DEF LoadPublished
    <2> QED BY <1>5, <2>1, <2>2
  <1>12. CASE ReadMetadata
    <2>1. Held /\ UNCHANGED <<published, reclaimed>> /\ view'[Producer] = view[Producer]
      BY <1>4, <1>12 DEF ReadMetadata, cursors, loads
    <2>2. Safely
      BY <1>1, <1>2, <1>3, <1>4, <1>12 DEF ReadMetadata
    <2> QED BY <1>5, <2>1, <2>2
  <1>13. CASE ReadRelease
    <2>1. Held /\ UNCHANGED <<published, reclaimed>> /\ view'[Producer] = view[Producer]
      BY <1>4, <1>13 DEF ReadRelease, cursors, loads
    <2>2. Safely
      BY <1>2, <1>4, <1>13 DEF ReadRelease
    <2> QED BY <1>5, <2>1, <2>2
  <1>14. CASE ReleaseBlock
    <2>1. Held /\ UNCHANGED published /\ view'[Producer] = view[Producer]
      BY <1>4, <1>14 DEF ReleaseBlock, loads
    <2>2. CASE SameEpoch(C)
      <3>1. reclaimed' = reclaimed + 1 /\ Leave(C, <<"space">>) /\ UNCHANGED control
        BY <1>1, <1>14, <2>2 DEF ReleaseBlock
      <3>2. Polls(C) /\ Pending(C, Producer)'
        BY <1>1, <1>2, <3>1
      <3> QED BY <1>1, <2>1, <3>1, <3>2 DEF Deed
    <2>3. CASE ~SameEpoch(C)
      <3>1. Safely /\ UNCHANGED reclaimed
        BY <1>3, <1>14, <2>3 DEF ReleaseBlock
      <3> QED BY <1>5, <2>1, <3>1
    <2> QED BY <2>2, <2>3
  <1> QED BY <1>10, <1>11, <1>12, <1>13, <1>14 DEF ConsumerStep

LEMMA Deeds ==
  ASSUME TypeOK, [Next]_vars
  PROVE  (\E p \in Procs : Deed(p)) \/ UNCHANGED <<control, published, reclaimed, view, call>>
  <1>1. Producer \in Procs /\ Consumer \in Procs
    BY Names
  <1>2. CASE EnableDrain \/ (\E e \in Crashable : Crash(e)) \/ UNCHANGED vars
    BY <1>2 DEF EnableDrain, Crash, vars, cursors, loads
  <1>3. ASSUME NEW e \in Endpoints, AbandonRetained(e) PROVE Deed(e)
    <2>1. e \in Procs /\ call[e].pc = "idle"
          /\ UNCHANGED <<control, published, reclaimed, view, call>>
      BY <1>3, Sizes DEF AbandonRetained, At, cursors, loads
    <2> QED BY <2>1, Polling DEF Deed, WaitLabels
  <1>4. ASSUME NEW p \in Retirers, NEW r \in Reasons, Retire(p, r) PROVE Deed(p)
    <2>1. /\ p \in Procs /\ call[p].pc = "idle" /\ Leave(p, <<"data", "space">>)
          /\ gate' # "READY" /\ aware' = aware \cup {p}
          /\ UNCHANGED <<published, reclaimed, view>>
      BY <1>4, Sizes DEF Retire, RetireRaw, At, cursors, loads
    <2>2. <<"data", "space">> \in NotifyLists
      BY DEF NotifyLists
    <2>3. Polls(p) /\ \A e \in Endpoints : Pending(p, e)'
      BY <2>1, <2>2, Polling
    <2> QED BY <2>1, <2>3 DEF Deed, WaitLabels
  <1>5. Endpoints \subseteq Procs /\ Retirers \subseteq Procs
    BY Sizes
  <1> QED BY <1>1, <1>2, <1>3, <1>4, <1>5, ProducerDeeds, ConsumerDeeds DEF Next
-----------------------------------------------------------------------------
(***************************************************************************)
(* What keeps an endpoint coherent.                                        *)
(***************************************************************************)

\* No notification or wake for e is lost in this step, and e itself stands
\* still, or is not past its armed word.
Spared(e) ==
  /\ word'[Word(e)] = word[Word(e)] /\ carried'[Word(e)] = carried[Word(e)]
  /\ \A p \in Procs : (Pending(p, e) => Pending(p, e)') /\ (Waking(p, e) => Waking(p, e)')
  /\ aware \subseteq aware' /\ (e \in asleep' => e \in asleep)
  /\ Peer(e)' = Peer(e) \/ Pending(Other(e), e)'
  /\ gate' = gate \/ \E p \in aware' : Pending(p, e)'
  /\ \/ /\ call'[e] = call[e] /\ view'[e] = view[e] /\ cursor'[e] = cursor[e]
        /\ e \in aware' => e \in aware
     \/ call[e].pc \notin ArmedLabels /\ call'[e].pc \notin ArmedLabels

LEMMA CoherentKept ==
  ASSUME NEW e \in Endpoints, Coherent(e), Spared(e), aware \subseteq Procs, aware' \subseteq Procs
  PROVE  Coherent(e)'
  <1>1. Other(e) \in Procs /\ e \in Procs /\ e \in Endpoints
    BY Names
  <1>2. Carries(e)'
    BY <1>1 DEF Coherent, Spared, Carries
  <1>3. CASE /\ call'[e] = call[e] /\ view'[e] = view[e] /\ cursor'[e] = cursor[e]
             /\ e \in aware' => e \in aware
    <2>1. Guarded(e)'
      BY <1>1, <1>3 DEF Coherent, Spared, Guarded
    <2>2. ~Available(e, view[e]) => ~(Available(e, view[e])')
      BY <1>3, Names DEF Available, Full
    <2>3. Resting(e)'
      BY <1>1, <1>3, <2>2 DEF Coherent, Spared, Resting
    <2>4. Armed(e)'
      BY <1>3 DEF Coherent, Spared, Armed
    <2> QED BY <1>2, <2>1, <2>3, <2>4 DEF Coherent
  <1>4. CASE call[e].pc \notin ArmedLabels /\ call'[e].pc \notin ArmedLabels
    BY <1>2, <1>4 DEF Coherent, Spared, Guarded, Resting, Armed, ArmedLabels
  <1> QED BY <1>3, <1>4 DEF Spared

\* A step of Spsc.
LEMMA PollCoherent ==
  ASSUME ParkInv, IInv', [Next]_vars, UNCHANGED parking
  PROVE  ParkInv'
  <1>1. /\ TypeOK /\ aware \subseteq Procs /\ aware' \subseteq Procs /\ ParkTypes
        /\ cursor = [e \in Endpoints |-> IF e = Producer THEN published ELSE reclaimed]
        /\ cursor' = [e \in Endpoints |-> IF e = Producer THEN published' ELSE reclaimed']
        /\ published \in Nat /\ reclaimed \in Nat /\ published' \in Nat /\ reclaimed' \in Nat
        /\ gate \in {"READY", "RETIRE_REQUESTED"}
    BY Sizes DEF ParkInv, IInv, Safe, TypeOK
  <1>2. UNCHANGED <<word, carried, asleep, expired>>
    BY DEF parking
  <1>3. CASE UNCHANGED <<control, published, reclaimed, view, call>>
    <2>1. ParkTypes'
      BY <1>1, <1>2, <1>3 DEF ParkTypes, Peer, control
    <2>2. \A e \in Endpoints : Spared(e)
      BY <1>1, <1>2, <1>3 DEF Spared, control, Pending, Waking, Peer
    <2> QED BY <1>1, <2>1, <2>2, CoherentKept DEF ParkInv
  <1>4. ASSUME NEW p \in Procs, Deed(p) PROVE ParkInv'
    <2>1. /\ \A x \in Procs \ {p} : call'[x] = call[x]
          /\ call'[p].pc \notin WaitLabels \cup {"wake"}
          /\ call'[p].pc = "notify" => call'[p].notify # <<>>
          /\ call[p].pc \notin WaitLabels \cup {"notify", "wake"}
          /\ \A x \in Endpoints \ {p} : view'[x] = view[x]
      BY <1>4 DEF Deed, Polls
    <2>2. \/ gate' = gate /\ aware' = aware
          \/ gate' # "READY" /\ aware' = aware \cup {p} /\ \A e \in Endpoints : Pending(p, e)'
      BY <1>4 DEF Deed, control
    <2>3. /\ published <= published' /\ reclaimed <= reclaimed'
          /\ published' # published => p = Producer /\ Pending(Producer, Consumer)'
          /\ reclaimed' # reclaimed => p = Consumer /\ Pending(Consumer, Producer)'
      BY <1>1, <1>4 DEF Deed
    <2>4. \A e \in Endpoints : Peer(e)' = Peer(e) \/ (Pending(Other(e), e)' /\ Peer(e) <= Peer(e)')
      BY <2>3, Names DEF Other
    <2>5. ParkTypes'
      <3>1. \A e \in Endpoints : carried'[Word(e)].peer <= Peer(e)'
        <4>1. \A e \in Endpoints : /\ carried[Word(e)].peer \in Nat
                                   /\ carried[Word(e)].peer <= Peer(e)
                                   /\ Peer(e) \in Nat /\ Peer(e)' \in Nat /\ Peer(e) <= Peer(e)'
          BY <1>1, <2>4, Names DEF ParkTypes, Peer
        <4> QED BY <1>2, <4>1
      <3>2. \A x \in Procs : call'[x].pc \in {"notify", "wake"} => call'[x].notify # <<>>
        BY <1>1, <2>1 DEF ParkTypes
      <3>3. aware' # {} => gate' # "READY"
        BY <1>1, <2>2 DEF ParkTypes
      <3>4. \A w \in Words : carried'[w].retired => gate' # "READY"
        BY <1>1, <1>2, <2>2 DEF ParkTypes
      <3> QED BY <1>1, <1>2, <3>1, <3>2, <3>3, <3>4 DEF ParkTypes
    <2>6. ASSUME NEW e \in Endpoints PROVE Spared(e)
      <3>1. \A x \in Procs : /\ Pending(x, e) => Pending(x, e)'
                             /\ Waking(x, e) => Waking(x, e)'
        <4>1. \A x \in Procs \ {p} : /\ Pending(x, e) => Pending(x, e)'
                                     /\ Waking(x, e) => Waking(x, e)'
          BY <2>1 DEF Pending, Waking
        <4>2. ~Pending(p, e) /\ ~Waking(p, e)
          BY <2>1 DEF Pending, Waking
        <4> QED BY <4>1, <4>2
      <3>2. gate' = gate \/ \E x \in aware' : Pending(x, e)'
        BY <2>2
      <3>3. CASE e = p
        <4>1. call[e].pc \notin ArmedLabels /\ call'[e].pc \notin ArmedLabels
          BY <2>1, <3>3 DEF ArmedLabels, WaitLabels
        <4> QED BY <1>2, <2>2, <2>4, <3>1, <3>2, <4>1 DEF Spared
      <3>4. CASE e # p
        <4>1. call'[e] = call[e] /\ view'[e] = view[e]
          BY <2>1, <3>4, Names
        <4>2. cursor'[e] = cursor[e]
          BY <1>1, <2>3, <3>4, Names
        <4>3. e \in aware' => e \in aware
          BY <2>2, <3>4
        <4> QED BY <1>2, <2>2, <2>4, <3>1, <3>2, <4>1, <4>2, <4>3 DEF Spared
      <3> QED BY <3>3, <3>4
    <2> QED BY <1>1, <2>5, <2>6, CoherentKept DEF ParkInv
  <1> QED BY <1>1, <1>3, <1>4, Deeds
-----------------------------------------------------------------------------
(***************************************************************************)
(* The steps that notify, wake and wait.                                   *)
(***************************************************************************)

\* What all of them have in common: they are made outside the calls of Spsc,
\* and renew what a waiter has seen.
Between == {"idle", "notify", "wake"}
Parks ==
  /\ UNCHANGED <<base, gate, failure>>
  /\ call' \in [Procs -> Calls]
  /\ \A p \in Procs : call'[p] # call[p] =>
       call[p].pc \in Between \cup WaitLabels /\ call'[p].pc \in Between \cup WaitLabels
  /\ \A e \in poisoned : call'[e].pc \in Between
  /\ aware' \subseteq Procs
  /\ cached' \in [Endpoints -> Nat] /\ view' \in [Endpoints -> Nat]
  /\ \A e \in Endpoints : view[e] <= view'[e] /\ view'[e] <= Peer(e) /\ cached'[e] <= view'[e]

\* The invariant of the polled ring does not mind them.
LEMMA ParkSafe ==
  ASSUME IInv, Parks
  PROVE  IInv'
  <1>1. /\ TypeOK /\ ProducerCoherent /\ ConsumerCoherent /\ Intact /\ NoFalseAlarm /\ Abandonment
        /\ Data /\ Control /\ poisoned \subseteq Endpoints
    BY Parts DEF IInv, Safe, TypeOK
  <1>2. /\ UNCHANGED <<published, reclaimed, cursor, desc, token, poisoned, draining, retained,
                       crashed, gate, failure>>
    BY DEF Parks, base, cursors, flags, history
  <1>3. /\ published \in 0 .. TicketCeiling /\ reclaimed \in 0 .. published
        /\ TicketCeiling \in Nat
        /\ Endpoints = {Producer, Consumer} /\ Producer # Consumer /\ Endpoints \subseteq Procs
        /\ Peer(Producer) = reclaimed /\ Peer(Consumer) = published
    BY <1>1, Names, StateTypes, Sizes
  <1>4. Data'
    <2>1. \A e \in Endpoints : /\ view'[e] \in 0 .. TicketCeiling /\ cached'[e] \in 0 .. TicketCeiling
                               /\ cached'[e] <= view'[e]
      BY <1>3 DEF Parks
    <2>2. view' \in [Endpoints -> 0 .. TicketCeiling] /\ cached' \in [Endpoints -> 0 .. TicketCeiling]
      BY <2>1 DEF Parks
    <2>3. view'[Producer] <= reclaimed /\ view'[Consumer] <= published
      BY <1>3 DEF Parks
    <2> QED BY <1>1, <1>2, <2>1, <2>2, <2>3 DEF Data
  <1>5. Control'
    BY <1>1, <1>2 DEF Control, Parks, NoFalseAlarm
  <1>6. call' \in [Procs -> Calls]
    BY DEF Parks
  <1>7. ASSUME NEW e \in Endpoints
        PROVE  \/ call'[e].pc = call[e].pc
               \/ /\ call[e].pc \in Between \cup ParkLabels
                  /\ call'[e].pc \in Between \cup ParkLabels
    BY <1>3, ParkAssumption DEF Parks, ParkLabels, WaitLabels, Between
  <1>8. ProducerCoherent'
    BY <1>1, <1>2, <1>3, <1>7, ParkAssumption DEF ProducerCoherent, SameEpoch, ParkLabels, Between
  <1>9. ConsumerCoherent'
    <2>1. /\ view[Consumer] \in Nat /\ view'[Consumer] \in Nat /\ view[Consumer] <= view'[Consumer]
      BY <1>1, <1>3, StateTypes DEF Parks
    <2>2. /\ reclaimed \in Nat /\ reclaimed <= view'[Consumer]
          /\ token[Consumer].owned = "read" => reclaimed < view'[Consumer]
      BY <1>1, <1>3, <2>1 DEF ConsumerCoherent
    <2>3. \/ call'[Consumer].pc = call[Consumer].pc
          \/ /\ call[Consumer].pc \notin {"load_published", "metadata", "release"}
             /\ call'[Consumer].pc \in {"idle", "notify"} \cup ParkLabels
             /\ call'[Consumer].pc \notin {"load_published", "metadata", "release"}
      BY <1>3, <1>7, ParkAssumption DEF ParkLabels, Between
    <2> QED BY <1>1, <1>2, <2>2, <2>3 DEF ConsumerCoherent, SameEpoch
  <1>10. Intact' /\ Abandonment'
    BY <1>1, <1>2 DEF Intact, Abandonment, Parks, Between
  <1> QED BY <1>4, <1>5, <1>6, <1>8, <1>9, <1>10, Parts DEF IInv, Safe

\* A notifier goes to its next word, or returns.
LEMMA NextWords ==
  ASSUME TypeOK, NEW p \in Procs, call[p].notify # <<>>
  PROVE  /\ NextWord(p) \/ Goto(p, "wake") =>
              /\ call' \in [Procs -> Calls] /\ \A x \in Procs \ {p} : call'[x] = call[x]
              /\ call'[p].pc \in Between
              /\ call'[p].pc \in {"notify", "wake"} => call'[p].notify # <<>>
         /\ NextWord(p) =>
              \A e \in Endpoints :
                (\E i \in DOMAIN Tail(call[p].notify) : Tail(call[p].notify)[i] = Word(e))
                  => Pending(p, e)'
         /\ Goto(p, "wake") =>
              /\ \A e \in Endpoints :
                   (\E i \in DOMAIN Tail(call[p].notify) : Tail(call[p].notify)[i] = Word(e))
                     => Pending(p, e)'
              /\ \A e \in Endpoints : Head(call[p].notify) = Word(e) => Waking(p, e)'
  <1> DEFINE l == call[p].notify
             rest == Tail(l)
  <1>1. call \in [Procs -> Calls] /\ l \in NotifyLists /\ l # <<>> /\ rest \in NotifyLists
    <2>1. call \in [Procs -> Calls] /\ l \in NotifyLists /\ l # <<>>
      BY CallTypes
    <2> HIDE DEF l
    <2> QED BY <2>1, ListSteps
  <1>2. {"idle", "notify", "wake"} \subseteq Labels /\ <<>> \in NotifyLists
    BY ParkAssumption DEF Labels, ParkLabels, NotifyLists
  <1>3. ASSUME NextWord(p)
        PROVE  /\ call' \in [Procs -> Calls] /\ \A x \in Procs \ {p} : call'[x] = call[x]
               /\ call'[p] = IF rest = <<>> THEN NoCall ELSE [pc |-> "notify", notify |-> rest]
    <2> DEFINE c == IF rest = <<>> THEN NoCall ELSE [pc |-> "notify", notify |-> rest]
    <2>1. call' = [call EXCEPT ![p] = c]
      BY <1>3 DEF NextWord
    <2>2. c \in Calls
      BY <1>1, <1>2 DEF Calls, NoCall
    <2> HIDE DEF c
    <2>3. call' \in [Procs -> Calls] /\ (\A x \in Procs \ {p} : call'[x] = call[x]) /\ call'[p] = c
      BY <1>1, <2>1, <2>2
    <2> QED BY <2>3 DEF c
  <1>4. ASSUME Goto(p, "wake")
        PROVE  /\ call' \in [Procs -> Calls] /\ \A x \in Procs \ {p} : call'[x] = call[x]
               /\ call'[p].pc = "wake" /\ call'[p].notify = l
    BY <1>1, <1>2, <1>4 DEF Goto, Calls
  <1>5. NoCall.pc = "idle" /\ ~(\E i \in DOMAIN <<>> : <<>>[i] = "data")
        /\ ~(\E i \in DOMAIN <<>> : <<>>[i] = "space")
    BY DEF NoCall
  <1>6. \A e \in Endpoints : Word(e) = "data" \/ Word(e) = "space"
    BY DEF Word
  <1> HIDE DEF l, rest
  <1>7. ASSUME NextWord(p)
        PROVE  /\ call'[p].pc \in Between
               /\ call'[p].pc \in {"notify", "wake"} => call'[p].notify # <<>>
    BY <1>3, <1>5, <1>7 DEF Between
  <1>8. ASSUME NextWord(p), NEW e \in Endpoints, \E i \in DOMAIN rest : rest[i] = Word(e)
        PROVE  Pending(p, e)'
    <2>1. rest # <<>>
      BY <1>5, <1>6, <1>8
    <2>2. call'[p].pc = "notify" /\ call'[p].notify = rest
      BY <1>3, <1>8, <2>1
    <2> QED BY <1>8, <2>2 DEF Pending, Word
  <1>9. ASSUME Goto(p, "wake"), NEW e \in Endpoints
        PROVE  /\ (\E i \in DOMAIN rest : rest[i] = Word(e)) => Pending(p, e)'
               /\ Head(l) = Word(e) => Waking(p, e)'
    BY <1>4, <1>9 DEF Pending, Waking, Word, rest
  <1>10. Goto(p, "wake") =>
           /\ call'[p].pc \in Between
           /\ call'[p].pc \in {"notify", "wake"} => call'[p].notify # <<>>
    BY <1>1, <1>4 DEF Between
  <1> QED BY <1>3, <1>4, <1>7, <1>8, <1>9, <1>10 DEF l, rest

\* el_notify.
LEMMA NotifyCoherent ==
  ASSUME ParkInv, NEW p \in Procs, NotifyStep(p)
  PROVE  ParkInv'
  <1> DEFINE l == call[p].notify
             h == Head(l)
  <1>1. /\ IInv /\ TypeOK /\ Abandonment /\ ParkTypes /\ aware \subseteq Procs
        /\ view \in [Endpoints -> Nat] /\ cached \in [Endpoints -> Nat]
        /\ \A e \in Endpoints : view[e] <= Peer(e) /\ cached[e] <= view[e] /\ Peer(e) \in Nat
        /\ poisoned \subseteq Endpoints /\ Endpoints \subseteq Procs
    <2>1. TypeOK /\ Abandonment
      BY DEF ParkInv, IInv, Safe
    <2>2. view \in [Endpoints -> Nat] /\ cached \in [Endpoints -> Nat]
      BY <2>1, Sizes DEF TypeOK
    <2>3. \A e \in Endpoints : view[e] <= Peer(e) /\ cached[e] <= view[e] /\ Peer(e) \in Nat
      BY <2>1, Names, StateTypes, Sizes
    <2> QED BY <2>1, <2>2, <2>3, Sizes DEF ParkInv, TypeOK
  <1>2. call[p].pc \in {"notify", "wake"}
    BY DEF NotifyStep, Notify, Wake, At
  <1>3. l \in NotifyLists /\ l # <<>>
    BY <1>1, <1>2, CallTypes DEF ParkTypes
  <1>4. /\ h \in Words /\ Waiter(h) \in Endpoints /\ Word(Waiter(h)) = h
        /\ \A e \in Endpoints : Word(e) = h => e = Waiter(h)
        /\ \A e \in Endpoints : /\ Word(e) \in Words
                                /\ Word(e) # h /\ (\E i \in DOMAIN l : l[i] = Word(e))
                                     => \E i \in DOMAIN Tail(l) : Tail(l)[i] = Word(e)
    <2>1. /\ h \in Words
          /\ \A w \in Words : w # h /\ (\E i \in DOMAIN l : l[i] = w)
                                => \E i \in DOMAIN Tail(l) : Tail(l)[i] = w
      <3> HIDE DEF l
      <3> QED BY <1>3, ListSteps
    <2> HIDE DEF h, l
    <2> QED BY <2>1, Names
  <1>5. /\ NextWord(p) \/ Goto(p, "wake")
        /\ UNCHANGED <<base, gate, failure, aware, cached, view>>
    BY DEF NotifyStep, Notify, Wake, control, loads
  <1>6. /\ call' \in [Procs -> Calls] /\ \A x \in Procs \ {p} : call'[x] = call[x]
        /\ call'[p].pc \in Between
        /\ call'[p].pc \in {"notify", "wake"} => call'[p].notify # <<>>
    BY <1>1, <1>3, <1>5, NextWords
  <1>7. IInv'
    <2>1. Parks
      <3>1. \A x \in Procs : call'[x] # call[x] =>
              call[x].pc \in Between \cup WaitLabels /\ call'[x].pc \in Between \cup WaitLabels
        BY <1>2, <1>6 DEF Between
      <3>2. \A e \in poisoned : call'[e].pc \in Between
        BY <1>1, <1>6 DEF Abandonment, Between
      <3>3. \A e \in Endpoints : view[e] <= view'[e] /\ view'[e] <= Peer(e) /\ cached'[e] <= view'[e]
        BY <1>1, <1>5
      <3> QED BY <1>1, <1>5, <1>6, <3>1, <3>2, <3>3 DEF Parks
    <2> QED BY <1>1, <2>1, ParkSafe
  <1>8. UNCHANGED <<published, reclaimed, cursor>>
    BY <1>5 DEF base, cursors
  <1>9. \A x \in Procs \ {p}, e \in Endpoints : (Pending(x, e) <=> Pending(x, e)')
                                               /\ (Waking(x, e) <=> Waking(x, e)')
    BY <1>6 DEF Pending, Waking
  <1>10. \A e \in Endpoints : (\E i \in DOMAIN Tail(l) : Tail(l)[i] = Word(e)) => Pending(p, e)'
    BY <1>1, <1>3, <1>5, NextWords
  <1>11. p \in Endpoints => call[p].pc \notin ArmedLabels /\ call'[p].pc \notin ArmedLabels
    BY <1>2, <1>6 DEF ArmedLabels, Between
  <1> HIDE DEF l, h
  <1>20. CASE Notify(p)
    <2>1. /\ word' = [word EXCEPT ![h] = 0]
          /\ carried' = [carried EXCEPT ![h] =
               [peer    |-> IF p # Waiter(h) /\ p # Authority THEN Peer(Waiter(h)) ELSE carried[h].peer,
                retired |-> carried[h].retired \/ p \in aware]]
          /\ IF word[h] = 1 THEN Goto(p, "wake") ELSE NextWord(p)
          /\ call[p].pc = "notify" /\ UNCHANGED asleep
      BY <1>20 DEF Notify, At, h, l
    <2>2. \A e \in Endpoints : Word(e) # h => (Pending(p, e) => Pending(p, e)')
      BY <1>4, <1>10, <2>1 DEF Pending, l
    <2>3. \A e \in Endpoints : ~Waking(p, e)
      BY <2>1 DEF Waking
    <2>4. \A w \in Words : /\ word'[w] = IF w = h THEN 0 ELSE word[w]
                           /\ w # h => carried'[w] = carried[w]
      BY <1>1, <1>4, <2>1 DEF ParkTypes
    <2>5. /\ carried'[h].peer = IF p # Waiter(h) /\ p # Authority THEN Peer(Waiter(h))
                                                                   ELSE carried[h].peer
          /\ carried'[h].retired = (carried[h].retired \/ p \in aware)
      BY <1>1, <1>4, <2>1 DEF ParkTypes
    <2>6. ParkTypes'
      <3>1. /\ word' \in [Words -> {0, 1}]
            /\ carried' \in [Words -> [peer : Nat, retired : BOOLEAN]]
        BY <1>1, <1>4, <2>1 DEF ParkTypes
      <3>2. \A e \in Endpoints : carried'[Word(e)].peer <= Peer(e)'
        <4>1. \A e \in Endpoints : Peer(e)' = Peer(e)
          BY <1>8 DEF Peer
        <4>2. ASSUME NEW e \in Endpoints PROVE carried'[Word(e)].peer <= Peer(e)
          <5>1. carried[Word(e)].peer <= Peer(e) /\ Peer(e) \in Nat
            BY <1>1 DEF ParkTypes
          <5>2. CASE Word(e) = h
            <6>1. e = Waiter(h)
              BY <1>4, <5>2
            <6> QED BY <2>5, <5>1, <5>2, <6>1
          <5>3. CASE Word(e) # h
            BY <1>4, <2>4, <5>1, <5>3
          <5> QED BY <5>2, <5>3
        <4> QED BY <4>1, <4>2
      <3>3. \A x \in Procs : call'[x].pc \in {"notify", "wake"} => call'[x].notify # <<>>
        BY <1>1, <1>6 DEF ParkTypes
      <3>4. ASSUME NEW w \in Words, carried'[w].retired PROVE gate # "READY"
        BY <1>1, <2>4, <2>5, <3>4 DEF ParkTypes
      <3>5. asleep' \subseteq Endpoints
        BY <1>1, <2>1 DEF ParkTypes
      <3> QED BY <1>1, <1>5, <3>1, <3>2, <3>3, <3>4, <3>5 DEF ParkTypes
    <2>7. ASSUME NEW e \in Endpoints, e # Waiter(h) PROVE Coherent(e)'
      <3>1. Word(e) # h
        BY <1>4, <2>7
      <3>2. \A x \in Procs : (Pending(x, e) => Pending(x, e)') /\ (Waking(x, e) => Waking(x, e)')
        BY <1>9, <2>2, <2>3, <3>1
      <3>3. word'[Word(e)] = word[Word(e)] /\ carried'[Word(e)] = carried[Word(e)]
        BY <1>4, <2>4, <3>1
      <3>4. \/ call'[e] = call[e]
            \/ call[e].pc \notin ArmedLabels /\ call'[e].pc \notin ArmedLabels
        BY <1>1, <1>6, <1>11
      <3>5. Peer(e)' = Peer(e)
        BY <1>8 DEF Peer
      <3>6. Spared(e)
        BY <1>5, <1>8, <2>1, <3>2, <3>3, <3>4, <3>5 DEF Spared
      <3>7. Coherent(e) /\ aware' \subseteq Procs
        BY <1>1, <1>5 DEF ParkInv
      <3> QED BY <1>1, <3>6, <3>7, CoherentKept
    <2>8. ASSUME NEW e \in Endpoints, e = Waiter(h) PROVE Coherent(e)'
      <3>0. Word(e) = h /\ Coherent(e) /\ e \in Procs
        BY <1>1, <1>4, <2>8 DEF ParkInv
      <3>1. word'[Word(e)] = 0 /\ Peer(e)' = Peer(e)
        BY <1>4, <1>8, <2>4, <3>0 DEF Peer
      <3>2. Carries(e)'
        <4>1. CASE p = Other(e)
          <5>1. p # e /\ p # Authority
            BY <3>0, <4>1, Names
          <5>2. carried'[Word(e)].peer = Peer(e) /\ Peer(e) \in Nat
            BY <1>1, <2>5, <2>8, <3>0, <5>1
          <5>3. ~carried'[Word(e)].retired => ~carried[Word(e)].retired /\ p \notin aware
            BY <2>5, <3>0
          <5>4. \A x \in aware : x # p => (Pending(x, e) <=> Pending(x, e)')
            BY <1>1, <1>9, <3>0
          <5> QED BY <1>1, <1>5, <3>0, <3>1, <5>2, <5>3, <5>4 DEF Coherent, Carries
        <4>2. CASE p # Other(e)
          <5>1. carried'[Word(e)].peer = carried[Word(e)].peer
            BY <2>5, <3>0, <4>2, Names
          <5>2. ~carried'[Word(e)].retired => ~carried[Word(e)].retired /\ p \notin aware
            BY <2>5, <3>0
          <5>3. \A x \in Procs : x # p => (Pending(x, e) <=> Pending(x, e)')
            BY <1>1, <1>9, <3>0
          <5>4. Other(e) \in Procs /\ Other(e) # p
            BY <3>0, <4>2, Names
          <5> QED BY <1>1, <1>5, <3>0, <3>1, <5>1, <5>2, <5>3, <5>4 DEF Coherent, Carries
        <4> QED BY <4>1, <4>2
      <3>3. Guarded(e)' /\ Armed(e)'
        BY <3>1 DEF Guarded, Armed
      <3>4. call'[e] = call[e] \/ call'[e].pc \notin ArmedLabels
        BY <1>6, <1>11, <3>0
      <3>5. ASSUME e \in asleep' PROVE call'[e].pc = "asleep" /\ \E x \in Procs : Waking(x, e)'
        <4>1. /\ call[e].pc = "asleep"
              /\ word[Word(e)] = 1 \/ \E x \in Procs : Waking(x, e)
          BY <2>1, <3>0, <3>5 DEF Coherent, Resting
        <4>2. call'[e].pc = "asleep"
          BY <1>6, <2>1, <3>0, <4>1
        <4>3. word[Word(e)] = 1 => Waking(p, e)'
          <5>1. Goto(p, "wake") => \A x \in Endpoints : Head(l) = Word(x) => Waking(p, x)'
            BY <1>1, <1>3, NextWords DEF l
          <5> QED BY <2>1, <3>0, <5>1 DEF h
        <4> QED BY <1>9, <2>3, <3>0, <4>1, <4>2, <4>3
      <3>6. call'[e].pc \in {"sleep", "asleep"} => ~(Available(e, view[e])') /\ e \notin aware'
        BY <1>5, <1>8, <3>0, <3>4 DEF Coherent, Resting, ArmedLabels, Available, Full
      <3>7. Resting(e)'
        BY <3>5, <3>6 DEF Resting
      <3> QED BY <3>2, <3>3, <3>7 DEF Coherent
    <2> QED BY <1>7, <2>6, <2>7, <2>8 DEF ParkInv
  <1>30. CASE Wake(p)
    <2>1. /\ NextWord(p) /\ UNCHANGED <<word, carried>>
          /\ asleep' = asleep \ {Waiter(h)} /\ call[p].pc = "wake"
      BY <1>30 DEF Wake, At, h, l
    <2>2. \A e \in Endpoints : Pending(p, e) => Pending(p, e)'
      BY <1>10, <2>1 DEF Pending, l
    <2>3. ParkTypes'
      <3>1. \A x \in Procs : call'[x].pc \in {"notify", "wake"} => call'[x].notify # <<>>
        BY <1>1, <1>6 DEF ParkTypes
      <3> QED BY <1>1, <1>5, <1>8, <2>1, <3>1 DEF ParkTypes, Peer
    <2>4. ASSUME NEW e \in Endpoints PROVE Coherent(e)'
      <3>1. Coherent(e) /\ aware' \subseteq Procs /\ Peer(e)' = Peer(e)
        BY <1>1, <1>5, <1>8 DEF ParkInv, Peer
      <3>2. \/ call'[e] = call[e]
            \/ call[e].pc \notin ArmedLabels /\ call'[e].pc \notin ArmedLabels
        BY <1>1, <1>6, <1>11
      <3>3. CASE e # Waiter(h)
        <4>1. ~Waking(p, e)
          BY <1>4, <3>3 DEF Waking, h, l
        <4>2. Spared(e)
          BY <1>5, <1>8, <1>9, <2>1, <2>2, <3>1, <3>2, <4>1 DEF Spared
        <4> QED BY <1>1, <3>1, <4>2, CoherentKept
      <3>4. CASE e = Waiter(h)
        <4>1. e \notin asleep'
          BY <2>1, <3>4
        <4>2. \A x \in Procs : Pending(x, e) => Pending(x, e)'
          BY <1>9, <2>2
        <4>3. Other(e) \in Procs
          BY Names
        <4>4. Carries(e)' /\ Armed(e)'
          BY <1>1, <1>5, <2>1, <3>1, <3>2, <4>2, <4>3 DEF Coherent, Carries, Armed
        <4>5. Guarded(e)'
          BY <1>1, <1>5, <2>1, <3>1, <3>2, <4>2, <4>3 DEF Coherent, Guarded, ArmedLabels
        <4>6. Resting(e)'
          BY <1>5, <1>8, <3>1, <3>2, <4>1
          DEF Coherent, Resting, ArmedLabels, Available, Full
        <4> QED BY <4>4, <4>5, <4>6 DEF Coherent
      <3> QED BY <3>3, <3>4
    <2> QED BY <1>7, <2>3, <2>4 DEF ParkInv
  <1> QED BY <1>20, <1>30 DEF NotifyStep

\* A step of a wait by e: it renews what e has seen, and moves e and its word.
Renews(e) ==
  /\ aware' = aware \/ (gate # "READY" /\ aware' = aware \cup {e})
  /\ view' \in [Endpoints -> Nat] /\ cached' \in [Endpoints -> Nat]
  /\ \A x \in Endpoints \ {e} : view'[x] = view[x] /\ cached'[x] = cached[x]
  /\ view[e] <= view'[e] /\ view'[e] <= Peer(e) /\ cached'[e] <= view'[e]

Waits(e) ==
  /\ UNCHANGED <<base, gate, failure, carried>>
  /\ Renews(e) /\ Moves(e)
  /\ call[e].pc \in WaitLabels \cup {"idle"} /\ call'[e].pc \in WaitLabels \cup {"idle"}
  /\ e \in poisoned => call'[e].pc = "idle"
  /\ word' \in [Words -> {0, 1}] /\ \A x \in Endpoints \ {e} : word'[Word(x)] = word[Word(x)]
  /\ asleep' \subseteq asleep \cup {e}

LEMMA WaitKept ==
  ASSUME ParkInv, NEW e \in Endpoints, Waits(e)
  PROVE  /\ \A p \in Procs : Pending(p, e) => Pending(p, e)'
         /\ Guarded(e)' /\ Resting(e)' /\ Armed(e)' => ParkInv'
  <1>1. /\ IInv /\ TypeOK /\ Abandonment /\ ParkTypes /\ aware \subseteq Procs
        /\ poisoned \subseteq Endpoints /\ Endpoints \subseteq Procs
        /\ \A x \in Endpoints : Coherent(x) /\ Other(x) \in Procs
    BY Sizes, Names DEF ParkInv, IInv, Safe, TypeOK
  <1>2. \A x \in Endpoints : view[x] \in Nat /\ view[x] <= Peer(x) /\ cached[x] <= view[x]
    BY <1>1, Names, StateTypes
  <1>3. /\ UNCHANGED <<published, reclaimed, cursor, gate, carried, base, failure>>
        /\ \A x \in Endpoints : Peer(x)' = Peer(x)
    BY DEF Waits, base, cursors, Peer
  <1>4. /\ call' \in [Procs -> Calls] /\ \A x \in Procs \ {e} : call'[x] = call[x]
        /\ call[e].pc \notin {"notify", "wake"} /\ call'[e].pc \notin {"notify", "wake"}
    BY DEF Waits, Moves, WaitLabels
  <1>5. aware \subseteq aware' /\ aware' \subseteq Procs /\ \A x \in Endpoints : x # e /\ x \in aware' => x \in aware
    BY <1>1 DEF Waits, Renews
  <1>6. \A p \in Procs, x \in Endpoints : (Pending(p, x) => Pending(p, x)') /\ (Waking(p, x) => Waking(p, x)')
    <2>1. \A p \in Procs \ {e}, x \in Endpoints : (Pending(p, x) => Pending(p, x)') /\ (Waking(p, x) => Waking(p, x)')
      BY <1>4 DEF Pending, Waking
    <2>2. \A x \in Endpoints : ~Pending(e, x) /\ ~Waking(e, x)
      BY <1>4 DEF Pending, Waking
    <2> QED BY <2>1, <2>2
  <1>7. IInv'
    <2>1. \A x \in Procs : call'[x] # call[x] =>
            call[x].pc \in Between \cup WaitLabels /\ call'[x].pc \in Between \cup WaitLabels
      BY <1>4 DEF Waits, Between
    <2>2. \A x \in poisoned : call'[x].pc \in Between
      BY <1>1, <1>4 DEF Waits, Abandonment, Between
    <2>3. \A x \in Endpoints : view[x] <= view'[x] /\ view'[x] <= Peer(x) /\ cached'[x] <= view'[x]
      BY <1>2 DEF Waits, Renews
    <2>4. Parks
      BY <1>3, <1>4, <1>5, <2>1, <2>2, <2>3 DEF Parks, Waits, Renews
    <2> QED BY <1>1, <2>4, ParkSafe
  <1>8. ParkTypes'
    <2>1. \A p \in Procs : call'[p].pc \in {"notify", "wake"} => call'[p].notify # <<>>
      BY <1>1, <1>4 DEF ParkTypes
    <2>2. aware' # {} => gate' # "READY"
      BY <1>1, <1>3 DEF Waits, Renews, ParkTypes
    <2> QED BY <1>1, <1>3, <2>1, <2>2 DEF Waits, ParkTypes
  <1>9. ASSUME NEW x \in Endpoints, x # e PROVE Coherent(x)'
    <2>1. word'[Word(x)] = word[Word(x)] /\ view'[x] = view[x] /\ call'[x] = call[x]
      BY <1>1, <1>4, <1>9 DEF Waits, Renews
    <2>2. Spared(x)
      BY <1>3, <1>5, <1>6, <1>9, <2>1 DEF Spared, Waits
    <2> QED BY <1>1, <1>5, <2>2, CoherentKept
  <1>10. Carries(e)'
    BY <1>1, <1>3, <1>5, <1>6 DEF Coherent, Carries
  <1> QED BY <1>6, <1>7, <1>8, <1>9, <1>10 DEF ParkInv, Coherent

\* A wait that is neither armed nor asleep after the step.
LEMMA WaitOff ==
  ASSUME ParkInv, NEW e \in Endpoints, Waits(e), e \notin asleep',
         call'[e].pc \notin {"recheck", "sleep", "asleep"},
         word'[Word(e)] = 1 => call'[e].pc \in ArmedLabels
  PROVE  ParkInv'
  <1>1. Guarded(e)' /\ Resting(e)' /\ Armed(e)'
    BY DEF Guarded, Resting, Armed, Word
  <1> QED BY <1>1, WaitKept

\* predicate, and an exchange of the word.
LEMMA Looking ==
  ASSUME ParkInv, NEW e \in Endpoints, NEW more \in Labels, NEW done \in Labels,
         Predicate(e, more, done)
  PROVE  /\ Renews(e)
         /\ \/ GoesTo(e, done)
            \/ GoesTo(e, more) /\ e \notin poisoned /\ ~Available(e, view'[e]) /\ e \notin aware'
  <1>1. /\ TypeOK /\ NoFalseAlarm /\ e \in Procs
        /\ view \in [Endpoints -> Nat] /\ cached \in [Endpoints -> Nat]
        /\ view[e] <= Peer(e) /\ cached[e] <= view[e] /\ Peer(e) \in Nat
        /\ aware # {} => gate # "READY"
    <2>1. TypeOK /\ NoFalseAlarm /\ e \in Procs /\ (aware # {} => gate # "READY")
      BY Sizes DEF ParkInv, IInv, Safe, ParkTypes
    <2>2. view[e] <= Peer(e) /\ cached[e] <= view[e] /\ Peer(e) \in Nat
      BY <2>1, Names, StateTypes, Sizes
    <2> QED BY <2>1, <2>2, Sizes DEF TypeOK
  <1>2. \A label \in Labels : Goto(e, label) => GoesTo(e, label)
    BY <1>1, CallSteps
  <1>3. CASE /\ e \in poisoned \/ gate # "READY"
             /\ aware' = IF e \in poisoned THEN aware ELSE aware \cup {e}
             /\ Goto(e, done)
             /\ UNCHANGED loads
    BY <1>1, <1>2, <1>3 DEF Renews, loads
  <1>4. ASSUME NEW peer \in view[e] .. Peer(e),
               e \notin poisoned, gate = "READY" \/ e \notin aware,
               cached' = [cached EXCEPT ![e] = peer], view' = [view EXCEPT ![e] = peer],
               Goto(e, IF Available(e, peer) THEN done ELSE more), UNCHANGED aware
        PROVE  /\ Renews(e)
               /\ \/ GoesTo(e, done)
                  \/ /\ GoesTo(e, more) /\ e \notin poisoned
                     /\ ~Available(e, view'[e]) /\ e \notin aware'
    <2>1. peer \in Nat /\ view[e] <= peer /\ peer <= Peer(e)
      BY <1>1
    <2>2. view'[e] = peer /\ cached'[e] = peer
      BY <1>1, <1>4
    <2>3. Renews(e)
      BY <1>1, <1>4, <2>1, <2>2 DEF Renews
    <2>4. e \notin aware'
      BY <1>1, <1>4
    <2>5. CASE Available(e, peer)
      BY <1>2, <1>4, <2>3, <2>5
    <2>6. CASE ~Available(e, peer)
      BY <1>2, <1>4, <2>2, <2>3, <2>4, <2>6
    <2> QED BY <2>5, <2>6
  <1> QED BY <1>3, <1>4 DEF Predicate

LEMMA Acquiring ==
  ASSUME ParkInv, NEW e \in Endpoints, Acquire(e)
  PROVE  /\ Renews(e) /\ UNCHANGED <<gate, failure>>
         /\ carried[Word(e)].peer <= view'[e]
         /\ carried[Word(e)].retired => e \in aware'
  <1>1. /\ view \in [Endpoints -> Nat] /\ cached \in [Endpoints -> Nat]
        /\ view[e] <= Peer(e) /\ cached[e] <= view[e] /\ Peer(e) \in Nat
    <2>1. TypeOK
      BY DEF ParkInv, IInv, Safe
    <2>2. view[e] <= Peer(e) /\ cached[e] <= view[e] /\ Peer(e) \in Nat
      BY <2>1, Names, StateTypes, Sizes
    <2> QED BY <2>1, <2>2, Sizes DEF TypeOK
  <1>2. /\ carried[Word(e)].peer \in Nat /\ carried[Word(e)].peer <= Peer(e)
        /\ carried[Word(e)].retired => gate # "READY"
    BY Names DEF ParkInv, ParkTypes
  <1> DEFINE c == carried[Word(e)]
  <1>3. /\ view' = [view EXCEPT ![e] = IF c.peer > view[e] THEN c.peer ELSE view[e]]
        /\ aware' = IF c.retired THEN aware \cup {e} ELSE aware
        /\ UNCHANGED <<gate, failure, cached>>
    BY DEF Acquire
  <1>4. view'[e] = IF c.peer > view[e] THEN c.peer ELSE view[e]
    BY <1>1, <1>3
  <1> QED BY <1>1, <1>2, <1>3, <1>4 DEF Renews

\* elite_wait_data, elite_wait_space.
LEMMA WaitCoherent ==
  ASSUME ParkInv, NEW e \in Endpoints, Wait(e) \/ WaitStep(e)
  PROVE  ParkInv'
  <1>1. /\ IInv /\ TypeOK /\ NoFalseAlarm /\ Abandonment /\ ParkTypes /\ Coherent(e)
        /\ e \in Procs /\ Other(e) \in Procs /\ Word(e) \in Words
        /\ \A x \in Endpoints : Word(x) \in Words /\ (x # e => Word(x) # Word(e))
        /\ call \in [Procs -> Calls] /\ word \in [Words -> {0, 1}] /\ aware \subseteq Procs
        /\ view \in [Endpoints -> Nat] /\ cached \in [Endpoints -> Nat]
        /\ \A x \in Endpoints : view[x] <= Peer(x) /\ cached[x] <= view[x] /\ Peer(x) \in Nat
    <2>1. TypeOK /\ NoFalseAlarm /\ Abandonment /\ ParkTypes
      BY DEF ParkInv, IInv, Safe
    <2>2. \A x \in Endpoints : view[x] <= Peer(x) /\ cached[x] <= view[x] /\ Peer(x) \in Nat
      BY <2>1, Names, StateTypes, Sizes
    <2>3. /\ e \in Procs /\ Other(e) \in Procs /\ Word(e) \in Words
          /\ \A x \in Endpoints : Word(x) \in Words /\ (x # e => Word(x) # Word(e))
      BY Names
    <2>4. /\ call \in [Procs -> Calls] /\ word \in [Words -> {0, 1}] /\ aware \subseteq Procs
          /\ view \in [Endpoints -> Nat] /\ cached \in [Endpoints -> Nat]
      <3>1. call \in [Procs -> Calls] /\ word \in [Words -> {0, 1}]
        BY <2>1, CallTypes DEF ParkTypes
      <3>2. view \in [Endpoints -> 0 .. TicketCeiling] /\ cached \in [Endpoints -> 0 .. TicketCeiling]
        BY <2>1 DEF TypeOK
      <3>3. aware \subseteq Procs
        BY <2>1 DEF TypeOK
      <3> QED BY <3>1, <3>2, <3>3, Sizes
    <2> QED BY <2>1, <2>2, <2>3, <2>4 DEF ParkInv
  <1>2. \A label \in Labels : Goto(e, label) => GoesTo(e, label)
    BY <1>1, CallSteps
  <1>3. WaitLabels \cup {"idle"} \subseteq Labels
    BY ParkAssumption DEF WaitLabels, Labels, ParkLabels
  <1>4. /\ e \in poisoned => call[e].pc \in Between
        /\ word[Word(e)] = 1 => call[e].pc \in ArmedLabels
        /\ e \in asleep => call[e].pc = "asleep"
    BY <1>1 DEF Abandonment, Between, Coherent, Armed, Resting
  <1>5. UNCHANGED <<control, loads>> => Renews(e) /\ UNCHANGED <<gate, failure>>
    BY <1>1 DEF Renews, control, loads
  \* What all steps of a wait share.
  <1>6. ASSUME NEW label \in WaitLabels \cup {"idle"}, GoesTo(e, label), Renews(e),
               e \in poisoned => label = "idle", call[e].pc \in WaitLabels \cup {"idle"},
               UNCHANGED <<base, gate, failure, carried>>,
               \/ UNCHANGED word
               \/ \E v \in {0, 1} : word' = [word EXCEPT ![Word(e)] = v],
               asleep' \subseteq asleep \cup {e}
        PROVE  Waits(e)
    <2>1. word' \in [Words -> {0, 1}] /\ \A x \in Endpoints \ {e} : word'[Word(x)] = word[Word(x)]
      BY <1>1, <1>6
    <2> QED BY <1>6, <2>1 DEF Waits, GoesTo
  \* The looks that find nothing to wait on with the word armed.
  <1>7. ASSUME NEW more \in {"arm", "idle"}, Predicate(e, more, "idle"),
               call[e].pc \in {"idle", "again", "last", "arm"},
               UNCHANGED <<base, gate, failure, word, carried, asleep>>
        PROVE  ParkInv'
    <2>1. /\ Renews(e)
          /\ GoesTo(e, "idle") \/ (GoesTo(e, more) /\ e \notin poisoned)
      BY <1>3, <1>7, Looking DEF WaitLabels
    <2>2. PICK label \in {"arm", "idle"} : GoesTo(e, label) /\ (e \in poisoned => label = "idle")
      BY <2>1
    <2>3. Waits(e)
      BY <1>6, <1>7, <2>1, <2>2 DEF WaitLabels
    <2>4. call'[e].pc = label
      BY <2>2 DEF GoesTo
    <2>5. e \notin asleep' /\ word'[Word(e)] # 1
      BY <1>4, <1>7 DEF ArmedLabels
    <2> QED BY <2>2, <2>3, <2>4, <2>5, WaitOff
  <1>10. CASE Wait(e)
    <2>1. PICK more \in {"arm", "idle"} : Predicate(e, more, "idle")
      BY <1>10 DEF Wait
    <2>2. call[e].pc = "idle" /\ UNCHANGED <<base, gate, failure, word, carried, asleep>>
      BY <1>10 DEF Wait, At
    <2> QED BY <1>7, <2>1, <2>2
  <1>11. CASE Arm(e)
    <2>1. /\ call[e].pc = "arm" /\ word' = [word EXCEPT ![Word(e)] = 1]
          /\ Acquire(e) /\ GoesTo(e, "recheck")
          /\ UNCHANGED <<base, carried, asleep>>
      BY <1>2, <1>3, <1>11 DEF Arm, At, WaitLabels
    <2>2. /\ Renews(e) /\ UNCHANGED <<gate, failure>>
          /\ carried[Word(e)].peer <= view'[e]
          /\ carried[Word(e)].retired => e \in aware'
      BY <2>1, Acquiring
    <2>3. e \notin poisoned
      BY <1>4, <2>1 DEF Between
    <2>4. Waits(e)
      BY <1>6, <2>1, <2>2, <2>3 DEF WaitLabels
    <2>5. \A p \in Procs : Pending(p, e) => Pending(p, e)'
      BY <2>4, WaitKept
    <2>6. Peer(e)' = Peer(e) /\ aware \subseteq aware'
      BY <2>1, <2>2 DEF base, cursors, Peer, Renews
    <2>7. Guarded(e)'
      <3>1. view'[e] < Peer(e) => carried[Word(e)].peer < Peer(e)
        <4>1. /\ view'[e] \in Nat /\ Peer(e) \in Nat /\ carried[Word(e)].peer \in Nat
          BY <1>1, <2>2 DEF Renews, ParkTypes
        <4> QED BY <2>2, <4>1
      <3> QED BY <1>1, <2>2, <2>5, <2>6, <3>1 DEF Coherent, Carries, Guarded
    <2>8. call'[e].pc = "recheck" /\ e \notin asleep'
      BY <1>4, <2>1 DEF GoesTo
    <2>9. Resting(e)' /\ Armed(e)'
      BY <2>8 DEF Resting, Armed, ArmedLabels
    <2> QED BY <2>4, <2>7, <2>9, WaitKept
  <1>12. CASE Recheck(e)
    <2>1. PICK more \in {"disarm_last", "sleep"} : Predicate(e, more, "disarm")
      BY <1>12 DEF Recheck
    <2>2. /\ call[e].pc = "recheck" /\ UNCHANGED <<base, gate, failure, word, carried, asleep>>
      BY <1>12 DEF Recheck, At, parking
    <2>3. /\ Renews(e)
          /\ \/ GoesTo(e, "disarm")
             \/ GoesTo(e, more) /\ ~Available(e, view'[e]) /\ e \notin aware'
      BY <1>3, <2>1, Looking DEF WaitLabels
    <2>4. PICK label \in {"disarm", "disarm_last", "sleep"} :
            GoesTo(e, label) /\ (label = "sleep" => ~Available(e, view'[e]) /\ e \notin aware')
      BY <2>3
    <2>5. e \notin poisoned
      BY <1>4, <2>2 DEF Between
    <2>6. Waits(e)
      BY <1>6, <2>2, <2>3, <2>4, <2>5 DEF WaitLabels
    <2>7. call'[e].pc = label /\ e \notin asleep'
      BY <1>4, <2>2, <2>4 DEF GoesTo
    <2>8. Guarded(e)'
      <3>1. \A p \in Procs : Pending(p, e) => Pending(p, e)'
        BY <2>6, WaitKept
      <3>2. Peer(e)' = Peer(e) /\ aware \subseteq aware'
        BY <2>2, <2>3 DEF base, cursors, Peer, Renews
      <3>3. view'[e] < Peer(e) => view[e] < Peer(e)
        BY <1>1, <2>3 DEF Renews
      <3> QED BY <1>1, <2>2, <3>1, <3>2, <3>3 DEF Coherent, Guarded
    <2>9. Resting(e)' /\ Armed(e)'
      <3>1. cursor' = cursor
        BY <2>2 DEF base, cursors
      <3> QED BY <2>4, <2>7, <3>1 DEF Resting, Armed, ArmedLabels, Available, Full
    <2> QED BY <2>6, <2>8, <2>9, WaitKept
  <1>13. CASE Sleep(e)
    <2>1. /\ call[e].pc = "sleep" /\ UNCHANGED <<base, control, loads, word, carried>>
          /\ IF word[Word(e)] = 1 THEN asleep' = asleep \cup {e} /\ Goto(e, "asleep")
                                  ELSE Goto(e, "disarm_again") /\ UNCHANGED asleep
      BY <1>13 DEF Sleep, At
    <2>2. PICK label \in {"asleep", "disarm_again"} :
            /\ GoesTo(e, label)
            /\ label = "asleep" => word[Word(e)] = 1
            /\ label = "disarm_again" => e \notin asleep'
      BY <1>2, <1>3, <1>4, <2>1 DEF WaitLabels
    <2>3. e \notin poisoned /\ asleep' \subseteq asleep \cup {e}
      BY <1>4, <2>1 DEF Between
    <2>4. Renews(e) /\ UNCHANGED <<gate, failure>>
      BY <1>5, <2>1
    <2>5. Waits(e)
      BY <1>6, <2>1, <2>2, <2>3, <2>4 DEF WaitLabels
    <2>6. call'[e].pc = label
      BY <2>2 DEF GoesTo
    <2>7. UNCHANGED <<word, view, aware, gate, cursor>> /\ Peer(e)' = Peer(e)
      BY <2>1 DEF base, cursors, control, loads, Peer
    <2>8. Guarded(e)'
      <3>1. \A p \in Procs : Pending(p, e) => Pending(p, e)'
        BY <2>5, WaitKept
      <3> QED BY <1>1, <2>1, <2>7, <3>1 DEF Coherent, Guarded
    <2>9. Resting(e)' /\ Armed(e)'
      BY <1>1, <2>1, <2>2, <2>6, <2>7
      DEF Coherent, Resting, Armed, ArmedLabels, Available, Full
    <2> QED BY <2>5, <2>8, <2>9, WaitKept
  <1>14. CASE Awake(e) \/ Timeout(e)
    <2>1. /\ call[e].pc = "asleep" /\ Goto(e, "disarm_again") /\ asleep' = asleep \ {e}
          /\ UNCHANGED <<base, control, loads, word, carried>>
      BY <1>14 DEF Awake, Timeout, At, parking
    <2>2. GoesTo(e, "disarm_again") /\ e \notin poisoned
      BY <1>2, <1>3, <1>4, <2>1 DEF WaitLabels, Between
    <2>3. Renews(e) /\ UNCHANGED <<gate, failure>>
      BY <1>5, <2>1
    <2>4. Waits(e)
      BY <1>6, <2>1, <2>2, <2>3 DEF WaitLabels
    <2>5. call'[e].pc = "disarm_again" /\ e \notin asleep'
      BY <2>1, <2>2 DEF GoesTo
    <2> QED BY <2>4, <2>5, WaitOff DEF ArmedLabels
  <1>15. CASE Disarm(e)
    <2>1. /\ \/ call[e].pc = "disarm" /\ Goto(e, "idle")
             \/ call[e].pc = "disarm_again" /\ Goto(e, "again")
             \/ call[e].pc = "disarm_last" /\ Goto(e, "last")
          /\ word' = [word EXCEPT ![Word(e)] = 0]
          /\ Acquire(e) /\ UNCHANGED <<base, carried, asleep>>
      BY <1>15 DEF Disarm, At
    <2>2. PICK label \in {"idle", "again", "last"} : GoesTo(e, label)
      BY <1>2, <1>3, <2>1 DEF WaitLabels
    <2>3. e \notin poisoned /\ e \notin asleep /\ call[e].pc \in WaitLabels
      BY <1>4, <2>1 DEF Between, WaitLabels
    <2>4. Renews(e) /\ UNCHANGED <<gate, failure>>
      BY <2>1, Acquiring
    <2>5. Waits(e)
      BY <1>6, <2>1, <2>2, <2>3, <2>4 DEF WaitLabels
    <2>6. call'[e].pc = label /\ word'[Word(e)] = 0 /\ e \notin asleep'
      BY <1>1, <2>1, <2>2, <2>3 DEF GoesTo
    <2> QED BY <2>5, <2>6, WaitOff
  <1>16. CASE Again(e)
    BY <1>7, <1>16 DEF Again, At, parking
  <1>17. CASE LastLook(e)
    BY <1>7, <1>17 DEF LastLook, At, parking
  <1> QED BY <1>10, <1>11, <1>12, <1>13, <1>14, <1>15, <1>16, <1>17 DEF WaitStep
-----------------------------------------------------------------------------
(***************************************************************************)
(* The theorems.                                                           *)
(***************************************************************************)

\* The constructed ring satisfies the invariant.
LEMMA ParkInitInvariant == ParkInit => ParkInv
  <1> SUFFICES ASSUME ParkInit PROVE ParkInv
    OBVIOUS
  <1>1. IInv
    BY InitInvariant DEF ParkInit
  <1>2. /\ gate = "READY" /\ aware = {} /\ asleep = {} /\ published = 0 /\ reclaimed = 0
        /\ \A p \in Procs : call[p].pc = "idle"
        /\ \A e \in Endpoints : /\ word[Word(e)] = 0 /\ carried[Word(e)].peer = 0
                                /\ carried[Word(e)].retired = FALSE
    BY Names DEF ParkInit, Init, NoCall
  <1>3. ParkTypes
    BY <1>2, Names DEF ParkTypes, ParkInit, Peer
  <1>4. ASSUME NEW e \in Endpoints PROVE Coherent(e)
    <2>1. e \in Procs /\ Peer(e) = 0
      BY <1>2, Names DEF Peer
    <2> QED BY <1>2, <1>4, <2>1 DEF Coherent, Carries, Guarded, Resting, Armed
  <1> QED BY <1>1, <1>3, <1>4 DEF ParkInv

\* Every step keeps it.
LEMMA ParkNextInvariant == ParkInv /\ [ParkNext]_parkVars => ParkInv'
  <1> SUFFICES ASSUME ParkInv, [ParkNext]_parkVars PROVE ParkInv'
    OBVIOUS
  <1>1. CASE [Next]_vars /\ UNCHANGED parking
    <2>1. IInv'
      BY <1>1, NextInvariant DEF ParkInv
    <2> QED BY <1>1, <2>1, PollCoherent
  <1>2. CASE UNCHANGED parkVars
    BY <1>1, <1>2 DEF parkVars
  <1>3. ASSUME NEW e \in Endpoints, Expire(e) PROVE ParkInv'
    <2>1. UNCHANGED vars /\ UNCHANGED <<word, carried, asleep>>
      BY <1>3 DEF Expire
    <2>2. IInv'
      BY <2>1, NextInvariant DEF ParkInv
    <2>3. UNCHANGED <<gate, aware, published, reclaimed, cursor, view, call>>
      BY <2>1 DEF vars, control, cursors, loads
    <2>4. ParkTypes'
      BY <2>1, <2>3 DEF ParkInv, ParkTypes, Peer
    <2>5. \A x \in Endpoints : Spared(x)
      BY <2>1, <2>3 DEF Spared, Pending, Waking, Peer
    <2>6. aware \subseteq Procs /\ aware' \subseteq Procs
      BY <2>3 DEF ParkInv, IInv, Safe, TypeOK
    <2> QED BY <2>2, <2>4, <2>5, <2>6, CoherentKept DEF ParkInv
  <1> QED BY <1>1, <1>2, <1>3, NotifyCoherent, WaitCoherent DEF ParkNext

\* The invariant holds in every reachable state of every parkable ring.
THEOREM ParkInvariance == ParkSpec => []ParkInv
  BY ParkInitInvariant, ParkNextInvariant, PTL DEF ParkSpec

\* No wake-up is lost: whenever an endpoint sleeps although its peer has moved
\* or the generation has retired, somebody is still to notify or to wake it,
\* however stale the loads were that sent it to sleep; and none is spurious: a
\* word is armed only while its owner waits (el_wait, el_notify).
THEOREM NoWakeupLost == ParkSpec => []WakeupsExact
  <1>1. ParkInv => WakeupsExact
    <2> SUFFICES ASSUME ParkInv PROVE WakeupsExact
      OBVIOUS
    <2>1. TypeOK /\ aware \subseteq Procs
      BY DEF ParkInv, IInv, Safe, TypeOK
    <2>2. ASSUME NEW p \in Procs, NEW e \in Endpoints, Pending(p, e) \/ Waking(p, e)
          PROVE  WillWake(p, e)
      <3>1. /\ call[p].pc \in {"notify", "wake"}
            /\ call[p].notify \in NotifyLists /\ call[p].notify # <<>>
        BY <2>1, <2>2, CallTypes DEF ParkInv, ParkTypes, Pending, Waking
      <3>2. PICK l \in NotifyLists : l = call[p].notify /\ l # <<>>
        BY <3>1
      <3>3. /\ \E i \in DOMAIN l : l[i] = Head(l)
            /\ (\E i \in DOMAIN Tail(l) : Tail(l)[i] = Word(e)) => \E i \in DOMAIN l : l[i] = Word(e)
        <4>1. CASE l = <<"data">>
          BY <4>1
        <4>2. CASE l = <<"space">>
          BY <4>2
        <4>3. CASE l = <<"data", "space">>
          BY <4>3
        <4> QED BY <3>2, <4>1, <4>2, <4>3 DEF NotifyLists
      <3> QED BY <2>2, <3>1, <3>2, <3>3 DEF WillWake, Pending, Waking
    <2>3. ASSUME NEW e \in asleep, e \in Endpoints, Due(e) PROVE \E p \in Procs : WillWake(p, e)
      <3>1. /\ Coherent(e) /\ Other(e) \in Procs
            /\ view[e] \in Nat /\ Peer(e) \in Nat /\ view[e] <= Peer(e)
        <4>1. view[e] \in Nat /\ Peer(e) \in Nat /\ view[e] <= Peer(e)
          BY <2>1, <2>3, Names, StateTypes, Sizes
        <4> QED BY <2>3, <4>1, Names DEF ParkInv
      <3>2. /\ call[e].pc = "asleep" /\ ~Available(e, view[e]) /\ e \notin aware
            /\ word[Word(e)] = 1 \/ \E p \in Procs : Waking(p, e)
        BY <3>1 DEF Coherent, Resting
      <3>3. CASE \E p \in Procs : Waking(p, e)
        BY <2>2, <2>3, <3>3
      <3>4. CASE word[Word(e)] = 1 /\ gate # "READY"
        <4>1. \E p \in aware : Pending(p, e)
          BY <3>1, <3>2, <3>4 DEF Coherent, Guarded
        <4> QED BY <2>1, <2>2, <2>3, <4>1
      <3>5. CASE word[Word(e)] = 1 /\ gate = "READY"
        <4>1. Available(e, Peer(e))
          BY <2>3, <3>5 DEF Due
        <4>2. view[e] # Peer(e)
          BY <3>2, <4>1
        <4>3. view[e] < Peer(e)
          BY <3>1, <4>2
        <4>4. Pending(Other(e), e)
          BY <3>1, <3>2, <3>5, <4>3 DEF Coherent, Guarded
        <4> QED BY <2>2, <2>3, <3>1, <4>4
      <3> QED BY <3>2, <3>3, <3>4, <3>5
    <2>4. \A w \in Words : word[w] = 1 => call[Waiter(w)].pc \in ArmedLabels
      BY Names DEF ParkInv, Coherent, Armed
    <2>5. asleep \subseteq Endpoints
      BY DEF ParkInv, ParkTypes
    <2> QED BY <2>3, <2>4, <2>5 DEF WakeupsExact
  <1> QED BY <1>1, ParkInvariance, PTL

\* The safety of the polled ring, in one whose endpoints also wait and wake:
\* no two endpoints are ever about to access the same block (el_spsc_reserve,
\* el_spsc_borrow);
THEOREM NeverRacingParked == ParkSpec => []RaceFree
  BY ParkInvariance, InvariantRaceFree, PTL DEF ParkInv

\* every message between the cursors is the one committed at its ticket
\* (el_spsc_commit, el_spsc_borrow);
THEOREM MessagesIntactParked == ParkSpec => []MessageIntact
  BY ParkInvariance, InvariantIntact, PTL DEF ParkInv

\* and el_wait's own loads never make the later checks of el_spsc_reserve,
\* el_spsc_borrow and el_spsc_release condemn a correct generation.
THEOREM NeverFalselyAlarmedParked == ParkSpec => []NoFalseAlarm
  BY ParkInvariance, PTL DEF ParkInv, IInv, Safe

\* Waiting, waking and notifying leave the channel alone.
LEMMA ParkStutters ==
  ASSUME ParkInv,
         \/ \E p \in Procs : NotifyStep(p)
         \/ \E e \in Endpoints : Wait(e) \/ WaitStep(e) \/ Expire(e)
  PROVE  Simulated
  <1>1. /\ TypeOK /\ ParkTypes /\ call \in [Procs -> Calls] /\ Endpoints \subseteq Procs
        /\ Producer \in Procs
    BY CallTypes, Sizes DEF ParkInv, IInv, Safe
  <1>2. ASSUME UNCHANGED base,
               call'[Producer].pc = call[Producer].pc
                 \/ (call[Producer].pc # "stamp" /\ call'[Producer].pc # "stamp")
        PROVE  Simulated
    <2>1. UNCHANGED <<cursors, retained, desc, token>>
      BY <1>2 DEF base, history
    <2>2. UNCHANGED <<Writing, Reading>>
      BY <1>2, <2>1 DEF Writing, Reading, cursors
    <2> QED BY <2>1, <2>2, Frame, Stuttering DEF Simulated, Mapped
  <1>3. ASSUME NEW p \in Procs, NotifyStep(p) PROVE Simulated
    <2>1. /\ call[p].pc \in {"notify", "wake"} /\ UNCHANGED base
          /\ NextWord(p) \/ Goto(p, "wake")
      BY <1>3 DEF NotifyStep, Notify, Wake, At
    <2>2. /\ \A x \in Procs \ {p} : call'[x] = call[x]
          /\ call'[p].pc \in Between
      BY <1>1, <2>1, NextWords DEF ParkTypes
    <2> QED BY <1>1, <1>2, <2>1, <2>2 DEF Between
  <1>4. ASSUME NEW e \in Endpoints, NEW label \in WaitLabels \cup {"idle"}, Goto(e, label),
               call[e].pc \in WaitLabels \cup {"idle"}, UNCHANGED base
        PROVE  Simulated
    <2>1. /\ call'[e].pc = label /\ \A x \in Procs \ {e} : call'[x] = call[x]
      BY <1>1, <1>4 DEF Goto, Calls
    <2> QED BY <1>1, <1>2, <1>4, <2>1 DEF WaitLabels
  <1>5. ASSUME NEW e \in Endpoints, Wait(e) \/ WaitStep(e)
        PROVE  /\ call[e].pc \in WaitLabels \cup {"idle"} /\ UNCHANGED base
               /\ \E label \in WaitLabels \cup {"idle"} : Goto(e, label)
    <2>1. \A more, done \in WaitLabels \cup {"idle"} :
            Predicate(e, more, done) => \E label \in WaitLabels \cup {"idle"} : Goto(e, label)
      BY DEF Predicate
    <2> QED BY <1>5, <2>1 DEF Wait, WaitStep, Arm, Recheck, Sleep, Awake, Timeout, Disarm, Again,
                              LastLook, At, WaitLabels
  <1>6. ASSUME NEW e \in Endpoints, Expire(e) PROVE Simulated
    BY <1>2, <1>6 DEF Expire, vars, base
  <1> QED BY <1>3, <1>4, <1>5, <1>6

\* A parkable ring implements the channel: a wait or a wake changes nothing of
\* it, and no step of a reservation, publication, borrowing or return is undone
\* or repeated by one (el_wait, el_notify).
THEOREM ParkImplementation == ParkSpec => ImplementsChannel
  <1>1. ParkInv /\ [ParkNext]_parkVars => Simulated
    <2>1. ASSUME ParkInv, [Next]_vars PROVE Simulated
      BY <2>1, ProducerSimulated, ConsumerSimulated, OthersSimulated DEF Next, ParkInv
    <2> QED BY <2>1, ParkStutters DEF ParkNext, parkVars
  <1>2. ParkInit => Promise!Init
    BY InitSimulated DEF ParkInit
  <1> QED BY <1>1, <1>2, ParkInvariance, PTL
          DEF ParkSpec, Simulated, ImplementsChannel, Promise!Spec
=============================================================================
