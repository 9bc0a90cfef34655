----------------------------- MODULE NcqSafety -----------------------------
(***************************************************************************)
(* What the descriptor of a block says, wherever the block is: the phase   *)
(* protocol of elite_mpmc_ncq.c is kept by every interleaving, so its own  *)
(* integrity checks never fail and every published or borrowed block       *)
(* carries the message of its epoch.                                       *)
(*                                                                         *)
(* The accesses to a descriptor are ordinary ones, so the argument is one  *)
(* of ownership: a step writes only the descriptor of the block its own    *)
(* process holds (Local), which by Partition is in no queue and in nobody  *)
(* else's hands.                                                           *)
(***************************************************************************)
EXTENDS NcqProofs, SequenceTheorems

\* A descriptor as its place prescribes: in QF, in QR.
Free(d)      == d.phase = "EMPTY" /\ d.stamp = d.epoch
Published(d) == /\ d.phase = "COMMITTED" /\ d.epoch >= 1
                /\ d.stamp = d.epoch /\ d.meta = d.epoch
Filed == /\ \A b \in Contents("QF") : Free(desc[b])
         /\ \A b \in Contents("QR") : Published(desc[b])

\* Which side of the ring a call is on, by its role and by its queue.
Dequeuing == {"deq_head", "deq_entry", "deq_cas"}
Enqueuing == {"enq_tail", "enq_entry", "enq_help", "enq_install"}
Sided(e) ==
  LET c == call[e]
      k == token[e].owned
  IN  /\ k = "write" => e \in Producers
      /\ k = "read" => e \in Consumers
      /\ c.pc \in Dequeuing => c.queue = IF e \in Producers THEN "QF" ELSE "QR"
      /\ c.pc = "drain" => e \in Consumers /\ c.queue = "QR"
      /\ c.pc = "commit" => k = "write" /\ c.queue = "QR"
      /\ c.pc \in {"return_failure", "return"} => c.queue = "QF"
      /\ c.pc \in Enqueuing /\ c.queue = "QR" => k = "write"

\* The descriptor of a block in an endpoint's hands: as the queue it was
\* claimed from left it, then in the phase of its token, then as the queue it
\* goes to prescribes.  A call that failed leaves the phase where it was.
Between(e) == \/ call[e].pc \in {"commit", "return_failure", "return"}
              \/ call[e].pc \in {"idle", "retire", "retire_gate", "retire_cas"} /\ e \notin poisoned
Kept(e) ==
  LET c == call[e]
      k == token[e].owned
      d == desc[token[e].block]
  IN  Holding(e) =>
        /\ c.pc = "claimed" => IF k = "write" THEN Free(d) ELSE Published(d)
        /\ Between(e) => IF k = "write" THEN InPhase(e, "RESERVED") /\ d.epoch >= 1
                                        ELSE InPhase(e, "CONSUMED")
        /\ c.pc \in Enqueuing => IF c.queue = "QF" THEN Free(d) ELSE Published(d)
        /\ k = "read" /\ c.pc # "claimed" => d.meta = token[e].epoch

\* The inductive invariant behind MessageIntact and NoFalseAlarm.
Sound == /\ Filed
         /\ \A e \in Endpoints : Sided(e) /\ Kept(e)
         /\ NoFalseAlarm
-----------------------------------------------------------------------------
(***************************************************************************)
(* What a step does to the calls, the tokens and the descriptors.          *)
(***************************************************************************)

\* A step of p writes the call and the token of p and the descriptor of the
\* block p holds; it raises no alarm, and leaves p's own block in order.
Local(p) ==
  /\ \A x \in Procs \ {p} : call'[x] = call[x]
  /\ \A x \in Endpoints \ {p} : token'[x] = token[x] /\ (x \in poisoned' <=> x \in poisoned)
  /\ \A b \in Blocks : \/ desc'[b] = desc[b]
                       \/ p \in Endpoints /\ Holding(p) /\ token[p].block = b
  /\ call'[p].why \notin {"INTEGRITY", "PROTOCOL"} \ Reasons
  /\ p \in Endpoints => Sided(p)' /\ Kept(p)'

\* The label, the queue and the reason of a call after each of its moves.
LEMMA CallAfter ==
  ASSUME TypeOK, NEW p \in Procs
  PROVE  /\ \A l : Goto(p, l) =>
               /\ call'[p].pc = l /\ call'[p].queue = call[p].queue
               /\ call'[p].why = call[p].why
               /\ \A x \in Procs \ {p} : call'[x] = call[x]
         /\ \A l, q : Enter(p, l, q) =>
               /\ call'[p].pc = l /\ call'[p].queue = q /\ call'[p].why = "none"
               /\ \A x \in Procs \ {p} : call'[x] = call[x]
         /\ Finish(p) =>
               /\ call'[p].pc = "idle" /\ call'[p].why = "none"
               /\ \A x \in Procs \ {p} : call'[x] = call[x]
         /\ \A r : StartRetire(p, r) =>
               /\ call'[p].pc = "retire" /\ call'[p].why = r
               /\ \A x \in Procs \ {p} : call'[x] = call[x]
  <1>1. \A c : call' = [call EXCEPT ![p] = c] =>
          call'[p] = c /\ \A x \in Procs \ {p} : call'[x] = call[x]
    BY DEF TypeOK
  <1>2. call[p] \in Calls
    BY DEF TypeOK
  <1>3. ASSUME NEW l, NEW q, Enter(p, l, q)
        PROVE  /\ call'[p].pc = l /\ call'[p].queue = q /\ call'[p].why = "none"
               /\ \A x \in Procs \ {p} : call'[x] = call[x]
    BY <1>1, <1>3 DEF Enter, NoCall
  <1>4. ASSUME Finish(p)
        PROVE  /\ call'[p].pc = "idle" /\ call'[p].why = "none"
               /\ \A x \in Procs \ {p} : call'[x] = call[x]
    BY <1>1, <1>4 DEF Finish, NoCall
  <1>5. ASSUME NEW r, StartRetire(p, r)
        PROVE  /\ call'[p].pc = "retire" /\ call'[p].why = r
               /\ \A x \in Procs \ {p} : call'[x] = call[x]
    BY <1>1, <1>5 DEF StartRetire, NoCall
  <1>6. ASSUME NEW l, Goto(p, l)
         PROVE  /\ call'[p].pc = l /\ call'[p].queue = call[p].queue
                /\ call'[p].why = call[p].why
                /\ \A x \in Procs \ {p} : call'[x] = call[x]
    <2>1. /\ call'[p] = [call[p] EXCEPT !.pc = l]
          /\ \A x \in Procs \ {p} : call'[x] = call[x]
      BY <1>1, <1>6 DEF Goto
    <2> QED BY <1>2, <2>1 DEF Calls
  <1> QED BY <1>3, <1>4, <1>5, <1>6

\* The same for a call that keeps the ticket or the entry it loaded.
LEMMA CallLoads ==
  ASSUME TypeOK, NEW p \in Procs
  PROVE  /\ \A l, t : call' = [call EXCEPT ![p] = [@ EXCEPT !.pc = l, !.ticket = t]] =>
               /\ call'[p].pc = l /\ call'[p].queue = call[p].queue
               /\ call'[p].why = call[p].why
               /\ \A x \in Procs \ {p} : call'[x] = call[x]
         /\ \A l, w : call' = [call EXCEPT ![p] = [@ EXCEPT !.pc = l, !.seen = w]] =>
               /\ call'[p].pc = l /\ call'[p].queue = call[p].queue
               /\ call'[p].why = call[p].why
               /\ \A x \in Procs \ {p} : call'[x] = call[x]
  <1>1. \A c : call' = [call EXCEPT ![p] = c] =>
          call'[p] = c /\ \A x \in Procs \ {p} : call'[x] = call[x]
    BY DEF TypeOK
  <1>2. call[p] \in Calls
    BY DEF TypeOK
  <1>3. ASSUME NEW l, NEW t, call' = [call EXCEPT ![p] = [@ EXCEPT !.pc = l, !.ticket = t]]
         PROVE  /\ call'[p].pc = l /\ call'[p].queue = call[p].queue
                /\ call'[p].why = call[p].why
                /\ \A x \in Procs \ {p} : call'[x] = call[x]
    <2>1. /\ call'[p] = [call[p] EXCEPT !.pc = l, !.ticket = t]
          /\ \A x \in Procs \ {p} : call'[x] = call[x]
      BY <1>1, <1>3
    <2> QED BY <1>2, <2>1 DEF Calls
  <1>4. ASSUME NEW l, NEW w, call' = [call EXCEPT ![p] = [@ EXCEPT !.pc = l, !.seen = w]]
         PROVE  /\ call'[p].pc = l /\ call'[p].queue = call[p].queue
                /\ call'[p].why = call[p].why
                /\ \A x \in Procs \ {p} : call'[x] = call[x]
    <2>1. /\ call'[p] = [call[p] EXCEPT !.pc = l, !.seen = w]
          /\ \A x \in Procs \ {p} : call'[x] = call[x]
      BY <1>1, <1>4
    <2> QED BY <1>2, <2>1 DEF Calls
  <1> QED BY <1>3, <1>4

\* A step that keeps the descriptors, the token and the poison of its process.
LEMMA LocalMove ==
  ASSUME TypeOK, NEW e \in Endpoints, UNCHANGED <<desc, token, poisoned>>,
         \A x \in Procs \ {e} : call'[x] = call[x],
         call'[e].why \notin {"INTEGRITY", "PROTOCOL"} \ Reasons,
         Sided(e)', Kept(e)'
  PROVE  Local(e)
  BY DEF Local

\* el_fail poisons the connection and leaves its block as it was.
LEMMA LocalFail ==
  ASSUME TypeOK, NEW e \in Endpoints, Sided(e), Kept(e),
         NEW r, r \notin {"INTEGRITY", "PROTOCOL"}, Fail(e, r), UNCHANGED <<desc, token>>,
         call[e].pc # "enq_advance",
         call[e].pc = "claimed" => token[e].owned = "write"
  PROVE  Local(e)
  <1>1. /\ call'[e].pc = "retire" /\ call'[e].why = r
        /\ \A x \in Procs \ {e} : call'[x] = call[x]
    BY CallAfter, StateTypes DEF Fail
  <1>2. poisoned' = poisoned \cup {e}
    BY DEF Fail
  <1>3. Sided(e)'
    BY <1>1 DEF Sided, Dequeuing, Enqueuing
  <1>4. Kept(e)'
    BY <1>1, <1>2 DEF Kept, Holding, Between, Enqueuing
  <1> QED BY <1>1, <1>2, <1>3, <1>4 DEF Local

\* A step that hands out no token and takes none: the call moves to a label at
\* which as much is known of its block, or no token is held.
LEMMA LocalCall ==
  ASSUME TypeOK, NEW e \in Endpoints, Kept(e), UNCHANGED <<desc, token, poisoned>>,
         \A x \in Procs \ {e} : call'[x] = call[x],
         call'[e].why \notin {"INTEGRITY", "PROTOCOL"} \ Reasons,
         Sided(e)',
         \/ token[e].owned = "none"
         \/ /\ call[e].pc \in Enqueuing
            /\ \/ call'[e].pc = "enq_advance"
               \/ call'[e].pc \in Enqueuing /\ call'[e].queue = call[e].queue
         \/ /\ call[e].pc \in {"idle", "retire", "retire_gate", "retire_cas", "commit",
                               "return_failure", "return"}
            /\ call'[e].pc \in {"idle", "retire", "retire_gate", "retire_cas", "commit",
                               "return_failure", "return"}
            /\ Between(e)' => Between(e)
  PROVE  Local(e)
  <1>1. CASE token[e].owned = "none"
    <2>1. Kept(e)'
      BY <1>1 DEF Kept, Holding
    <2> QED BY <2>1, LocalMove
  <1>2. CASE call'[e].pc = "enq_advance"
    <2>1. Kept(e)'
      BY <1>2 DEF Kept, Holding
    <2> QED BY <2>1, LocalMove
  <1>3. CASE /\ call[e].pc \in Enqueuing /\ call'[e].pc \in Enqueuing
             /\ call'[e].queue = call[e].queue
    <2>1. Kept(e)'
      BY <1>3 DEF Kept, Holding, Between, Enqueuing
    <2> QED BY <2>1, LocalMove
  <1>4. CASE /\ call[e].pc \in {"idle", "retire", "retire_gate", "retire_cas", "commit",
                                "return_failure", "return"}
             /\ call'[e].pc \in {"idle", "retire", "retire_gate", "retire_cas", "commit",
                                 "return_failure", "return"}
             /\ Between(e)' => Between(e)
    <2>1. Holding(e)' => Holding(e)
      BY <1>4 DEF Holding
    <2>2. Kept(e)'
      BY <1>4, <2>1 DEF Kept, Enqueuing, InPhase
    <2> QED BY <2>2, LocalMove
  <1> QED BY <1>1, <1>2, <1>3, <1>4

\* What the steps of one endpoint start from.
LEMMA OwnFacts ==
  ASSUME IInv, Sound, NEW e \in Endpoints
  PROVE  /\ TypeOK /\ CallCoherent(e) /\ Sided(e) /\ Kept(e)
         /\ e \in Procs /\ call[e].why \notin {"INTEGRITY", "PROTOCOL"} \ Reasons
         /\ token[e].block \in Blocks /\ desc[token[e].block] \in Descriptors
         /\ token \in [Endpoints -> Tokens] /\ desc \in [Blocks -> Descriptors]
         /\ token[e] \in Tokens /\ call[e].queue \in Queues
  BY StateTypes DEF IInv, Sound, NoFalseAlarm, TypeOK

\* The steps of a dequeue: its claim takes over a block as its queue kept it.
LEMMA DequeueLocal ==
  ASSUME IInv, Sound, NEW e \in Endpoints,
         DequeueHead(e) \/ DequeueEntry(e) \/ DequeueClaim(e)
  PROVE  Local(e)
  <1>1. /\ TypeOK /\ CallCoherent(e) /\ Sided(e) /\ Kept(e)
        /\ e \in Procs /\ call[e].why \notin {"INTEGRITY", "PROTOCOL"} \ Reasons
        /\ token \in [Endpoints -> Tokens] /\ call[e].queue \in Queues
    BY OwnFacts
  <1>2. call[e].pc \in Dequeuing /\ token[e].owned = "none"
    BY <1>1 DEF DequeueHead, DequeueEntry, DequeueClaim, At, CallCoherent, Dequeuing
  <1>3. call[e].queue = IF e \in Producers THEN "QF" ELSE "QR"
    BY <1>1, <1>2 DEF Sided
  <1>4. ASSUME UNCHANGED <<desc, token, poisoned>>, call'[e].pc \in Dequeuing \cup {"idle"},
               call'[e].queue = call[e].queue \/ call'[e].pc = "idle",
               call'[e].why = call[e].why \/ call'[e].why = "none",
               \A x \in Procs \ {e} : call'[x] = call[x]
        PROVE  Local(e)
    <2>1. Sided(e)'
      BY <1>2, <1>3, <1>4 DEF Sided, Dequeuing, Enqueuing
    <2> QED BY <1>1, <1>2, <1>4, <2>1, LocalCall
  <1>5. ASSUME NEW r, r \notin {"INTEGRITY", "PROTOCOL"}, Fail(e, r), UNCHANGED <<desc, token>>
        PROVE  Local(e)
    BY <1>1, <1>2, <1>5, LocalFail DEF Dequeuing
  <1>6. CASE DequeueHead(e)
    <2>1. ~(head[call[e].queue] > TicketCeiling)
      BY <1>1, StateTypes, CeilingType
    <2>2. /\ call'[e].pc = "deq_entry" /\ call'[e].queue = call[e].queue
          /\ call'[e].why = call[e].why
          /\ \A x \in Procs \ {e} : call'[x] = call[x]
      <3>1. call' = [call EXCEPT ![e] =
                       [@ EXCEPT !.pc = "deq_entry", !.ticket = head[call[e].queue]]]
        BY <1>6, <2>1 DEF DequeueHead
      <3> QED BY <1>1, <3>1, CallLoads
    <2>3. UNCHANGED <<desc, token, poisoned>>
      BY <1>6, <2>1 DEF DequeueHead
    <2> QED BY <1>4, <2>2, <2>3 DEF Dequeuing
  <1>7. CASE DequeueEntry(e)
    <2>1. CASE Fail(e, "COUNTER")
      BY <1>5, <1>7, <2>1 DEF DequeueEntry
    <2>2. CASE UNCHANGED poisoned /\ ~Fail(e, "COUNTER")
      <3>1. /\ call'[e].pc \in {"deq_cas", "idle", "deq_head"}
            /\ call'[e].queue = call[e].queue \/ call'[e].pc = "idle"
            /\ call'[e].why = call[e].why \/ call'[e].why = "none"
            /\ \A x \in Procs \ {e} : call'[x] = call[x]
        <4>1. \/ Finish(e) \/ Goto(e, "deq_head")
              \/ \E w : call' = [call EXCEPT ![e] = [@ EXCEPT !.pc = "deq_cas", !.seen = w]]
          BY <1>7, <2>2 DEF DequeueEntry
        <4>2. CASE Finish(e)
          BY <1>1, <4>2, CallAfter
        <4>3. CASE Goto(e, "deq_head")
          BY <1>1, <4>3, CallAfter
        <4>4. ASSUME NEW w, call' = [call EXCEPT ![e] = [@ EXCEPT !.pc = "deq_cas", !.seen = w]]
              PROVE  /\ call'[e].pc = "deq_cas"
                     /\ call'[e].queue = call[e].queue /\ call'[e].why = call[e].why
                     /\ \A x \in Procs \ {e} : call'[x] = call[x]
          BY <1>1, <4>4, CallLoads
        <4> QED BY <4>1, <4>2, <4>3, <4>4
      <3> QED BY <1>4, <1>7, <2>2, <3>1 DEF DequeueEntry, Dequeuing
    <2> QED BY <1>7, <2>1, <2>2 DEF DequeueEntry
  <1>8. CASE DequeueClaim(e)
    <2>1. CASE head[call[e].queue] # call[e].ticket
      <3>1. /\ call'[e].pc = "deq_head" /\ call'[e].queue = call[e].queue
            /\ call'[e].why = call[e].why
            /\ \A x \in Procs \ {e} : call'[x] = call[x]
        BY <1>1, <1>8, <2>1, CallAfter DEF DequeueClaim
      <3> QED BY <1>4, <1>8, <2>1, <3>1 DEF DequeueClaim, Dequeuing, flags
    <2>2. CASE Claims(e)
      <3>1. PICK q, h : q = call[e].queue /\ h = call[e].ticket
        OBVIOUS
      <3>2. /\ q \in Queues /\ h \in Tickets(q)
            /\ Holding(e)' /\ token'[e].block = Slot(q, h)
        BY <2>2, <3>1, ClaimStep
      <3>3. Slot(q, h) \in Contents(q)
        BY <3>2 DEF Contents
      <3>4. /\ call'[e].pc = "claimed" /\ call'[e].why = call[e].why
            /\ \A x \in Procs \ {e} : call'[x] = call[x]
        BY <1>1, <1>8, <2>2, CallAfter DEF DequeueClaim, Claims
      <3>5. /\ token'[e].owned = IF q = "QF" THEN "write" ELSE "read"
            /\ \A x \in Endpoints \ {e} : token'[x] = token[x]
            /\ UNCHANGED <<desc, poisoned>>
        BY <1>1, <1>8, <2>2, <3>1 DEF DequeueClaim, Claims, flags
      <3>6. Sided(e)'
        BY <1>3, <3>1, <3>4, <3>5 DEF Sided, Dequeuing, Enqueuing, Endpoints
      <3>7. PICK b : b = Slot(q, h)
        OBVIOUS
      <3>8. IF token'[e].owned = "write" THEN Free(desc[b]) ELSE Published(desc[b])
        BY <3>2, <3>3, <3>5, <3>7 DEF Sound, Filed, Queues
      <3>9. Kept(e)'
        BY <3>2, <3>4, <3>5, <3>7, <3>8 DEF Kept, Between, Enqueuing, Free, Published
      <3> QED BY <1>1, <3>4, <3>5, <3>6, <3>9 DEF Local
    <2> QED BY <1>8, <2>1, <2>2 DEF Claims
  <1> QED BY <1>6, <1>7, <1>8

\* The steps of an enqueue: it hands over a block as its queue prescribes.
LEMMA EnqueueLocal ==
  ASSUME IInv, Sound, NEW e \in Endpoints,
         \/ EnqueueTail(e) \/ EnqueueEntry(e) \/ EnqueueHelp(e)
         \/ EnqueueInstall(e) \/ EnqueueAdvance(e)
  PROVE  Local(e)
  <1>1. /\ TypeOK /\ CallCoherent(e) /\ Sided(e) /\ Kept(e)
        /\ e \in Procs /\ call[e].why \notin {"INTEGRITY", "PROTOCOL"} \ Reasons
        /\ token \in [Endpoints -> Tokens] /\ token[e] \in Tokens
    BY OwnFacts
  <1>2. ASSUME UNCHANGED <<desc, token, poisoned>>, call[e].pc \in Enqueuing,
               call'[e].pc \in Enqueuing \cup {"enq_advance"},
               call'[e].queue = call[e].queue, call'[e].why = call[e].why,
               \A x \in Procs \ {e} : call'[x] = call[x]
        PROVE  Local(e)
    <2>1. Sided(e)'
      BY <1>1, <1>2 DEF Sided, Dequeuing, Enqueuing
    <2> QED BY <1>1, <1>2, <2>1, LocalCall
  <1>3. CASE EnqueueTail(e)
    <2>1. CASE Fail(e, "COUNTER")
      BY <1>1, <1>3, <2>1, LocalFail DEF EnqueueTail, At
    <2>2. CASE ~Fail(e, "COUNTER")
      <3>1. /\ call'[e].pc = "enq_entry" /\ call'[e].queue = call[e].queue
            /\ call'[e].why = call[e].why
            /\ \A x \in Procs \ {e} : call'[x] = call[x]
        <4>1. call' = [call EXCEPT ![e] =
                         [@ EXCEPT !.pc = "enq_entry", !.ticket = tail[call[e].queue]]]
          BY <1>3, <2>2 DEF EnqueueTail
        <4> QED BY <1>1, <4>1, CallLoads
      <3> QED BY <1>2, <1>3, <2>2, <3>1 DEF EnqueueTail, At, Enqueuing
    <2> QED BY <2>1, <2>2
  <1>4. CASE EnqueueEntry(e)
    <2>1. /\ call'[e].pc \in {"enq_help", "enq_install", "enq_tail"}
          /\ call'[e].queue = call[e].queue /\ call'[e].why = call[e].why
          /\ \A x \in Procs \ {e} : call'[x] = call[x]
      <3>1. PICK w : w = entry[call[e].queue][Index(call[e].ticket)]
        OBVIOUS
      <3>2. PICK l \in {"enq_help", "enq_install", "enq_tail"} :
              call' = [call EXCEPT ![e] = [@ EXCEPT !.pc = l, !.seen = w]]
        BY <1>4, <3>1 DEF EnqueueEntry
      <3> QED BY <1>1, <3>2, CallLoads
    <2> QED BY <1>2, <1>4, <2>1 DEF EnqueueEntry, At, Enqueuing, flags
  <1>5. CASE EnqueueHelp(e) \/ EnqueueInstall(e)
    <2>1. /\ call'[e].pc \in {"enq_tail", "enq_advance"}
          /\ call'[e].queue = call[e].queue /\ call'[e].why = call[e].why
          /\ \A x \in Procs \ {e} : call'[x] = call[x]
      BY <1>1, <1>5, CallAfter DEF EnqueueHelp, EnqueueInstall
    <2> QED BY <1>2, <1>5, <2>1 DEF EnqueueHelp, EnqueueInstall, At, Enqueuing, flags
  <1>6. CASE EnqueueAdvance(e)
    <2>1. /\ call'[e].pc = "idle" /\ call'[e].why = "none"
          /\ \A x \in Procs \ {e} : call'[x] = call[x]
      BY <1>1, <1>6, CallAfter DEF EnqueueAdvance
    <2>2. /\ token'[e].owned = "none" /\ UNCHANGED <<desc, poisoned>>
          /\ \A x \in Endpoints \ {e} : token'[x] = token[x]
      BY <1>1, <1>6 DEF EnqueueAdvance, NoToken, flags
    <2>3. Sided(e)' /\ Kept(e)'
      BY <2>1, <2>2 DEF Sided, Kept, Holding, Dequeuing, Enqueuing
    <2> QED BY <2>1, <2>2, <2>3 DEF Local
  <1> QED BY <1>3, <1>4, <1>5, <1>6

\* The steps that read and write a descriptor: their checks succeed, and they
\* leave the block in the phase its token or its next queue prescribes.
LEMMA BlockLocal ==
  ASSUME IInv, Sound, NEW e \in Endpoints,
         ReserveBlock(e) \/ CommitBlock(e) \/ ReadMetadata(e) \/ ReturnBlock(e)
  PROVE  Local(e)
  <1>1. /\ TypeOK /\ CallCoherent(e) /\ Sided(e) /\ Kept(e)
        /\ e \in Procs /\ call[e].why \notin {"INTEGRITY", "PROTOCOL"} \ Reasons
        /\ token \in [Endpoints -> Tokens] /\ token[e] \in Tokens
        /\ desc \in [Blocks -> Descriptors]
    BY OwnFacts
  <1>2. PICK b, d : b = token[e].block /\ d = desc[b]
    OBVIOUS
  <1>3. /\ b \in Blocks /\ d \in Descriptors
        /\ d.stamp \in 0 .. EpochCeiling /\ d.epoch \in 0 .. EpochCeiling
        /\ EpochCeiling \in Nat
    BY <1>2, OwnFacts, NcqAssumption DEF Descriptors
  <1>4. Holding(e) /\ call[e].pc \in {"claimed", "commit", "return"}
    BY <1>1 DEF ReserveBlock, CommitBlock, ReadMetadata, ReturnBlock, At, CallCoherent, Holding
  \* What such a step writes, and what remains to show of its own block.
  <1>5. ASSUME NEW n, desc' = [desc EXCEPT ![b] = n], poisoned' = poisoned,
               \A x \in Procs \ {e} : call'[x] = call[x],
               \A x \in Endpoints \ {e} : token'[x] = token[x],
               call'[e].why \in {call[e].why, "none"}, Sided(e)', Kept(e)'
        PROVE  Local(e)
    BY <1>1, <1>2, <1>3, <1>4, <1>5 DEF Local
  <1>6. CASE ReserveBlock(e)
    <2>1. token[e].owned = "write" /\ call[e].pc = "claimed"
      BY <1>6 DEF ReserveBlock, At
    <2>2. d.phase = "EMPTY" /\ d.stamp = d.epoch
      BY <1>1, <1>2, <1>4, <2>1 DEF Kept, Free
    <2>3. CASE d.stamp >= EpochCeiling
      <3>1. Fail(e, "COUNTER") /\ UNCHANGED <<desc, token>>
        BY <1>2, <1>3, <1>6, <2>2, <2>3 DEF ReserveBlock
      <3> QED BY <1>1, <2>1, <3>1, LocalFail
    <2>4. CASE ~(d.stamp >= EpochCeiling)
      <3>1. PICK n : n = [d EXCEPT !.epoch = d.stamp + 1, !.stamp = d.stamp + 1,
                                   !.phase = "RESERVED"]
        OBVIOUS
      <3>2. /\ n.epoch = d.stamp + 1 /\ n.stamp = d.stamp + 1 /\ n.phase = "RESERVED"
            /\ n.epoch >= 1
        BY <1>3, <3>1 DEF Descriptors
      <3>3. /\ desc' = [desc EXCEPT ![b] = n]
            /\ token' = [token EXCEPT ![e].epoch = d.stamp + 1]
            /\ Finish(e) /\ UNCHANGED poisoned
        BY <1>2, <1>3, <1>6, <2>2, <2>4, <3>1 DEF ReserveBlock
      <3>4. /\ token'[e].owned = "write" /\ token'[e].block = b
            /\ token'[e].epoch = d.stamp + 1
            /\ \A x \in Endpoints \ {e} : token'[x] = token[x]
            /\ desc'[b] = n
        BY <1>1, <1>2, <1>3, <2>1, <3>3 DEF Tokens
      <3>5. /\ call'[e].pc = "idle" /\ call'[e].why = "none"
            /\ \A x \in Procs \ {e} : call'[x] = call[x]
        BY <1>1, <3>3, CallAfter
      <3>6. Sided(e)'
        BY <1>1, <2>1, <3>4, <3>5 DEF Sided, Dequeuing, Enqueuing
      <3>7. Kept(e)'
        BY <3>2, <3>4, <3>5 DEF Kept, InPhase, Enqueuing
      <3> QED BY <1>5, <3>3, <3>4, <3>5, <3>6, <3>7
    <2> QED BY <2>3, <2>4
  <1>7. CASE CommitBlock(e)
    <2>1. call[e].pc = "commit" /\ token[e].owned = "write" /\ call[e].queue = "QR"
      BY <1>1, <1>7 DEF CommitBlock, At, Sided
    <2>2. InPhase(e, "RESERVED") /\ d.epoch >= 1
      BY <1>1, <1>2, <1>4, <2>1 DEF Kept, Between
    <2>3. PICK n : n = [d EXCEPT !.meta = token[e].epoch, !.phase = "COMMITTED"]
      OBVIOUS
    <2>4. Published(n)
      BY <1>2, <1>3, <2>2, <2>3 DEF Descriptors, Published, InPhase
    <2>5. /\ desc' = [desc EXCEPT ![b] = n] /\ Goto(e, "enq_tail") /\ UNCHANGED <<token, poisoned>>
      BY <1>2, <1>7, <2>2, <2>3 DEF CommitBlock
    <2>6. /\ call'[e].pc = "enq_tail" /\ call'[e].why = call[e].why /\ call'[e].queue = "QR"
          /\ \A x \in Procs \ {e} : call'[x] = call[x]
      BY <1>1, <2>1, <2>5, CallAfter
    <2>7. Sided(e)'
      BY <1>1, <2>1, <2>5, <2>6 DEF Sided, Dequeuing, Enqueuing
    <2>8. desc'[b] = n /\ token'[e].block = b /\ token'[e].owned = "write"
      BY <1>1, <1>2, <1>3, <2>1, <2>5
    <2>9. Kept(e)'
      BY <2>4, <2>6, <2>8 DEF Kept, Between, Published
    <2> QED BY <1>5, <2>5, <2>6, <2>7, <2>9
  <1>8. CASE ReadMetadata(e)
    <2>1. token[e].owned = "read" /\ call[e].pc = "claimed"
      BY <1>8 DEF ReadMetadata, At
    <2>2. Published(d)
      BY <1>1, <1>2, <1>4, <2>1 DEF Kept
    <2>3. PICK n : n = [d EXCEPT !.phase = "CONSUMED"]
      OBVIOUS
    <2>4. /\ n.phase = "CONSUMED" /\ n.epoch = d.epoch /\ n.stamp = d.epoch /\ n.meta = d.epoch
      BY <1>3, <2>2, <2>3 DEF Descriptors, Published
    <2>5. /\ desc' = [desc EXCEPT ![b] = n] /\ Finish(e) /\ UNCHANGED poisoned
          /\ token' = [token EXCEPT ![e].epoch = d.epoch]
      BY <1>2, <1>3, <1>8, <2>2, <2>3 DEF ReadMetadata, Published
    <2>6. /\ token'[e].owned = "read" /\ token'[e].block = b /\ token'[e].epoch = d.epoch
          /\ \A x \in Endpoints \ {e} : token'[x] = token[x]
          /\ desc'[b] = n
      BY <1>1, <1>2, <1>3, <2>1, <2>5 DEF Tokens
    <2>7. /\ call'[e].pc = "idle" /\ call'[e].why = "none"
          /\ \A x \in Procs \ {e} : call'[x] = call[x]
      BY <1>1, <2>5, CallAfter
    <2>8. Sided(e)'
      BY <1>1, <2>1, <2>6, <2>7 DEF Sided, Dequeuing, Enqueuing
    <2>9. Kept(e)'
      BY <2>4, <2>6, <2>7 DEF Kept, InPhase, Enqueuing
    <2> QED BY <1>5, <2>5, <2>6, <2>7, <2>8, <2>9
  <1>9. CASE ReturnBlock(e)
    <2>1. call[e].pc = "return" /\ call[e].queue = "QF"
      BY <1>1, <1>9 DEF ReturnBlock, At, Sided
    <2>2. /\ InPhase(e, IF token[e].owned = "write" THEN "RESERVED" ELSE "CONSUMED")
          /\ token[e].owned = "read" => d.meta = token[e].epoch
      BY <1>1, <1>2, <1>4, <2>1 DEF Kept, Between
    <2>3. PICK n : n = [d EXCEPT !.phase = "EMPTY"]
      OBVIOUS
    <2>4. Free(n) /\ n.meta = d.meta
      BY <1>2, <1>3, <2>2, <2>3 DEF Descriptors, Free, InPhase
    <2>5. /\ desc' = [desc EXCEPT ![b] = n] /\ Goto(e, "enq_tail") /\ UNCHANGED <<token, poisoned>>
      BY <1>2, <1>3, <1>9, <2>2, <2>3 DEF ReturnBlock
    <2>6. /\ call'[e].pc = "enq_tail" /\ call'[e].why = call[e].why /\ call'[e].queue = "QF"
          /\ \A x \in Procs \ {e} : call'[x] = call[x]
      BY <1>1, <2>1, <2>5, CallAfter
    <2>7. Sided(e)'
      BY <1>1, <2>5, <2>6 DEF Sided, Dequeuing, Enqueuing
    <2>8. desc'[b] = n /\ token'[e] = token[e]
      BY <1>1, <1>2, <1>3, <2>5
    <2>9. Kept(e)'
      BY <1>2, <2>2, <2>4, <2>6, <2>8 DEF Kept, Between, Free
    <2> QED BY <1>5, <2>5, <2>6, <2>7, <2>9
  <1> QED BY <1>6, <1>7, <1>8, <1>9

\* The remaining steps of a call, which carry no block along.
LEMMA RestLocal ==
  ASSUME IInv, Sound, NEW e \in Endpoints,
         DrainFailure(e) \/ ReturnFailure(e) \/ RetireStep(e)
  PROVE  Local(e)
  <1>1. /\ TypeOK /\ CallCoherent(e) /\ Sided(e) /\ Kept(e)
        /\ e \in Procs /\ call[e].why \notin {"INTEGRITY", "PROTOCOL"} \ Reasons
    BY OwnFacts
  <1>2. CASE DrainFailure(e)
    <2>1. /\ call[e].pc = "drain" /\ token[e].owned = "none"
          /\ e \in Consumers /\ call[e].queue = "QR" /\ e \notin Producers
      BY <1>1, <1>2, NcqAssumption DEF DrainFailure, At, CallCoherent, Sided
    <2>2. /\ \/ call'[e].pc = "idle" /\ call'[e].why = "none"
             \/ /\ call'[e].pc = "deq_head" /\ call'[e].queue = call[e].queue
                /\ call'[e].why = call[e].why
          /\ \A x \in Procs \ {e} : call'[x] = call[x]
      BY <1>1, <1>2, CallAfter DEF DrainFailure
    <2>3. UNCHANGED <<desc, token, poisoned>>
      BY <1>2 DEF DrainFailure, flags
    <2>4. Sided(e)'
      BY <2>1, <2>2, <2>3 DEF Sided, Dequeuing, Enqueuing
    <2> QED BY <1>1, <2>1, <2>2, <2>3, <2>4, LocalCall
  <1>3. CASE ReturnFailure(e)
    <2>1. call[e].pc = "return_failure" /\ call[e].queue = "QF"
      BY <1>1, <1>3 DEF ReturnFailure, At, Sided
    <2>2. /\ \/ call'[e].pc = "idle" /\ call'[e].why = "none"
             \/ /\ call'[e].pc = "return" /\ call'[e].queue = call[e].queue
                /\ call'[e].why = call[e].why
          /\ \A x \in Procs \ {e} : call'[x] = call[x]
      BY <1>1, <1>3, CallAfter DEF ReturnFailure
    <2>3. UNCHANGED <<desc, token, poisoned>>
      BY <1>3 DEF ReturnFailure, flags
    <2>4. Sided(e)'
      BY <1>1, <2>1, <2>2, <2>3 DEF Sided, Dequeuing, Enqueuing
    <2>5. Between(e)
      BY <2>1 DEF Between
    <2> QED BY <1>1, <2>1, <2>2, <2>3, <2>4, <2>5, LocalCall
  <1>4. CASE RetireStep(e)
    <2>1. call[e].pc \in {"retire", "retire_gate", "retire_cas"} /\ UNCHANGED <<desc, token, poisoned>>
      BY <1>4 DEF RetireStep, RetireFailure, RetireLoad, RetireGate, At, flags
    <2>2. /\ call'[e].pc \in {"idle", "retire_gate", "retire_cas"} /\ call'[e].why \in {"none", call[e].why}
          /\ \A x \in Procs \ {e} : call'[x] = call[x]
      BY <1>1, <1>4, CallAfter DEF RetireStep, RetireFailure, RetireLoad, RetireGate
    <2>3. Sided(e)'
      BY <1>1, <2>1, <2>2 DEF Sided, Dequeuing, Enqueuing
    <2>4. Between(e)' => Between(e)
      BY <2>1, <2>2 DEF Between
    <2> QED BY <1>1, <2>1, <2>2, <2>3, <2>4, LocalCall
  <1> QED BY <1>2, <1>3, <1>4

\* The first step of each call, and the steps outside of any call.
LEMMA EntryLocal ==
  ASSUME IInv, Sound, NEW e \in Endpoints,
         \/ e \in Producers /\ (WriteReserve(e) \/ WriteCommit(e))
         \/ e \in Consumers /\ (ReadBorrow(e) \/ EnableDrain(e))
         \/ ReturnToken(e) \/ AbandonRetained(e)
  PROVE  Local(e)
  <1>1. /\ TypeOK /\ CallCoherent(e) /\ Sided(e) /\ Kept(e)
        /\ e \in Procs /\ call[e].why \notin {"INTEGRITY", "PROTOCOL"} \ Reasons
        /\ token \in [Endpoints -> Tokens] /\ call[e].pc = "idle"
        /\ Producers \cap Consumers = {}
    BY OwnFacts, NcqAssumption
    DEF WriteReserve, WriteCommit, ReadBorrow, EnableDrain, ReturnToken, AbandonRetained, At
  <1>2. CASE AbandonRetained(e)
    <2>1. /\ token'[e].owned = "none" /\ UNCHANGED <<desc, call>>
          /\ \A x \in Endpoints \ {e} : token'[x] = token[x] /\ (x \in poisoned' <=> x \in poisoned)
      BY <1>1, <1>2 DEF AbandonRetained, NoToken
    <2>2. Sided(e)' /\ Kept(e)'
      BY <1>1, <2>1 DEF Sided, Kept, Holding, Dequeuing, Enqueuing
    <2> QED BY <1>1, <2>1, <2>2 DEF Local
  <1>3. CASE e \in Consumers /\ EnableDrain(e)
    <2>1. UNCHANGED <<desc, token, poisoned, call>>
      BY <1>3 DEF EnableDrain
    <2>2. Sided(e)' /\ Kept(e)'
      BY <1>1, <2>1 DEF Sided, Kept, Holding, InPhase, Between
    <2> QED BY <1>1, <2>1, <2>2 DEF Local
  <1>4. CASE e \in Producers /\ WriteReserve(e)
    <2>1. Enter(e, "deq_head", "QF") /\ token[e].owned = "none" /\ UNCHANGED <<desc, token, poisoned>>
      BY <1>4 DEF WriteReserve, flags
    <2>2. /\ call'[e].pc = "deq_head" /\ call'[e].queue = "QF" /\ call'[e].why = "none"
          /\ \A x \in Procs \ {e} : call'[x] = call[x]
      BY <1>1, <2>1, CallAfter
    <2>3. Sided(e)'
      BY <1>1, <1>4, <2>1, <2>2 DEF Sided, Dequeuing, Enqueuing
    <2> QED BY <1>1, <2>1, <2>2, <2>3, LocalCall
  <1>5. CASE e \in Producers /\ WriteCommit(e)
    <2>1. /\ Enter(e, "commit", "QR") /\ token[e].owned = "write" /\ e \notin poisoned
          /\ UNCHANGED <<desc, token, poisoned>>
      BY <1>5 DEF WriteCommit, Ready, flags
    <2>2. /\ call'[e].pc = "commit" /\ call'[e].queue = "QR" /\ call'[e].why = "none"
          /\ \A x \in Procs \ {e} : call'[x] = call[x]
      BY <1>1, <2>1, CallAfter
    <2>3. Sided(e)' /\ Between(e)
      BY <1>1, <1>5, <2>1, <2>2 DEF Sided, Dequeuing, Enqueuing, Between
    <2> QED BY <1>1, <2>1, <2>2, <2>3, LocalCall
  <1>6. CASE e \in Consumers /\ ReadBorrow(e)
    <2>1. /\ Enter(e, "deq_head", "QR") \/ Enter(e, "drain", "QR")
          /\ token[e].owned = "none" /\ UNCHANGED <<desc, token, poisoned>>
      BY <1>6 DEF ReadBorrow, flags
    <2>2. /\ call'[e].pc \in {"deq_head", "drain"} /\ call'[e].queue = "QR"
          /\ call'[e].why = "none"
          /\ \A x \in Procs \ {e} : call'[x] = call[x]
      <3>1. CASE Enter(e, "deq_head", "QR")
        BY <1>1, <3>1, CallAfter
      <3>2. CASE Enter(e, "drain", "QR")
        BY <1>1, <3>2, CallAfter
      <3> QED BY <2>1, <3>1, <3>2
    <2>3. Sided(e)'
      BY <1>1, <1>6, <2>1, <2>2 DEF Sided, Dequeuing, Enqueuing
    <2> QED BY <1>1, <2>1, <2>2, <2>3, LocalCall
  <1>7. CASE ReturnToken(e)
    <2>1. /\ Enter(e, "return_failure", "QF") /\ e \notin poisoned
          /\ UNCHANGED <<desc, token, poisoned>>
      BY <1>7 DEF ReturnToken, flags
    <2>2. /\ call'[e].pc = "return_failure" /\ call'[e].queue = "QF" /\ call'[e].why = "none"
          /\ \A x \in Procs \ {e} : call'[x] = call[x]
      BY <1>1, <2>1, CallAfter
    <2>3. Sided(e)' /\ Between(e)
      BY <1>1, <2>1, <2>2 DEF Sided, Dequeuing, Enqueuing, Between
    <2> QED BY <1>1, <2>1, <2>2, <2>3, LocalCall
  <1> QED BY <1>2, <1>3, <1>4, <1>5, <1>6, <1>7

\* Retirement, which any process may start, quarantine, a crash and stuttering.
LEMMA AwayLocal ==
  ASSUME IInv, Sound,
         \/ \E p \in Retirers, r \in Reasons : Retire(p, r)
         \/ RetireStep(Authority) \/ Quarantine
         \/ \E e \in Crashable : Crash(e)
         \/ UNCHANGED vars
  PROVE  \E p \in Procs : Local(p)
  <1>1. TypeOK /\ Authority \in Procs /\ Authority \notin Endpoints /\ NoFalseAlarm
    BY NcqAssumption, StateTypes DEF IInv, Sound, Endpoints
  <1>2. ASSUME NEW p \in Retirers, NEW r \in Reasons, Retire(p, r)
        PROVE  p \in Procs /\ Local(p)
    <2>1. p \in Procs
      BY NcqAssumption DEF Procs, Endpoints
    <2>2. call[p].pc = "idle" /\ StartRetire(p, r) /\ UNCHANGED <<desc, token, poisoned>>
      BY <1>2 DEF Retire, At, flags
    <2>3. /\ call'[p].pc = "retire" /\ call'[p].why = r
          /\ \A x \in Procs \ {p} : call'[x] = call[x]
      BY <1>1, <2>1, <2>2, CallAfter
    <2>4. CASE p \in Endpoints
      <3>1. Sided(p) /\ Kept(p)
        BY <2>4 DEF Sound
      <3>2. Sided(p)' /\ (Between(p)' => Between(p))
        BY <2>2, <2>3, <3>1 DEF Sided, Dequeuing, Enqueuing, Between
      <3> QED BY <1>1, <2>1, <2>2, <2>3, <2>4, <3>1, <3>2, LocalCall
    <2>5. CASE p \notin Endpoints
      BY <2>1, <2>2, <2>3, <2>5 DEF Local
    <2> QED BY <2>1, <2>4, <2>5
  <1>3. CASE RetireStep(Authority)
    <2>1. UNCHANGED <<desc, token, poisoned>>
      BY <1>3 DEF RetireStep, RetireFailure, RetireLoad, RetireGate, flags
    <2>2. /\ call'[Authority].why \in {"none", call[Authority].why}
          /\ \A x \in Procs \ {Authority} : call'[x] = call[x]
      BY <1>1, <1>3, CallAfter DEF RetireStep, RetireFailure, RetireLoad, RetireGate
    <2> QED BY <1>1, <2>1, <2>2 DEF Local, NoFalseAlarm
  <1>4. CASE Quarantine \/ (\E e \in Crashable : Crash(e)) \/ UNCHANGED vars
    <2>1. UNCHANGED <<desc, token, poisoned, call>>
      BY <1>4 DEF Quarantine, Crash, vars, flags
    <2> QED BY <1>1, <2>1 DEF Local, NoFalseAlarm
  <1> QED BY <1>1, <1>2, <1>3, <1>4

\* Every step is a local one of some process.
LEMMA NextLocal ==
  ASSUME IInv, Sound, [Next]_vars
  PROVE  \E p \in Procs : Local(p)
  <1>1. Endpoints \subseteq Procs /\ Producers \cup Consumers = Endpoints
    BY StateTypes DEF IInv, Endpoints
  <1>2. ASSUME NEW e \in Endpoints, Step(e) PROVE Local(e)
    BY <1>2, DequeueLocal, EnqueueLocal, BlockLocal, RestLocal DEF Step
  <1> QED BY <1>1, <1>2, EntryLocal, AwayLocal DEF Next
-----------------------------------------------------------------------------
(***************************************************************************)
(* The queues, and the endpoints that do not move.                         *)
(***************************************************************************)

\* A queue gains blocks from the owner's entry CAS alone.
LEMMA ContentsNext ==
  ASSUME IInv, [Next]_vars, NEW q \in Queues, NEW b \in Contents(q)'
  PROVE  \/ b \in Contents(q)
         \/ \E e \in Endpoints : Installs(e) /\ call[e].queue = q /\ token[e].block = b
  <1>1. PICK p \in Procs : Effect(p)
    BY NextEffect
  <1>2. CASE KeepQueues
    BY <1>2 DEF KeepQueues, Contents, Tickets, Slot
  <1>3. CASE p \in Endpoints /\ Claims(p)
    <2>1. PICK k, h, c : k = call[p].queue /\ h = call[p].ticket /\ c = Slot(k, h)
      OBVIOUS
    <2>2. /\ \A j \in Queues : j # k => Contents(j)' = Contents(j)
          /\ Contents(k)' = Contents(k) \ {c}
      BY <1>3, <2>1, ClaimContents
    <2> QED BY <2>2
  <1>4. CASE p \in Endpoints /\ Installs(p)
    <2>1. PICK k, t : k = call[p].queue /\ t = call[p].ticket
      OBVIOUS
    <2>2. PICK c \in Blocks : c = token[p].block
      BY <1>4, StateTypes DEF IInv
    <2>3. /\ \A j \in Queues : j # k => Contents(j)' = Contents(j)
          /\ Contents(k)' = Contents(k) \cup {c}
      BY <1>4, <2>1, <2>2, InstallContents
    <2> QED BY <1>4, <2>1, <2>2, <2>3
  <1> QED BY <1>1, <1>2, <1>3, <1>4 DEF Effect

\* A block in a queue is in nobody's hands, so no step writes its descriptor.
LEMMA FiledNext ==
  ASSUME IInv, Sound, [Next]_vars, NEW p \in Procs, Local(p)
  PROVE  Filed'
  <1>1. ASSUME NEW q \in Queues, NEW b \in Contents(q)
        PROVE  desc'[b] = desc[b]
    <2>1. b \in Blocks
      BY ContentsType DEF IInv
    <2>2. b \notin Held
      BY <1>1 DEF IInv, Partition, Queues
    <2> QED BY <2>1, <2>2 DEF Local, Held
  <1>2. ASSUME NEW q \in Queues, NEW b \in Contents(q)'
        PROVE  IF q = "QF" THEN Free(desc'[b]) ELSE Published(desc'[b])
    <2>1. CASE b \in Contents(q)
      BY <1>1, <2>1 DEF Sound, Filed, Queues
    <2>2. CASE \E e \in Endpoints : Installs(e) /\ call[e].queue = q /\ token[e].block = b
      <3>1. PICK e \in Endpoints : Installs(e) /\ call[e].queue = q /\ token[e].block = b
        BY <2>2
      <3>2. call[e].pc = "enq_install" /\ desc' = desc
        BY <3>1 DEF Installs, EnqueueInstall, At
      <3>3. CallCoherent(e) /\ Kept(e)
        BY DEF IInv, Sound
      <3>4. Holding(e)
        BY <3>2, <3>3 DEF CallCoherent, Holding
      <3> QED BY <3>1, <3>2, <3>3, <3>4 DEF Kept, Enqueuing
    <2> QED BY <1>2, <2>1, <2>2, ContentsNext
  <1> QED BY <1>2 DEF Filed, Queues

\* What holds of an endpoint and its block survives the steps of the others.
LEMMA KeptNext ==
  ASSUME IInv, Sound, NEW p \in Procs, Local(p), NEW e \in Endpoints
  PROVE  Sided(e)' /\ Kept(e)'
  <1>1. CASE e = p
    BY <1>1 DEF Local
  <1>2. CASE e # p
    <2>1. /\ call'[e] = call[e] /\ token'[e] = token[e] /\ (e \in poisoned' <=> e \in poisoned)
          /\ Sided(e) /\ Kept(e) /\ token[e].block \in Blocks
      BY <1>2, OwnFacts DEF Local, Sound
    <2>2. Sided(e)'
      BY <2>1 DEF Sided
    <2>3. Holding(e) => desc'[token[e].block] = desc[token[e].block]
      BY <1>2, <2>1 DEF Local, IInv, Partition
    <2>4. Kept(e)'
      BY <2>1, <2>3 DEF Kept, Holding, Between, InPhase
    <2> QED BY <2>2, <2>4
  <1> QED BY <1>1, <1>2
-----------------------------------------------------------------------------
(***************************************************************************)
(* The theorems.                                                           *)
(***************************************************************************)

\* The constructed object has every block EMPTY in QF.
LEMMA InitSound == Init => Sound
  <1> SUFFICES ASSUME Init PROVE Sound
    OBVIOUS
  <1>1. IInv
    BY InitInvariant
  <1>2. Frontier("QR") = N /\ head["QR"] = N
    <2>1. Index(N) = 0 /\ Cycle(N) = N
      BY Capacity DEF Index, Cycle
    <2> QED BY <2>1, Capacity DEF Init, Queues, Frontier, Installed, Blocks
  <1>3. Contents("QR") = {}
    BY <1>2, Capacity DEF Contents, Tickets
  <1>4. Contents("QF") \subseteq Blocks
    BY <1>1, ContentsType DEF IInv, Queues
  <1>5. Filed
    BY <1>3, <1>4 DEF Init, Filed, Free
  <1>6. ASSUME NEW e \in Endpoints PROVE Sided(e) /\ Kept(e)
    BY <1>6 DEF Init, NoCall, NoToken, Sided, Kept, Holding, Dequeuing, Enqueuing, Procs
  <1>7. NoFalseAlarm
    BY DEF Init, NoCall, NoFalseAlarm
  <1> QED BY <1>5, <1>6, <1>7 DEF Sound

\* Every step keeps the invariant.
LEMMA NextSound == IInv /\ Sound /\ [Next]_vars => Sound'
  <1> SUFFICES ASSUME IInv, Sound, [Next]_vars PROVE Sound'
    OBVIOUS
  <1>1. PICK p \in Procs : Local(p)
    BY NextLocal
  <1>2. Filed'
    BY <1>1, FiledNext
  <1>3. \A e \in Endpoints : Sided(e)' /\ Kept(e)'
    BY <1>1, KeptNext
  <1>4. NoFalseAlarm'
    BY <1>1 DEF Local, Sound, NoFalseAlarm
  <1> QED BY <1>2, <1>3, <1>4 DEF Sound

\* Both invariants hold in every reachable state.
THEOREM Soundness == Spec => [](IInv /\ Sound)
  <1>1. Init => IInv /\ Sound
    BY InitInvariant, InitSound
  <1>2. IInv /\ Sound /\ [Next]_vars => (IInv /\ Sound)'
    BY NextInvariant, NextSound
  <1> QED BY <1>1, <1>2, PTL DEF Spec

\* What MessageIntact states follows from the invariants.
LEMMA SoundIntact == IInv /\ Sound => MessageIntact
  <1> SUFFICES ASSUME IInv, Sound PROVE MessageIntact
    OBVIOUS
  <1>1. ASSUME NEW c \in Consumers, Holding(c), At(c, "idle")
        PROVE  desc[token[c].block].meta = token[c].epoch
    <2>1. c \in Endpoints /\ c \notin Producers
      BY NcqAssumption DEF Endpoints
    <2>2. Sided(c) /\ Kept(c) /\ token[c] \in Tokens
      BY <2>1, OwnFacts
    <2>3. token[c].owned = "read"
      BY <1>1, <2>1, <2>2 DEF Holding, Sided, Tokens
    <2> QED BY <1>1, <2>2, <2>3 DEF Kept, At
  <1> QED BY <1>1 DEF Sound, Filed, Free, Published, MessageIntact

\* No message is torn, stale or mixed with that of another epoch, for every
\* capacity and every number of producers and consumers: el_ncq_commit writes
\* metadata and phase before its entry CAS, and nothing touches the block until
\* a consumer has claimed it.
THEOREM MessagesIntact == Spec => []MessageIntact
  BY Soundness, SoundIntact, PTL

\* The EL_INTEGRITY and EL_PROTOCOL branches of elite_mpmc_ncq.c are dead code
\* as long as every endpoint follows the interface: they condemn a generation
\* only for damage from outside.
THEOREM NeverFalselyAlarmed == Spec => []NoFalseAlarm
  <1>1. IInv /\ Sound => NoFalseAlarm
    BY DEF Sound
  <1> QED BY <1>1, Soundness, PTL

\* The failure word keeps the first reason, and el_retire_raw's exchange never
\* takes a quarantined generation back to the state in which it is drained.
THEOREM RetiresForward == Spec => RetirementIsForward
  <1>1. TypeOK /\ [Next]_vars =>
          [Progressed' >= Progressed /\ (failure # "none" => failure' = failure)]_control
    <2> SUFFICES ASSUME TypeOK, [Next]_vars, control' # control
                 PROVE  Progressed' >= Progressed /\ (failure # "none" => failure' = failure)
      OBVIOUS
    <2>1. \/ Quarantine
          \/ \E p \in Procs : RetireStep(p)
      BY DEF Next, Step, Procs, vars, WriteReserve, WriteCommit, ReadBorrow, EnableDrain,
             ReturnToken, AbandonRetained, DequeueHead, DequeueEntry, DequeueClaim,
             EnqueueTail, EnqueueEntry, EnqueueHelp, EnqueueInstall, EnqueueAdvance,
             ReserveBlock, CommitBlock, ReadMetadata, DrainFailure, ReturnFailure,
             ReturnBlock, Retire, Crash
    <2>2. CASE Quarantine
      BY <2>2 DEF Quarantine, Progressed
    <2>3. CASE \E p \in Procs : RetireStep(p)
      BY <2>3 DEF RetireStep, RetireFailure, RetireLoad, RetireGate, Progressed, TypeOK
    <2> QED BY <2>1, <2>2, <2>3
  <1> QED BY <1>1, TypeCorrect, PTL DEF Spec, RetirementIsForward
-----------------------------------------------------------------------------
(***************************************************************************)
(* Ncq implements the abstract channel of a generation: QF is its set of   *)
(* free blocks, QR its sequence of published ones, and every step of the   *)
(* code is a step of the channel or leaves it alone.  The head CAS is the  *)
(* instant of a reservation and of a borrowing, the entry CAS the instant  *)
(* of a publication and of a return; tails and helpers are invisible.      *)
(***************************************************************************)

(***************************************************************************)
(* The published blocks as a sequence.                                     *)
(***************************************************************************)
Run(f, p) == [i \in 1 .. p - f |-> Slot("QR", f + i - 1)]

\* A run of tickets names a sequence of blocks.
LEMMA RunType ==
  ASSUME TypeOK, NEW f \in Nat, NEW p \in Nat, f <= p
  PROVE  Run(f, p) \in Seq(Blocks) /\ Len(Run(f, p)) = p - f
  <1>1. p - f \in Nat
    OBVIOUS
  <1>2. \A i \in 1 .. p - f : f + i - 1 \in Nat
    OBVIOUS
  <1>3. \A i \in 1 .. p - f : Slot("QR", f + i - 1) \in Blocks
    BY <1>2, ContentsType DEF Queues
  <1> QED BY <1>1, <1>3 DEF Run

\* An installation appends its block.
LEMMA RunAppend ==
  ASSUME TypeOK, TypeOK', NEW f \in Nat, NEW p \in Nat, f <= p, NEW b \in Blocks,
         \A t \in f .. p - 1 : Slot("QR", t)' = Slot("QR", t), Slot("QR", p)' = b
  PROVE  Run(f, p + 1)' = Append(Run(f, p), b)
  <1>1. PICK s, u, v : s = Run(f, p) /\ u = Run(f, p + 1)' /\ v = Append(s, b)
    OBVIOUS
  <1>2. p + 1 \in Nat /\ f <= p + 1 /\ (p + 1) - f = p - f + 1
    OBVIOUS
  <1>3. s \in Seq(Blocks) /\ Len(s) = p - f
    BY <1>1, RunType
  <1>4. u \in Seq(Blocks) /\ Len(u) = p - f + 1
    <2>1. \A i \in 1 .. p + 1 - f : f + i - 1 \in f .. p
      OBVIOUS
    <2>2. \A t \in f .. p : Slot("QR", t)' \in Blocks
      <3>1. \A t \in f .. p - 1 : t \in Nat
        OBVIOUS
      <3>2. \A t \in f .. p - 1 : Slot("QR", t)' \in Blocks
        BY <3>1, ContentsType DEF Queues
      <3>3. \A t \in f .. p : t \in f .. p - 1 \/ t = p
        OBVIOUS
      <3> QED BY <3>2, <3>3
    <2>3. u = [i \in 1 .. p + 1 - f |-> Slot("QR", f + i - 1)']
      BY <1>1 DEF Run
    <2> QED BY <1>2, <2>1, <2>2, <2>3
  <1>5. /\ v \in Seq(Blocks) /\ Len(v) = p - f + 1
        /\ \A i \in 1 .. p - f : v[i] = s[i]
        /\ v[p - f + 1] = b
    BY <1>1, <1>3, AppendProperties
  <1>6. \A i \in 1 .. p - f : u[i] = s[i]
    <2>1. ASSUME NEW i \in 1 .. p - f PROVE u[i] = s[i]
      <3>1. f + i - 1 \in f .. p - 1 /\ i \in 1 .. p + 1 - f
        OBVIOUS
      <3>2. u[i] = Slot("QR", f + i - 1)' /\ s[i] = Slot("QR", f + i - 1)
        BY <1>1, <3>1 DEF Run
      <3> QED BY <3>1, <3>2
    <2> QED BY <2>1
  <1>7. u[p - f + 1] = b
    <2>1. f + (p - f + 1) - 1 = p /\ p - f + 1 \in 1 .. p + 1 - f
      OBVIOUS
    <2> QED BY <1>1, <2>1 DEF Run
  <1>8. \A i \in 1 .. p - f + 1 : u[i] = v[i]
    <2>1. \A i \in 1 .. p - f + 1 : i \in 1 .. p - f \/ i = p - f + 1
      OBVIOUS
    <2> QED BY <1>5, <1>6, <1>7, <2>1
  <1>9. u = v
    BY <1>4, <1>5, <1>8, SeqEqual
  <1> QED BY <1>1, <1>9

\* A claim takes the first one.
LEMMA RunTail ==
  ASSUME TypeOK, NEW f \in Nat, NEW p \in Nat, f < p,
         \A t \in Nat : Slot("QR", t)' = Slot("QR", t)
  PROVE  /\ Run(f, p) # <<>> /\ Head(Run(f, p)) = Slot("QR", f)
         /\ Run(f + 1, p)' = Tail(Run(f, p))
  <1>1. PICK s, u : s = Run(f, p) /\ u = Run(f + 1, p)
    OBVIOUS
  <1>2. f + 1 \in Nat /\ f + 1 <= p /\ p - (f + 1) = p - f - 1
    OBVIOUS
  <1>3. s \in Seq(Blocks) /\ Len(s) = p - f
    <2>1. f <= p
      OBVIOUS
    <2>2. Run(f, p) \in Seq(Blocks) /\ Len(Run(f, p)) = p - f
      BY <2>1, RunType
    <2> QED BY <1>1, <2>2
  <1>4. u \in Seq(Blocks) /\ Len(u) = p - f - 1
    <2>1. PICK g \in Nat : g = f + 1
      BY <1>2
    <2>2. Run(g, p) \in Seq(Blocks) /\ Len(Run(g, p)) = p - g
      BY <1>2, <2>1, RunType
    <2> QED BY <1>1, <1>2, <2>1, <2>2
  <1>5. s # <<>>
    BY <1>3, EmptySeq
  <1>6. /\ Tail(s) \in Seq(Blocks) /\ Len(Tail(s)) = p - f - 1
        /\ \A i \in 1 .. p - f - 1 : Tail(s)[i] = s[i + 1]
    BY <1>3, <1>5, HeadTailProperties
  <1>7. Head(s) = Slot("QR", f)
    <2>1. f + 1 - 1 = f /\ 1 \in 1 .. p - f
      OBVIOUS
    <2>2. s[1] = Slot("QR", f)
      BY <1>1, <2>1 DEF Run
    <2> QED BY <1>3, <1>5, <2>2
  <1>8. \A i \in 1 .. p - f - 1 : s[i + 1] = u[i]
    <2>1. ASSUME NEW i \in 1 .. p - f - 1 PROVE s[i + 1] = u[i]
      <3>1. i + 1 \in 1 .. p - f /\ i \in 1 .. p - (f + 1) /\ f + (i + 1) - 1 = (f + 1) + i - 1
        OBVIOUS
      <3> QED BY <1>1, <3>1 DEF Run
    <2> QED BY <2>1
  <1>9. Tail(s) = u
    BY <1>4, <1>6, <1>8, SeqEqual
  <1>10. Run(f + 1, p)' = Run(f + 1, p)
    <2>1. \A i \in 1 .. p - (f + 1) : (f + 1) + i - 1 \in Nat
      OBVIOUS
    <2>2. \A i \in 1 .. p - (f + 1) : Slot("QR", (f + 1) + i - 1)' = Slot("QR", (f + 1) + i - 1)
      BY <2>1
    <2> QED BY <2>2 DEF Run
  <1> QED BY <1>1, <1>5, <1>7, <1>9, <1>10

\* The published blocks are the run from the head to the frontier of QR.
LEMMA Shape ==
  ASSUME IInv
  PROVE  /\ head["QR"] \in Nat /\ Frontier("QR") \in Nat /\ head["QR"] <= Frontier("QR")
         /\ ReadySeq = Run(head["QR"], Frontier("QR"))
         /\ ReadySeq \in Seq(Blocks)
  <1>1. /\ TypeOK /\ head["QR"] \in Nat /\ Frontier("QR") \in Nat
        /\ head["QR"] <= Frontier("QR")
    BY StateTypes, CeilingType, FrontierType DEF IInv, Window, Queues
  <1>2. ReadySeq = Run(head["QR"], Frontier("QR"))
    BY DEF ReadySeq, Run
  <1> QED BY <1>1, <1>2, RunType
-----------------------------------------------------------------------------
(***************************************************************************)
(* The tokens and messages of the channel.                                 *)
(***************************************************************************)
Mapped    == <<Contents("QF"), ReadySeq, Holders, retained, Written>>
Simulated == [Promise!Next]_(Promise!vars)

\* A step that changes nothing of the mapped state stutters in the channel.
LEMMA Stuttering ==
  ASSUME UNCHANGED Mapped
  PROVE  Simulated
  BY DEF Mapped, Simulated, Promise!vars

\* The token of an endpoint is of the kind its role prescribes.
LEMMA Kinds ==
  ASSUME IInv, Sound, NEW e \in Endpoints
  PROVE  /\ Holding(e) => /\ token[e].owned = IF e \in Producers THEN "write" ELSE "read"
                          /\ Holders[e] = Promise!Token(token[e].owned, token[e].block)
                          /\ token[e].block \in Blocks
         /\ ~Holding(e) => Holders[e] = Promise!NoToken
         /\ e \notin Producers => e \in Consumers
  <1>1. Sided(e) /\ token[e].owned \in {"none", "write", "read"} /\ token[e].block \in Blocks
    BY StateTypes DEF IInv, Sound
  <1>2. Producers \cap Consumers = {} /\ (e \in Producers \/ e \in Consumers)
    BY NcqAssumption DEF Endpoints
  <1> QED BY <1>1, <1>2 DEF Sided, Holding, Holders, Promise!Token, Promise!NoToken

\* The same of the state after a step.
LEMMA KindsNext ==
  ASSUME IInv', Sound', NEW e \in Endpoints
  PROVE  /\ Holding(e)' =>
              /\ token'[e].owned = IF e \in Producers THEN "write" ELSE "read"
              /\ Holders'[e] = Promise!Token(token'[e].owned, token'[e].block)
         /\ ~Holding(e)' => Holders'[e] = Promise!NoToken
  <1>1. Sided(e)' /\ token'[e].owned \in {"none", "write", "read"}
    BY DEF IInv, TypeOK, Tokens, Sound
  <1>2. Producers \cap Consumers = {} /\ (e \in Producers \/ e \in Consumers)
    BY NcqAssumption DEF Endpoints
  <1> QED BY <1>1, <1>2 DEF Sided, Holding, Holders, Promise!Token, Promise!NoToken

\* A step of one endpoint changes the token of that endpoint alone.
LEMMA OneHolder ==
  ASSUME NEW e \in Endpoints, Frame(e)
  PROVE  Holders' = [Holders EXCEPT ![e] = Holders'[e]]
  <1>1. \A x \in Endpoints : Holders'[x] = IF x = e THEN Holders'[e] ELSE Holders[x]
    BY DEF Frame, Holders, Holding
  <1>2. DOMAIN Holders = Endpoints /\ Holders' = [x \in Endpoints |-> Holders'[x]]
    BY DEF Holders
  <1>3. Holders = [x \in Endpoints |-> Holders[x]]
    BY DEF Holders
  <1> QED BY <1>1, <1>2, <1>3
-----------------------------------------------------------------------------
(***************************************************************************)
(* The steps that the channel sees.                                        *)
(***************************************************************************)

\* A claim reserves the free block it saw, or borrows the oldest message.
LEMMA ClaimSimulated ==
  ASSUME IInv, Sound, Sound', IInv', NEW e \in Endpoints, Frame(e), Claims(e)
  PROVE  Simulated
  <1>1. PICK q, h, b : q = call[e].queue /\ h = call[e].ticket /\ b = Slot(q, h)
    OBVIOUS
  <1>2. /\ q \in Queues /\ h \in Nat /\ h = head[q] /\ h \in Tickets(q)
        /\ head' = [head EXCEPT ![q] = h + 1] /\ retained' = retained
        /\ \A k \in Queues : Frontier(k)' = Frontier(k)
        /\ ~Holding(e) /\ Holding(e)' /\ token'[e].block = b
    BY <1>1, ClaimStep
  <1>3. /\ \A k \in Queues, t \in Nat : Slot(k, t)' = Slot(k, t)
        /\ \A k \in Queues : k # q => Contents(k)' = Contents(k)
        /\ Contents(q)' = Contents(q) \ {b} /\ b \in Contents(q)
    BY <1>1, ClaimContents
  <1>4. Written' = Written
    BY DEF Claims, DequeueClaim, Written
  <1>5. TypeOK /\ TypeOK' /\ head \in [Queues -> 0 .. TicketCeiling]
    BY DEF IInv, TypeOK
  <1>6. q = IF e \in Producers THEN "QF" ELSE "QR"
    BY <1>1 DEF Sound, Sided, Claims, DequeueClaim, At, Dequeuing
  <1>7. /\ Holders[e] = Promise!NoToken
        /\ Holders'[e] = Promise!Token(IF e \in Producers THEN "write" ELSE "read", b)
        /\ Holders' = [Holders EXCEPT ![e] = Holders'[e]]
        /\ e \notin Producers => e \in Consumers
    <2>1. Holders[e] = Promise!NoToken /\ (e \notin Producers => e \in Consumers)
      BY <1>2, Kinds
    <2>2. Holders'[e] = Promise!Token(IF e \in Producers THEN "write" ELSE "read", b)
      BY <1>2, KindsNext
    <2>3. Holders' = [Holders EXCEPT ![e] = Holders'[e]]
      BY OneHolder
    <2> QED BY <2>1, <2>2, <2>3
  <1>8. CASE e \in Producers
    <2>1. Contents("QF")' = Contents("QF") \ {b} /\ b \in Contents("QF")
      BY <1>3, <1>6, <1>8
    <2>2. ReadySeq' = ReadySeq
      <3>1. head'["QR"] = head["QR"] /\ Frontier("QR")' = Frontier("QR")
        BY <1>2, <1>5, <1>6, <1>8 DEF Queues
      <3>2. \A i \in 1 .. Frontier("QR") - head["QR"] : head["QR"] + i - 1 \in Nat
        BY Shape
      <3> QED BY <1>3, <3>1, <3>2 DEF ReadySeq, Queues
    <2>3. Promise!Reserve(e, b)
      BY <1>2, <1>4, <1>7, <1>8, <2>1, <2>2 DEF Promise!Reserve, Promise!Take
    <2>4. b \in Blocks
      BY <1>5, <2>1, ContentsType DEF Queues
    <2> QED BY <1>8, <2>3, <2>4 DEF Simulated, Promise!Next
  <1>9. CASE e \notin Producers
    <2>1. Contents("QF")' = Contents("QF")
      BY <1>3, <1>6, <1>9 DEF Queues
    <2>2. h = head["QR"] /\ head'["QR"] = h + 1 /\ h < Frontier("QR")
      BY <1>2, <1>5, <1>6, <1>9, Shape DEF Tickets, Queues
    <2>3. /\ ReadySeq # <<>> /\ Head(ReadySeq) = b /\ ReadySeq' = Tail(ReadySeq)
      <3>1. PICK f : f = Frontier("QR")
        OBVIOUS
      <3>2. f \in Nat /\ h < f /\ ReadySeq = Run(h, f) /\ Frontier("QR")' = f
        BY <1>2, <2>2, <3>1, Shape DEF Queues
      <3>3. Run(h, f) # <<>> /\ Head(Run(h, f)) = Slot("QR", h)
            /\ Run(h + 1, f)' = Tail(Run(h, f))
        BY <1>2, <1>3, <1>5, <3>2, RunTail DEF Queues
      <3>4. ReadySeq' = Run(h + 1, f)'
        BY <2>2, <3>2 DEF ReadySeq, Run
      <3> QED BY <1>1, <1>6, <1>9, <3>2, <3>3, <3>4
    <2>4. Promise!Borrow(e)
      BY <1>2, <1>4, <1>7, <1>9, <2>1, <2>3 DEF Promise!Borrow, Promise!Take
    <2> QED BY <1>7, <1>9, <2>4 DEF Simulated, Promise!Next
  <1> QED BY <1>8, <1>9

\* An installation publishes the producer's block, or returns a block to QF.
LEMMA InstallSimulated ==
  ASSUME IInv, Sound, Sound', IInv', NEW e \in Endpoints, Frame(e), Installs(e)
  PROVE  Simulated
  <1>1. PICK q, t : q = call[e].queue /\ t = call[e].ticket
    OBVIOUS
  <1>2. /\ CallCoherent(e) /\ Holding(e) /\ call[e].pc = "enq_install"
        /\ UNCHANGED <<head, token, retained, desc>>
    BY DEF IInv, Installs, EnqueueInstall, At, CallCoherent, Holding, history
  <1>3. TypeOK /\ TypeOK' /\ LastLap
    BY DEF IInv
  <1>4. PICK b \in Blocks : b = token[e].block
    BY <1>3, StateTypes
  <1>5. /\ Slot(q, t)' = b /\ \A u \in Tickets(q) : Slot(q, u)' = Slot(q, u)
        /\ \A k \in Queues, u \in Nat : k # q => Slot(k, u)' = Slot(k, u)
        /\ \A k \in Queues : k # q => Contents(k)' = Contents(k)
        /\ Contents(q)' = Contents(q) \cup {b}
    BY <1>1, <1>4, InstallContents
  <1>6. /\ q \in Queues /\ t \in Nat /\ t = Frontier(q) /\ Frontier(q)' = t + 1
        /\ \A k \in Queues : k # q => Frontier(k)' = Frontier(k)
    BY <1>1, <1>2, <1>3, InstallStep
  <1>7. ~Holding(e)'
    <2>1. call'[e].pc = "enq_advance"
      BY <1>3, StateTypes, Moved DEF Installs, EnqueueInstall
    <2> QED BY <2>1 DEF Holding
  <1>8. /\ Holders[e] = Promise!Token(token[e].owned, b)
        /\ token[e].owned = (IF e \in Producers THEN "write" ELSE "read")
        /\ Holders'[e] = Promise!NoToken
        /\ Holders' = [Holders EXCEPT ![e] = Holders'[e]]
    <2>1. /\ Holders[e] = Promise!Token(token[e].owned, b)
          /\ token[e].owned = (IF e \in Producers THEN "write" ELSE "read")
      BY <1>2, <1>4, Kinds
    <2>2. Holders'[e] = Promise!NoToken
      BY <1>7, KindsNext
    <2>3. Holders' = [Holders EXCEPT ![e] = Holders'[e]]
      BY OneHolder
    <2> QED BY <2>1, <2>2, <2>3
  <1>9. Written' = Written
    BY <1>2 DEF Written
  <1>10. CASE q = "QR"
    <2>1. token[e].owned = "write" /\ e \in Producers
      BY <1>1, <1>2, <1>8, <1>10 DEF Sound, Sided, Enqueuing
    <2>2. Contents("QF")' = Contents("QF")
      BY <1>5, <1>10 DEF Queues
    <2>3. ReadySeq' = Append(ReadySeq, b)
      <3>1. PICK h : h = head["QR"]
        OBVIOUS
      <3>2. /\ h \in Nat /\ h <= t /\ ReadySeq = Run(h, t) /\ Tickets("QR") = h .. t - 1
            /\ head'["QR"] = h
        BY <1>2, <1>6, <1>10, <3>1, Shape DEF Tickets
      <3>3. Run(h, t + 1)' = Append(Run(h, t), b)
        BY <1>3, <1>5, <1>6, <1>10, <3>2, RunAppend
      <3>4. ReadySeq' = Run(h, t + 1)'
        BY <1>6, <1>10, <3>2 DEF ReadySeq, Run
      <3> QED BY <3>2, <3>3, <3>4
    <2>4. Promise!Publish(e, b)
      BY <1>2, <1>8, <1>9, <2>1, <2>2, <2>3 DEF Promise!Publish, Promise!Drop
    <2> QED BY <2>1, <2>4 DEF Simulated, Promise!Next
  <1>11. CASE q = "QF"
    <2>1. ReadySeq' = ReadySeq
      <3>1. head'["QR"] = head["QR"] /\ Frontier("QR")' = Frontier("QR")
        BY <1>2, <1>6, <1>11 DEF Queues
      <3>2. \A i \in 1 .. Frontier("QR") - head["QR"] : head["QR"] + i - 1 \in Nat
        BY Shape
      <3> QED BY <1>5, <1>11, <3>1, <3>2 DEF ReadySeq, Queues
    <2>2. PICK k \in {"write", "read"} : k = token[e].owned
      BY <1>8
    <2>3. Promise!Return(e, k, b)
      BY <1>2, <1>5, <1>8, <1>9, <1>11, <2>1, <2>2 DEF Promise!Return, Promise!Drop
    <2> QED BY <2>3 DEF Simulated, Promise!Next, Promise!Endpoints, Endpoints
  <1> QED BY <1>6, <1>10, <1>11 DEF Queues

\* elite_abandon_retained abandons the block.
LEMMA AbandonSimulated ==
  ASSUME IInv, Sound, Sound', IInv', NEW e \in Endpoints, Frame(e), KeepQueues,
         AbandonRetained(e)
  PROVE  Simulated
  <1>1. PICK b \in Blocks : b = token[e].block
    BY StateTypes DEF IInv
  <1>2. /\ Holding(e) /\ ~Holding(e)' /\ retained' = retained \cup {b} /\ UNCHANGED desc
    BY <1>1 DEF AbandonRetained, At, Holding, NoToken, IInv, TypeOK
  <1>3. /\ Holders[e] = Promise!Token(token[e].owned, b)
        /\ token[e].owned = (IF e \in Producers THEN "write" ELSE "read")
        /\ Holders'[e] = Promise!NoToken
        /\ Holders' = [Holders EXCEPT ![e] = Holders'[e]]
    <2>1. /\ Holders[e] = Promise!Token(token[e].owned, b)
          /\ token[e].owned = (IF e \in Producers THEN "write" ELSE "read")
      BY <1>1, <1>2, Kinds
    <2>2. Holders'[e] = Promise!NoToken
      BY <1>2, KindsNext
    <2>3. Holders' = [Holders EXCEPT ![e] = Holders'[e]]
      BY OneHolder
    <2> QED BY <2>1, <2>2, <2>3
  <1>4. UNCHANGED <<Contents("QF"), ReadySeq, Written>>
    BY <1>2 DEF KeepQueues, Contents, Tickets, Slot, ReadySeq, Written, Queues
  <1>5. PICK k \in {"write", "read"} : k = token[e].owned
    BY <1>3
  <1>6. Promise!Abandon(e, k, b)
    BY <1>2, <1>3, <1>4, <1>5 DEF Promise!Abandon, Promise!Drop
  <1> QED BY <1>6 DEF Simulated, Promise!Next, Promise!Endpoints, Endpoints

\* A message changes at the stamp of a reservation and at the metadata store of
\* a commit, both by the producer that holds the block.
LEMMA MessageStep ==
  ASSUME IInv, Sound, [Next]_vars
  PROVE  \/ Written' = Written
         \/ \E e \in Producers :
              /\ Holding(e)
              /\ \A c \in Blocks \ {token[e].block} : desc'[c] = desc[c]
  <1>1. \/ desc' = desc
        \/ \E e \in Endpoints : \/ ReserveBlock(e) \/ CommitBlock(e)
                                \/ ReadMetadata(e) \/ ReturnBlock(e)
    BY DEF Next, Step, vars, WriteReserve, WriteCommit, ReadBorrow, EnableDrain,
           ReturnToken, AbandonRetained, DequeueHead, DequeueEntry, DequeueClaim,
           EnqueueTail, EnqueueEntry, EnqueueHelp, EnqueueInstall, EnqueueAdvance,
           DrainFailure, ReturnFailure, RetireStep, RetireFailure, RetireLoad, RetireGate,
           Retire, Quarantine, Crash
  <1>2. ASSUME NEW e \in Endpoints, ReserveBlock(e) \/ CommitBlock(e)
        PROVE  \E p \in Producers :
                 Holding(p) /\ \A c \in Blocks \ {token[p].block} : desc'[c] = desc[c]
    <2>1. /\ TypeOK /\ CallCoherent(e) /\ Sided(e) /\ Kept(e)
          /\ token[e].block \in Blocks /\ desc \in [Blocks -> Descriptors]
      BY OwnFacts
    <2>2. token[e].owned = "write" /\ call[e].pc \in {"claimed", "commit"}
      BY <1>2, <2>1 DEF ReserveBlock, CommitBlock, At, Sided
    <2>3. e \in Producers /\ Holding(e)
      BY <2>1, <2>2 DEF Sided, Holding
    <2>4. desc' = desc \/ \E n : desc' = [desc EXCEPT ![token[e].block] = n]
      BY <1>2 DEF ReserveBlock, CommitBlock
    <2> QED BY <2>1, <2>3, <2>4
  <1>3. ASSUME NEW e \in Endpoints, ReadMetadata(e) \/ ReturnBlock(e)
        PROVE  Written' = Written
    <2>1. PICK b \in Blocks : b = token[e].block
      BY StateTypes DEF IInv
    <2>2. desc' = desc \/ \E l : desc' = [desc EXCEPT ![b].phase = l]
      BY <1>3, <2>1 DEF ReadMetadata, ReturnBlock
    <2>3. \A c \in Blocks : desc'[c].epoch = desc[c].epoch /\ desc'[c].meta = desc[c].meta
      <3>1. desc \in [Blocks -> Descriptors]
        BY DEF IInv, TypeOK
      <3> QED BY <2>2, <3>1 DEF Descriptors
    <2> QED BY <2>3 DEF Written
  <1>4. desc' = desc => Written' = Written
    BY DEF Written
  <1> QED BY <1>1, <1>2, <1>3, <1>4

\* Every other step leaves the queues and the tokens; it writes a message, or
\* nothing that the channel sees.
LEMMA QuietSimulated ==
  ASSUME IInv, Sound, Sound', IInv', [Next]_vars, KeepQueues, KeepTokens
  PROVE  Simulated
  <1>1. UNCHANGED <<Contents("QF"), ReadySeq, retained>>
    BY DEF KeepQueues, KeepTokens, Contents, Tickets, Slot, ReadySeq, Queues
  <1>2. Holders' = Holders
    <2>1. ASSUME NEW e \in Endpoints PROVE Holders'[e] = Holders[e]
      <3>1. Holding(e)' <=> Holding(e)
        BY DEF KeepTokens
      <3>2. CASE Holding(e)
        <4>1. token'[e].owned = token[e].owned /\ token'[e].block = token[e].block
          <5>1. token[e].owned = IF e \in Producers THEN "write" ELSE "read"
            BY <3>2, Kinds
          <5>2. token'[e].owned = IF e \in Producers THEN "write" ELSE "read"
            BY <3>1, <3>2, KindsNext
          <5>3. token'[e].block = token[e].block
            BY <3>2 DEF KeepTokens
          <5> QED BY <5>1, <5>2, <5>3
        <4> QED BY <3>1, <3>2, <4>1 DEF Holders
      <3>3. CASE ~Holding(e)
        BY <3>1, <3>3 DEF Holders
      <3> QED BY <3>2, <3>3
    <2> QED BY <2>1 DEF Holders
  <1>3. CASE Written' = Written
    BY <1>1, <1>2, <1>3, Stuttering DEF Mapped
  <1>4. ASSUME NEW e \in Producers, Holding(e),
               \A c \in Blocks \ {token[e].block} : desc'[c] = desc[c]
        PROVE  Simulated
    <2>1. e \in Endpoints
      BY DEF Endpoints
    <2>2. PICK b \in Blocks : b = token[e].block
      BY <2>1, StateTypes DEF IInv
    <2>3. Holders[e] = Promise!Token("write", b)
      BY <1>4, <2>1, <2>2, Kinds
    <2>4. Written' \in [Blocks -> Messages]
      BY NcqAssumption DEF IInv, TypeOK, Written, Messages, Descriptors
    <2>5. \A c \in Blocks \ {b} : Written'[c] = Written[c]
      BY <1>4, <2>2 DEF Written
    <2>6. Promise!Write(e, b)
      BY <1>1, <1>2, <2>3, <2>4, <2>5 DEF Promise!Write
    <2> QED BY <2>6 DEF Simulated, Promise!Next
  <1> QED BY <1>3, <1>4, MessageStep
-----------------------------------------------------------------------------
(***************************************************************************)
(* The theorem.                                                            *)
(***************************************************************************)

\* At first every block is in QF, and nothing is published.
LEMMA InitSimulated == Init => Promise!Init
  <1> SUFFICES ASSUME Init PROVE Promise!Init
    OBVIOUS
  <1>1. IInv
    BY InitInvariant
  <1>2. \A e \in Endpoints : ~Holding(e)
    BY DEF Init, NoToken, Holding
  <1>3. Held = {} /\ retained = {}
    BY <1>2 DEF Held, Init
  <1>4. Frontier("QR") = head["QR"]
    <2>1. Index(N) = 0 /\ Cycle(N) = N
      BY Capacity DEF Index, Cycle
    <2> QED BY <2>1, Capacity DEF Init, Queues, Frontier, Installed, Blocks
  <1>5. Contents("QR") = {} /\ ReadySeq = <<>>
    <2>1. head["QR"] \in Nat
      BY <1>1, Shape
    <2>2. Tickets("QR") = {} /\ 1 .. Frontier("QR") - head["QR"] = {}
      BY <1>4, <2>1 DEF Tickets
    <2>3. ReadySeq = [i \in {} |-> Slot("QR", head["QR"] + i - 1)]
      BY <2>2 DEF ReadySeq
    <2> QED BY <2>2, <2>3 DEF Contents
  <1>6. Contents("QF") = Blocks
    BY <1>1, <1>3, <1>5 DEF IInv, Partition
  <1>7. Holders = [e \in Promise!Endpoints |-> Promise!NoToken]
    BY <1>2 DEF Holders, Promise!Endpoints, Endpoints, Promise!NoToken
  <1>8. Written \in [Blocks -> Messages]
    BY <1>1, NcqAssumption DEF IInv, TypeOK, Written, Messages, Descriptors
  <1> QED BY <1>3, <1>5, <1>6, <1>7, <1>8 DEF Promise!Init

\* The two queues implement the channel for every capacity and any number of
\* producers and consumers: published blocks are borrowed in the order of their
\* installation, each by one consumer, and a message changes only in the hands
\* of the producer that owns its block, under every interleaving of helpers,
\* retirement, quarantine, abandonment and crashes.
THEOREM Implementation == Spec => ImplementsChannel
  <1>1. IInv /\ Sound /\ [Next]_vars => Simulated
    <2> SUFFICES ASSUME IInv, Sound, [Next]_vars PROVE Simulated
      OBVIOUS
    <2>1. IInv' /\ Sound'
      BY NextInvariant, NextSound
    <2>2. PICK p \in Procs : Effect(p)
      BY NextEffect
    <2> QED BY <2>1, <2>2, QuietSimulated, AbandonSimulated, ClaimSimulated, InstallSimulated
            DEF Effect
  <1> QED BY <1>1, InitSimulated, Soundness, PTL
          DEF Spec, Simulated, ImplementsChannel, Promise!Spec
=============================================================================
