----------------------------- MODULE ChaosOracle -----------------------------
(***************************************************************************)
(* tools/verify_chaos_results.py, verify_events: the monitor that replays  *)
(* the log of a chaos run.  One action per kind of record, guarded by the  *)
(* need() calls: the monitor takes the record, or the replay stops there.  *)
(*                                                                         *)
(* The log is the input, and it is the log of the harness:                 *)
(* tests/test_chaos_multiprocess.c decides who is told to do what and when *)
(* a generation is created (Sends, Creates).  The rest is free: the ranges *)
(* it hands out, what workers report and when, the other records of the    *)
(* coordinator.  So what the property says harness and verifier guarantee  *)
(* together.  The verifier by itself accepts more: it takes the range of a *)
(* producer from the last command but a drain, which need not be the one   *)
(* the producer worked on, and lets the victim be told to work.            *)
(*                                                                         *)
(* NCQ layout.  Ticks, identities, hashes, addresses and header bytes of a *)
(* record are left out, and so are the records that change nothing in the  *)
(* monitor (START, PROGRESS, DRAIN, stopped_observed, the scope notes).    *)
(* READY records come in the order of the workers: which is first makes no *)
(* difference to the monitor.                                              *)
(***************************************************************************)
EXTENDS Integers, FiniteSets, FiniteSetsExt

CONSTANTS Plans,      \* plan records: scenario, messages, producers, consumers
          Blocks      \* block numbers a record may name, from 1

VARIABLES
  plan,        \* the first record
  gens,        \* generations seen
  worker,      \* what is known of each worker
  marks,       \* milestones of the run seen so far
  cohorts,     \* reconciled generations
  pending,     \* committed by generation 0 and not delivered
  missing,     \* generation -> blocks its snapshot found in no queue, or Open
  destroyed, complete

vars == <<plan, gens, worker, marks, cohorts, pending, missing, destroyed, complete>>

Storm  == plan.scenario = "storm"
Random == plan.scenario = "random_abort_kill"
Async  == plan.scenario = "async_resume_write"
Resume == plan.scenario \in {"resume_write", "async_resume_write"}

Count       == plan.messages
Messages    == 0 .. Count - 1
Gen(w)      == w \div 32
Producers(g) == IF g = 0 THEN plan.producers ELSE 1
Size(g)     == IF g = 0 THEN plan.producers + plan.consumers ELSE 2
Members(g)  == {32 * g + i : i \in 0 .. Size(g) - 1}
Workers     == Members(0) \cup Members(1)
IsProducer(w) == w % 32 < Producers(Gen(w))
Victim      == 0
CutBlock    == 1
Open        == {0}       \* no snapshot yet; 0 is no block

\* "start" is where the range it was told to work on begins; the monitor remembers
\* only that of the last command, "first".
Unknown == [life |-> "none", command |-> "none", first |-> 0, quota |-> 0,
            start |-> 0, detached |-> FALSE, count |-> -1, special |-> 0, lost |-> 0,
            member |-> FALSE, bitmap |-> {}]

Init ==
  /\ plan \in Plans /\ gens = 0
  /\ worker = [w \in Workers |-> Unknown] /\ marks = {}
  /\ cohorts = {} /\ pending = {} /\ missing = [g \in 0 .. 1 |-> Open]
  /\ destroyed = {} /\ complete = FALSE

Known(w) == worker[w].life # "none"
Alive(w) == worker[w].life = "ready"
IsDone(w) == worker[w].count >= 0
Seen(m)  == m \in marks
Mark(m)  == marks' = marks \cup {m}

Generation ==
  /\ gens < 2
  /\ gens = 1 => Seen("quarantined")
  /\ gens' = gens + 1
  /\ UNCHANGED <<worker, marks, cohorts, pending, missing, destroyed>>

(***************************************************************************)
(* worker_event: every kind but READY needs a worker that has not exited,  *)
(* and only a DETACHED that nothing follows allows a clean exit.           *)
(***************************************************************************)
Report(w, changes) ==
  /\ Alive(w)
  /\ worker' = [worker EXCEPT ![w] = [changes EXCEPT !.detached = FALSE]]

Silent == UNCHANGED <<gens, cohorts, pending, missing, destroyed>>

Ready(w) ==
  /\ Gen(w) < gens /\ ~Known(w)
  /\ worker' = [worker EXCEPT ![w].life = "ready"]
  /\ Silent /\ UNCHANGED marks

Retiring(w) == Async /\ Gen(w) = 0

Done(w, count, special, lost) ==
  /\ ~IsDone(w) /\ worker[w].command = "work"
  /\ IF IsProducer(w)
       THEN special = 0 /\ IF Retiring(w) THEN count <= worker[w].quota
                                          ELSE count = worker[w].quota
       ELSE count <= Count
  /\ lost # 0 => Retiring(w)
  /\ Report(w, [worker[w] EXCEPT !.count = count, !.special = special, !.lost = lost])
  /\ Silent /\ UNCHANGED marks

Cut ==
  /\ ~Seen("cut") /\ ~Random
  /\ Report(Victim, worker[Victim]) /\ Mark("cut") /\ Silent

VictimDone ==
  /\ Resume /\ Seen("held")
  /\ Report(Victim, worker[Victim]) /\ Mark("victim_done") /\ Silent

Detached(w) ==
  /\ Alive(w) /\ worker[w].command = "exit"
  /\ worker' = [worker EXCEPT ![w].detached = TRUE]
  /\ Silent /\ UNCHANGED marks

Held(w) ==
  /\ Gen(w) = 1 /\ worker[w].command = "hold"
  /\ Report(w, worker[w]) /\ Mark("held") /\ Silent

Released(w) ==
  /\ Gen(w) = 1 /\ Seen("held") /\ (Resume => Seen("victim_done"))
  /\ Report(w, worker[w]) /\ Mark("released") /\ Silent

(***************************************************************************)
(* Records of the coordinator.                                             *)
(***************************************************************************)
\* The last command replaces the one before it, with its range; "hold" stands for
\* every command but "work", "exit" and a drain, which replaces nothing.
Command(w, command, first, quota) ==
  /\ Alive(w) /\ (command = "work" => ~IsDone(w))
  /\ worker' = [worker EXCEPT ![w] =
       [@ EXCEPT !.command = command, !.first = first, !.quota = quota,
                 !.start = IF command = "work" THEN first ELSE @]]
  /\ Silent /\ UNCHANGED marks

Membership(w, bits) ==
  /\ IsDone(w) /\ ~worker[w].member
  /\ IF IsProducer(w) THEN bits = {} ELSE Cardinality(bits) = worker[w].count
  /\ worker' = [worker EXCEPT ![w].member = TRUE, ![w].bitmap = bits]
  /\ Silent /\ UNCHANGED marks

\* SIGKILL to the victim, or the four signals of a storm.
SignalSent ==
  /\ Alive(Victim) /\ ~Resume
  /\ Mark(IF Storm THEN "storm_signals" ELSE "kill") /\ Silent /\ UNCHANGED worker

StopNotDeath(w) ==
  /\ Known(w) /\ Mark("stop_check") /\ Silent /\ UNCHANGED worker

HeartbeatOverdue ==
  /\ ~Storm /\ ~Seen("suspicion") /\ Known(Victim)
  /\ Mark("suspicion") /\ Silent /\ UNCHANGED worker

Exit(w) == worker' = [worker EXCEPT ![w].life = "exited"]

TerminalObserved ==
  /\ ~Resume /\ Alive(Victim) /\ Seen("kill") /\ 0 \in cohorts
  /\ Exit(Victim) /\ Mark("terminal") /\ Silent

CleanExit(w) ==
  /\ Alive(w) /\ worker[w].detached
  /\ Exit(w) /\ Silent /\ UNCHANGED marks

Quarantined ==
  /\ ~Storm /\ ~Seen("quarantined") /\ Seen("suspicion")
  /\ ~Resume => Seen("terminal")
  /\ Mark("quarantined") /\ Silent /\ UNCHANGED worker

UnfencedDestroyBlocked ==
  /\ Resume /\ ~Seen("held")
  /\ Mark("blocked") /\ Silent /\ UNCHANGED worker

(***************************************************************************)
(* cohort_reconciled: what the working endpoints reported fits together.   *)
(***************************************************************************)
Expected(g)  == IF g = 0 /\ ~Storm THEN Members(0) \ {Victim} ELSE Members(g)
Sending(g)   == {w \in Expected(g) : IsProducer(w)}
Receiving(g) == Expected(g) \ Sending(g)
CountOf(w)   == worker[w].count
SpecialOf(w) == worker[w].special
Sent(g)      == MapThenSumSet(CountOf, Sending(g))
Received(g)  == MapThenSumSet(CountOf, Receiving(g))
Union(g)     == UNION {worker[w].bitmap : w \in Receiving(g)}

\* Mutant: the ranges only have to add up.
RangesTile_Sum(g) == LET Quota(w) == worker[w].quota
                     IN  MapThenSumSet(Quota, Sending(g)) = Count

\* Sorted by their first message, the assigned ranges follow each other from 0.
RangesTile(g) ==
  LET Sorts(v, w) == \/ worker[v].first < worker[w].first
                     \/ /\ worker[v].first = worker[w].first
                        /\ \/ worker[v].quota < worker[w].quota
                           \/ worker[v].quota = worker[w].quota /\ v < w
      Before(w)   == {v \in Sending(g) : Sorts(v, w)}
      Quota(w)    == worker[w].quota
  IN /\ \A w \in Sending(g) : worker[w].first = MapThenSumSet(Quota, Before(w))
     /\ MapThenSumSet(Quota, Sending(g)) = Count

RangeOf(w)    == worker[w].first .. worker[w].first + worker[w].count - 1
Published(g) == UNION {RangeOf(w) : w \in Sending(g)}

CohortReconciled(g) ==
  /\ g < gens /\ g \notin cohorts
  /\ {w \in Members(g) : IsDone(w)} = Expected(g) /\ \A w \in Expected(g) : worker[w].member
  /\ \A v, w \in Receiving(g) : v # w => worker[v].bitmap \cap worker[w].bitmap = {}
  /\ RangesTile(g)
  /\ IF Async /\ g = 0
       THEN /\ Seen("quarantined") /\ Received(0) <= Sent(0) /\ Sent(0) <= Count
            /\ Union(0) \subseteq Published(0)
            /\ pending' = Published(0) \ Union(0)
       ELSE /\ Sent(g) = Count /\ Received(g) = Count /\ Union(g) = Messages
            /\ UNCHANGED pending
  /\ MapThenSumSet(SpecialOf, Expected(g)) = (IF g = 0 /\ plan.scenario = "write_published" THEN 1 ELSE 0)
  /\ Storm => Seen("stop_check") /\ Seen("storm_signals")
  /\ cohorts' = cohorts \cup {g}
  /\ UNCHANGED <<gens, worker, marks, missing, destroyed>>

(***************************************************************************)
(* queue_members: what the raw words of a queue of n entries amount to.    *)
(***************************************************************************)
\* The entry of the tail may be there already, its writer stopped before the tail moved.
FrontierOf(tail, entries, n) ==
  tail + IF entries[tail % n] \div n = tail \div n THEN 1 ELSE 0
QueueMembers(head, tail, entries, n) ==
  {entries[t % n] % n : t \in head .. FrontierOf(tail, entries, n) - 1}
QueueReads(head, tail, entries, n) ==
  LET live == head .. FrontierOf(tail, entries, n) - 1 IN
  /\ head <= FrontierOf(tail, entries, n) /\ Cardinality(live) <= n
  /\ \A t \in live : entries[t % n] \div n = t \div n
  /\ Cardinality(QueueMembers(head, tail, entries, n)) = Cardinality(live)

(***************************************************************************)
(* snapshot: lost is the set of blocks in neither queue, ready the messages*)
(* still in the ready queue.                                               *)
(***************************************************************************)
Losses == {worker[w].lost : w \in {v \in Members(0) : worker[v].lost # 0}}
LostOnce == \A v, w \in Members(0) : v # w /\ worker[v].lost # 0 => worker[v].lost # worker[w].lost
ExpectedMissing(g) == IF g = 1 \/ Storm \/ plan.scenario = "write_published" THEN 0 ELSE 1

Snapshot(g, lost, ready) ==
  /\ g < gens /\ missing[g] = Open /\ \A w \in Members(g) : worker[w].life = "exited"
  /\ IF g = 0 /\ Async
       THEN /\ Seen("cut") /\ LostOnce /\ CutBlock \notin Losses
            /\ lost = Losses \cup {CutBlock}
            /\ ready = pending
       ELSE /\ IF g = 0 /\ Random THEN Cardinality(lost) <= 1
                                  ELSE Cardinality(lost) = ExpectedMissing(g)
            /\ Seen("cut") /\ lost # {} => lost = {CutBlock}
            /\ ready = {}
  /\ missing' = [missing EXCEPT ![g] = lost]
  /\ UNCHANGED <<gens, worker, marks, cohorts, pending, destroyed>>

Destroyed(g) ==
  /\ missing[g] # Open /\ g \notin destroyed
  /\ destroyed' = destroyed \cup {g}
  /\ UNCHANGED <<gens, worker, marks, cohorts, pending, missing>>

\* The last record, and the checks after it.
Complete ==
  /\ gens = (IF Storm THEN 1 ELSE 2) /\ destroyed = 0 .. gens - 1
  /\ \A g \in 0 .. gens - 1 : \A w \in Members(g) : worker[w].life = "exited"
  /\ cohorts = 0 .. gens - 1
  /\ ~Storm => /\ {"suspicion", "quarantined", "released"} \subseteq marks
               /\ IF Resume THEN Seen("blocked") /\ Seen("victim_done") /\ ~Seen("terminal")
                            ELSE Seen("terminal")
               /\ ~Random => Seen("cut") /\ Seen("stop_check")
  /\ complete' = TRUE
  /\ UNCHANGED <<gens, worker, marks, cohorts, pending, missing, destroyed>>

(***************************************************************************)
(* The coordinator of tests/test_chaos_multiprocess.c.  run_cohort tells   *)
(* every worker but the victim to work, once and in their order;           *)
(* finish_worker tells it to exit after its cohort is reconciled, and      *)
(* waits for that before the next; main tells the successor's consumer to  *)
(* hold, and creates the successor when all but the victim have exited.    *)
(***************************************************************************)
Told(w)   == worker[w].command

Sends(w, command) ==
  CASE command = "work" -> /\ Told(w) \in {"none", "hold"} /\ w \in Expected(Gen(w))
                           /\ \A v \in Expected(Gen(w)) : v < w => Told(v) \in {"work", "exit"}
    [] command = "exit" -> /\ Told(w) # "exit" /\ Gen(w) \in cohorts
                           /\ \A v \in Expected(Gen(w)) : v < w => worker[v].life = "exited"
    [] command = "hold" -> Told(w) = "none" /\ w = 33
Creates == gens = 1 => \A w \in Members(0) \ {Victim} : worker[w].life = "exited"

\* A command carries a range of messages, which nothing reads when a consumer gets
\* it; only that of work is not empty.
Ranges(w, command) ==
  IF IsProducer(w) /\ command = "work"
    THEN {r \in Messages \X (0 .. Count) : r[1] + r[2] <= Count}
    ELSE {<<0, 0>>}
CommandSent(w, command) ==
  Sends(w, command) /\ \E range \in Ranges(w, command) : Command(w, command, range[1], range[2])

Next ==
  /\ ~complete /\ UNCHANGED plan
  /\ \/ Complete
     \/ /\ UNCHANGED complete
        /\ \/ Creates /\ Generation
           \/ Cut \/ VictimDone \/ HeartbeatOverdue \/ TerminalObserved
           \/ Quarantined \/ UnfencedDestroyBlocked \/ SignalSent
           \/ \E w \in Workers :
                \/ (\A v \in Members(Gen(w)) : v < w => Known(v)) /\ Ready(w)
                \/ Detached(w) \/ Held(w) \/ Released(w)
                \/ StopNotDeath(w) \/ CleanExit(w)
                \/ \E bits \in SUBSET Messages : Membership(w, bits)
                \/ \E command \in {"work", "exit", "hold"} : CommandSent(w, command)
                \/ \E count \in 0 .. Count : \E special \in 0 .. 1 :
                     \E lost \in {0} \cup Blocks : Done(w, count, special, lost)
           \/ \E g \in 0 .. 1 :
                \/ CohortReconciled(g) \/ Destroyed(g)
                \/ \E lost \in SUBSET Blocks : \E ready \in SUBSET Messages : Snapshot(g, lost, ready)

Spec == Init /\ [][Next]_vars
-----------------------------------------------------------------------------
\* What w sent, if it did what it was told last to work on.
SentBy(w)       == worker[w].start .. worker[w].start + worker[w].count - 1
Senders(g, m)   == {w \in Sending(g) : m \in SentBy(w)}
Receivers(g, m) == {w \in Receiving(g) : m \in worker[w].bitmap}

\* The producers and consumers of a generation that was quarantined under them
\* may have stopped early.
ReceivedOnce(g) ==
  \A m \in Messages : IF Async /\ g = 0 THEN Cardinality(Receivers(0, m)) <= 1
                                        ELSE Cardinality(Receivers(g, m)) = 1
SentOnce(g) ==
  \A m \in Messages :
    IF Async /\ g = 0
      THEN /\ Cardinality(Senders(0, m)) <= 1
           /\ Receivers(0, m) # {} => Senders(0, m) # {}
           /\ m \in pending' <=> Senders(0, m) # {} /\ Receivers(0, m) = {}
      ELSE Cardinality(Senders(g, m)) = 1

\* The blocks an endpoint of generation 0 may have kept: the one it reported,
\* or the one its death left behind.
Kept(w) == ({worker[w].lost} \ {0}) \cup
           (IF w # Victim THEN {} ELSE IF Random THEN missing[0] ELSE {CutBlock})
Keeping(b) == {w \in Members(0) : b \in Kept(w)}

\* What a log of the harness must amount to before the replay accepts it: in each
\* generation it reconciles every message was sent by one producer and received by
\* one consumer (at most by one each, when the generation was quarantined under
\* them, and what was sent and not received is just what must be left in the ready
\* queue); no generation is left out; every block in neither queue was kept by one
\* endpoint, none kept two, and none is missing from the successor; and a victim
\* never reported its work as done.  The ranges tile because the verifier looks,
\* and are those the producers worked on because the harness tells them once; it
\* alone keeps the victim from working (verify_events; run_cohort, finish_worker).
Accepting ==
  /\ \A g \in cohorts' \ cohorts : ReceivedOnce(g) /\ SentOnce(g)
  /\ complete' =>
       /\ cohorts = 0 .. gens - 1
       /\ \A b \in missing[0] : Cardinality(Keeping(b)) = 1
       /\ \A w \in Members(0) : Cardinality(Kept(w) \cap missing[0]) <= 1
       /\ gens = 2 => missing[1] = {}
       /\ ~Storm => ~IsDone(Victim)
=============================================================================
