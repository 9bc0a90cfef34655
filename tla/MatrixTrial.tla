----------------------------- MODULE MatrixTrial -----------------------------
(***************************************************************************)
(* bindings/python/matrix_worker.py: one trial of the throughput matrix.   *)
(* The coordinator (run) starts a process per endpoint and leads them      *)
(* through a warm-up and a measured phase with lines on their pipes and a  *)
(* page of control words; the messages go through the ring.  A worker may  *)
(* die at any step, and the coordinator gives up at its deadline.          *)
(*                                                                         *)
(* The ring is what the queue modules promise: first in, first out, and no *)
(* more messages and leases than capacity.  Ticks, placement, payloads and *)
(* the statistics of a trial are left out.                                 *)
(***************************************************************************)
EXTENDS Integers, Sequences, FiniteSets

CONSTANTS Configs,    \* producers, consumers, messages, warmup, closed
          Capacity,
          MaxDeaths   \* workers that may die

\* The plan gives every producer the same share (run_matrix.py, plan_cells).
ASSUME MatrixAssumption ==
  /\ \A c \in Configs :
       /\ c.producers \in Nat \ {0} /\ c.consumers \in Nat \ {0}
       /\ c.messages \in Nat /\ (c.messages \div c.producers) * c.producers = c.messages
       /\ c.warmup \in Nat /\ (c.warmup \div c.producers) * c.producers = c.warmup
  /\ Capacity \in Nat \ {0} /\ MaxDeaths \in Nat

VARIABLES
  cfg,
  parent,      \* where run() is: pc, and the worker it deals with
  exitcode,    \* worker -> what run() collected: Running, 0, or a failure
  broken,      \* workers whose pipe refused a line
  expired,     \* the deadline was met
  warmTotal,   \* messages the consumers report from the warm-up
  deaths,      \* workers that died
  worker,      \* each process: pc, count, lease, ids it received
  inbox, outbox,  \* its pipes
  word,        \* control words
  ring         \* messages in the queue and slots that are free

vars == <<cfg, parent, exitcode, broken, expired, warmTotal, deaths, worker, inbox, outbox, word, ring>>
workerVars == <<deaths, worker, inbox, outbox, word, ring>>
parentVars == <<parent, exitcode, broken, expired, warmTotal>>

N          == cfg.producers + cfg.consumers
Workers    == 0 .. N - 1
IsProducer(i) == i < cfg.producers
Running    == -1000
None       == [id |-> -1, warm |-> FALSE]
Total(warm) == IF warm THEN cfg.warmup ELSE cfg.messages
Quota(warm) == Total(warm) \div cfg.producers
FinalWord(warm) == IF warm THEN 1 ELSE 2

Init ==
  /\ cfg \in Configs
  /\ parent = [pc |-> "spawn", i |-> 0]
  /\ exitcode = [i \in Workers |-> Running]
  /\ broken = {} /\ expired = FALSE /\ warmTotal = 0 /\ deaths = 0
  /\ worker = [i \in Workers |-> [pc |-> "unborn", got |-> 0, lease |-> None, look |-> "no", bits |-> {}]]
  /\ inbox = [i \in Workers |-> <<>>] /\ outbox = [i \in Workers |-> <<>>]
  /\ word = [i \in Workers |-> 0]
  /\ ring = [queue |-> <<>>, free |-> Capacity]

(***************************************************************************)
(* The worker process.                                                     *)
(***************************************************************************)
Ended(i) == worker[i].pc \in {"exited", "failed", "killed"}
Lives(i) == ~Ended(i) /\ worker[i].pc # "unborn"
At(i, pc) == worker[i].pc = pc
Becomes(i, changes) == worker' = [worker EXCEPT ![i] = changes]
Emit(i, record) == outbox' = [outbox EXCEPT ![i] = Append(@, record)]
Reads(i, line) == inbox[i] # <<>> /\ Head(inbox[i]) = line
                  /\ inbox' = [inbox EXCEPT ![i] = Tail(@)]

Attach(i) ==
  /\ At(i, "request") /\ Reads(i, "request")
  /\ Emit(i, [event |-> "READY", count |-> 0])
  /\ Becomes(i, [worker[i] EXCEPT !.pc = "go"])
  /\ UNCHANGED <<word, ring>>

\* A command line starts a phase; the bitmap was cleared after the warm-up.
Start(i) ==
  /\ \/ At(i, "go") /\ Reads(i, "1") /\ Becomes(i, [worker[i] EXCEPT !.pc = "warm"])
     \/ At(i, "ready") /\ Reads(i, "t0") /\ Becomes(i, [worker[i] EXCEPT !.pc = "run"])
  /\ UNCHANGED <<outbox, word, ring>>

InPhase(i) == worker[i].pc \in {"warm", "run"}
Warm(i)    == At(i, "warm")

\* In a closed loop a producer offers a message when the word of the one
\* before it says that it was released.
Reserve(i) ==
  /\ InPhase(i) /\ IsProducer(i) /\ worker[i].lease = None
  /\ worker[i].got < Quota(Warm(i))
  /\ cfg.closed /\ ~Warm(i) => word[i] = worker[i].got
  /\ ring.free > 0
  /\ ring' = [ring EXCEPT !.free = @ - 1]
  /\ Becomes(i, [worker[i] EXCEPT
       !.lease = [id |-> i * Quota(Warm(i)) + worker[i].got, warm |-> Warm(i)]])
  /\ UNCHANGED <<inbox, outbox, word>>

Commit(i) ==
  /\ InPhase(i) /\ IsProducer(i) /\ worker[i].lease # None
  /\ ring' = [ring EXCEPT !.queue = Append(@, worker[i].lease)]
  /\ Becomes(i, [worker[i] EXCEPT !.lease = None, !.got = @ + 1])
  /\ UNCHANGED <<inbox, outbox, word>>

\* try_borrow of a message; what it must be is checked under the lease.
Expects(i, m) == m.warm = Warm(i) /\ m.id \notin worker[i].bits
Borrow(i) ==
  /\ InPhase(i) /\ ~IsProducer(i) /\ worker[i].lease = None /\ worker[i].look # "look"
  /\ ring.queue # <<>>
  /\ LET m == Head(ring.queue) IN
     IF Expects(i, m)
       THEN /\ ring' = [ring EXCEPT !.queue = Tail(@)]
            /\ Becomes(i, [worker[i] EXCEPT !.lease = m, !.look = "no", !.bits = @ \cup {m.id}])
       ELSE /\ ring' = [queue |-> Tail(ring.queue), free |-> ring.free + 1]
            /\ Becomes(i, [worker[i] EXCEPT !.pc = "failed"])
  /\ UNCHANGED <<inbox, outbox, word>>

Release(i) ==
  /\ InPhase(i) /\ ~IsProducer(i) /\ worker[i].lease # None
  /\ ring' = [ring EXCEPT !.free = @ + 1]
  /\ word' = IF cfg.closed /\ ~Warm(i)
               THEN LET id == worker[i].lease.id IN
                    [word EXCEPT ![id \div Quota(FALSE)] = 1 + (id % Quota(FALSE))]
               ELSE word
  /\ Becomes(i, [worker[i] EXCEPT !.lease = None, !.got = @ + 1])
  /\ UNCHANGED <<inbox, outbox>>

\* An empty ring, then the control word, then the ring once more.
SeesEmpty(i) ==
  /\ InPhase(i) /\ ~IsProducer(i) /\ worker[i].lease = None /\ worker[i].look = "no"
  /\ ring.queue = <<>>
  /\ Becomes(i, [worker[i] EXCEPT !.look = "look"])
  /\ UNCHANGED <<inbox, outbox, word, ring>>

ReadsWord(i) ==
  /\ InPhase(i) /\ worker[i].look = "look"
  /\ Becomes(i, [worker[i] EXCEPT !.look = IF word[i] = FinalWord(Warm(i)) THEN "last" ELSE "no"])
  /\ UNCHANGED <<inbox, outbox, word, ring>>

\* Mutant: the word is believed without another look at the ring.
PhaseOver_TrustsWord(i) ==
  IF IsProducer(i) THEN worker[i].got = Quota(Warm(i)) ELSE worker[i].look = "last"

PhaseOver(i) ==
  IF IsProducer(i) THEN worker[i].got = Quota(Warm(i))
                   ELSE worker[i].look = "last" /\ ring.queue = <<>>

EndPhase(i) ==
  /\ InPhase(i) /\ worker[i].lease = None /\ PhaseOver(i)
  /\ Emit(i, [event |-> IF Warm(i) THEN "WARM" ELSE "DONE", count |-> worker[i].got])
  /\ Becomes(i, IF Warm(i) THEN [worker[i] EXCEPT !.pc = "ready", !.got = 0, !.look = "no", !.bits = {}]
                           ELSE [worker[i] EXCEPT !.pc = "end"])
  /\ UNCHANGED <<inbox, word, ring>>

\* The endpoint is closed and the trace and bitmap are written before FINAL.
Finish(i) ==
  /\ At(i, "end") /\ Reads(i, "0")
  /\ Emit(i, [event |-> "FINAL", count |-> worker[i].got])
  /\ Becomes(i, [worker[i] EXCEPT !.pc = "final"])
  /\ UNCHANGED <<word, ring>>

Exit(i) ==
  /\ At(i, "final") /\ Becomes(i, [worker[i] EXCEPT !.pc = "exited"])
  /\ UNCHANGED <<inbox, outbox, word, ring>>

\* A closed pipe ends a worker that waits for a line.
Waiting(i) == worker[i].pc \in {"request", "go", "ready", "end"} /\ inbox[i] = <<>>
Closed == parent.pc \in {"passed", "failed"}
EndOfFile(i) ==
  /\ Waiting(i) /\ Closed /\ Becomes(i, [worker[i] EXCEPT !.pc = "failed"])
  /\ UNCHANGED <<inbox, outbox, word, ring>>

Die(i) ==
  /\ Lives(i) /\ deaths < MaxDeaths /\ deaths' = deaths + 1
  /\ Becomes(i, [worker[i] EXCEPT !.pc = "failed"])
  /\ UNCHANGED <<inbox, outbox, word, ring>>

WorkerRuns(i) ==
  /\ \/ Attach(i) \/ Start(i) \/ Reserve(i) \/ Commit(i) \/ Borrow(i) \/ Release(i)
     \/ SeesEmpty(i) \/ ReadsWord(i) \/ EndPhase(i) \/ Finish(i) \/ Exit(i) \/ EndOfFile(i)
  /\ UNCHANGED <<cfg, parentVars, deaths>>

(***************************************************************************)
(* The coordinator.  Each loop of run() is a pc and an index.              *)
(***************************************************************************)
In(pc)  == parent.pc = pc
To(pc, i) == parent' = [pc |-> pc, i |-> i]
\* The next worker of this loop, or the first of the next loop.
Onward(last, next, first) ==
  IF parent.i = last THEN To(next, first) ELSE To(parent.pc, parent.i + 1)
GiveUp == To("finally", 0)
P == cfg.producers

Tells(line, next, first) ==
  LET i == parent.i IN
  IF Lives(i)
    THEN /\ inbox' = [inbox EXCEPT ![i] = Append(@, line)]
         /\ Onward(N - 1, next, first) /\ UNCHANGED broken
    ELSE broken' = broken \cup {i} /\ GiveUp /\ UNCHANGED inbox

Popen ==
  /\ In("spawn") /\ At(parent.i, "unborn")
  /\ Becomes(parent.i, [worker[parent.i] EXCEPT !.pc = "request"])
  /\ UNCHANGED <<cfg, parentVars, deaths, inbox, outbox, word, ring>>

Tell ==
  /\ \/ In("spawn") /\ ~At(parent.i, "unborn") /\ Tells("request", "ready", 0)
     \/ In("warm")  /\ Tells("1", "warmProducers", 0)
     \/ In("start") /\ Tells("t0", "doneProducers", 0)
     \/ In("end")   /\ Tells("0", "final", 0)
  /\ UNCHANGED <<cfg, exitcode, expired, warmTotal, deaths, worker, outbox, word, ring>>

\* line(): a record of worker i, checked; the end of its pipe; the deadline.
Wanted == CASE In("ready") -> "READY"
            [] parent.pc \in {"warmProducers", "warmConsumers"} -> "WARM"
            [] parent.pc \in {"doneProducers", "doneConsumers"} -> "DONE"
            [] In("final") -> "FINAL"
            [] OTHER -> "nothing"
Awaited == Wanted # "nothing"
SetWords(value) == word' = [i \in Workers |-> IF IsProducer(i) THEN word[i] ELSE value]

Line ==
  LET i == parent.i
      record == Head(outbox[i])
      bad == \/ record.event # Wanted
             \/ In("warmProducers") /\ record.count # Quota(TRUE)
             \/ In("warmConsumers") /\ i = N - 1 /\ warmTotal + record.count # cfg.warmup
  IN
  /\ Awaited /\ outbox[i] # <<>>
  /\ outbox' = [outbox EXCEPT ![i] = Tail(@)]
  /\ warmTotal' = IF In("warmConsumers") THEN warmTotal + record.count ELSE warmTotal
  /\ IF bad THEN GiveUp
     ELSE CASE In("ready")         -> Onward(N - 1, "warm", 0)
            [] In("warmProducers") -> Onward(P - 1, "warmConsumers", P)
            [] In("warmConsumers") -> Onward(N - 1, "start", 0)
            [] In("doneProducers") -> Onward(P - 1, "doneConsumers", P)
            [] In("doneConsumers") -> Onward(N - 1, "end", 0)
            [] In("final")         -> To("reap", i)
  /\ IF ~bad /\ i = P - 1 /\ In("warmProducers") THEN SetWords(1)
     ELSE IF ~bad /\ i = P - 1 /\ In("doneProducers") THEN SetWords(2)
     ELSE UNCHANGED word
  /\ UNCHANGED <<cfg, exitcode, broken, expired, deaths, worker, inbox, ring>>

EndOfPipe ==
  /\ Awaited /\ outbox[parent.i] = <<>> /\ Ended(parent.i) /\ GiveUp
  /\ UNCHANGED <<cfg, exitcode, broken, expired, warmTotal, workerVars>>

Deadline ==
  /\ (Awaited \/ In("reap")) /\ GiveUp /\ expired' = TRUE
  /\ UNCHANGED <<cfg, exitcode, broken, warmTotal, workerVars>>

Code(i) == IF At(i, "exited") THEN 0 ELSE 1

Reap ==
  LET i == parent.i IN
  /\ In("reap") /\ Ended(i)
  /\ exitcode' = [exitcode EXCEPT ![i] = Code(i)]
  /\ IF Code(i) # 0 THEN GiveUp
     ELSE IF i = N - 1 THEN To("reconcile", 0) ELSE To("final", i + 1)
  /\ UNCHANGED <<cfg, broken, expired, warmTotal, workerVars>>

Reconcile ==
  /\ In("reconcile") /\ GiveUp
  /\ UNCHANGED <<cfg, exitcode, broken, expired, warmTotal, workerVars>>

(***************************************************************************)
(* finally: every worker not yet collected is killed and waited for, for a *)
(* time; closing a pipe that holds an unsent line raises and ends the loop.*)
(***************************************************************************)
Failed == \/ expired \/ broken # {} \/ \E i \in Workers : exitcode[i] # 0
          \/ ring # [queue |-> <<>>, free |-> Capacity]
          \/ warmTotal # cfg.warmup

\* Mutant: the pipes are closed and nobody is killed.
Finally_OnlyCloses ==
  /\ In("finally")
  /\ IF parent.i = N - 1 THEN To(IF Failed THEN "failed" ELSE "collect", 0)
     ELSE To("finally", parent.i + 1)
  /\ UNCHANGED <<cfg, exitcode, broken, expired, warmTotal, workerVars>>

Finally ==
  LET i == parent.i IN
  /\ In("finally")
  /\ IF exitcode[i] = Running /\ ~At(i, "unborn")
       THEN /\ Becomes(i, IF Lives(i) THEN [worker[i] EXCEPT !.pc = "killed"] ELSE worker[i])
            /\ \E code \in {Running, 1} : exitcode' = [exitcode EXCEPT ![i] = code]
       ELSE UNCHANGED <<exitcode, worker>>
  /\ IF i \in broken \/ i = N - 1
       THEN To(IF Failed THEN "failed" ELSE "collect", 0)
       ELSE To("finally", i + 1)
  /\ UNCHANGED <<cfg, broken, expired, warmTotal, deaths, inbox, outbox, word, ring>>

\* The bitmaps are joined and the record is verified.
Consumers == {i \in Workers : ~IsProducer(i)}
Exact ==
  /\ \A i, j \in Consumers : i # j => worker[i].bits \cap worker[j].bits = {}
  /\ UNION {worker[i].bits : i \in Consumers} = 0 .. cfg.messages - 1

Collect ==
  /\ In("collect") /\ To(IF Exact THEN "passed" ELSE "failed", 0)
  /\ UNCHANGED <<cfg, exitcode, broken, expired, warmTotal, workerVars>>

ParentRuns == Popen \/ Tell \/ Line \/ EndOfPipe \/ Reap \/ Reconcile \/ Finally \/ Collect

Dies == \E i \in Workers : Die(i) /\ UNCHANGED <<cfg, parentVars>>

Next == ParentRuns \/ Deadline \/ Dies \/ \E i \in Workers : WorkerRuns(i)
Spec == Init /\ [][Next]_vars

\* Processes run on, and line() and reap look at the clock.
FairSpec == /\ Spec /\ WF_vars(ParentRuns) /\ WF_vars(Deadline)
            /\ \A i \in 0 .. 3 : WF_vars(i \in Workers /\ WorkerRuns(i))

(***************************************************************************)
(* Properties.                                                             *)
(***************************************************************************)
\* A trial fails only for a reason: as long as nobody dies and the deadline is
\* not met, the commands, the control words and the two looks at an empty ring
\* keep the phases apart, every message is counted once and the ring is left
\* empty (run, phase).
HealthyTrialPasses == In("failed") => expired \/ deaths > 0

AllEnded == Closed /\ \A i \in Workers : ~Lives(i)

\* Every trial ends and leaves no process behind, whoever died, also when the
\* loop that kills and collects the workers ends half way because a pipe cannot
\* be closed: the ends of the pipes that are closed with the coordinator's
\* references stop the others (run's finally, worker).
WorkersEnd == <>[]AllEnded
=============================================================================
