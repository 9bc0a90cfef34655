------------------------------ MODULE Campaign ------------------------------
(***************************************************************************)
(* The campaign drivers and the verifiers that read what they leave:       *)
(*   chaos    tools/run_chaos.py       tools/verify_chaos_results.py       *)
(*   matrix   tools/run_matrix.py      tools/verify_matrix_results.py      *)
(*   formal   tools/run_formal.py      tools/verify_formal_results.py      *)
(*   bench    tools/run_benchmarks.py  tools/verify_results.py             *)
(*   cache    tools/run_cache_profiling.py, which verifies as it goes      *)
(*   lane     ci/run_lane.py, a list of commands                           *)
(*                                                                         *)
(* A driver plans its cases, runs each as a child process, records how it  *)
(* ended and writes a completion file.  It may be killed between any two   *)
(* writes, the sources may be edited and edited back, and a file may be    *)
(* lost, garbled or overwritten by that of another case, at any time.      *)
(*                                                                         *)
(* A digest is the content it is the digest of.  "trace" stands for what a *)
(* case leaves (trace, stderr, result, bitmaps); a case is one trial of    *)
(* one condition.  No verifier looks at everything that tells two cases    *)
(* apart: "workload" says which ones it takes for each other.              *)
(***************************************************************************)
EXTENDS Integers, FiniteSets, Sequences

CONSTANTS Tools,      \* the drivers
          CaseCount,  \* cases of a campaign
          Native,     \* cases of matrix that run the compiled benchmark
          MaxFaults   \* kills, edits and harmed files

VARIABLES
  tool, step, at,   \* the driver, what it does next, for which case
  known,            \* what the driver remembers: sources, records, failed
  disk,             \* the campaign's directory
  world,            \* how each case really ended, and what it left
  source,           \* the version of the sources and binaries
  workload,         \* case -> the first case of which a trace would do for it,
                    \*   0 when any trace does
  faults

vars == <<tool, step, at, known, disk, world, source, workload, faults>>

Cases  == 1 .. CaseCount
Absent  == [is |-> "absent"]
Garbled == [is |-> "garbled"]
Plan     == <<"plan", 0>>
Complete == <<"complete", 0>>    \* COMPLETE, MATRIX_COMPLETE, summary, provenance, campaign, RESULT
Manifest == <<"manifest", 0>>
Listing  == <<"listing", 0>>     \* execution.json
Replay   == <<"replay", 0>>
Trace(c)    == <<"trace", c>>
Record(c)   == <<"record", c>>
Verified(c) == <<"verified", c>>
Files == {Plan, Complete, Manifest, Listing, Replay}
           \cup UNION {{Trace(c), Record(c), Verified(c)} : c \in Cases}
Present == {f \in Files : disk[f] # Absent}
Provenance(status, list) == [is |-> "provenance", status |-> status, runs |-> list]
Write(f, content) == disk' = [disk EXCEPT ![f] = content]

\* As planned: the exit code the case is expected to end with, in time.
AsPlanned(o) == o.expected /\ ~o.timed
\* What verify_file, verify_record or a result's status make of a trace.
Good(f) == disk[f].is = "trace" /\ disk[f].good
\* d's trace agrees with what the verifier compares of c.
Alike(c, d) == workload[c] \in {0, workload[d]}
\* Mutant: any good trace will do.
Fits_AnyCase(c) == Good(Trace(c))
Fits(c) == Good(Trace(c)) /\ Alike(c, disk[Trace(c)].case)

\* What no verifier compares.  chaos: the populations of a storm, the number of
\* the trial, and everything of a resource case, whose trace may even be that of
\* a data case.  matrix: the number of the trial.  cache: the counter mode.
\* Every case of formal has a model or a result of its own; the others compare
\* no trace with its case.
Workloads(t) ==
  LET Naming == {w \in [Cases -> 0 .. CaseCount] :
                   \A c \in Cases : w[c] <= c /\ (w[c] # 0 => w[w[c]] = w[c])}
  IN CASE t = "chaos"              -> Naming
       [] t \in {"matrix", "cache"} -> {w \in Naming : \A c \in Cases : w[c] # 0}
       [] OTHER                    -> {[c \in Cases |-> c]}

Init ==
  /\ tool \in Tools /\ step = "start" /\ at = 0
  /\ known = [source |-> 0, records |-> <<>>, failed |-> FALSE]
  /\ disk = [f \in Files |-> Absent]
  /\ world = [c \in Cases |-> Absent]
  /\ source = 0 /\ workload \in Workloads(tool) /\ faults = 0

Still == UNCHANGED <<tool, source, workload, faults>>
Stop  == step' = "stopped" /\ UNCHANGED <<at, disk, known>>   \* an exception ends main
Next1 == step' = "run" /\ at' = at + 1

\* The directory is new: mkdir refuses one that exists.
Begin ==
  /\ step = "start" /\ Present = {}
  /\ step' = "run" /\ at' = 1
  /\ known' = [known EXCEPT !.source = source]
  /\ IF tool \in {"bench", "cache", "lane"} THEN UNCHANGED disk
     ELSE Write(Plan, [is |-> "plan", source |-> source])
  /\ Still /\ UNCHANGED world

\* The child ends, or the watchdog ends it; run_chaos opens the trace itself.
Run ==
  /\ step = "run" /\ at \in Cases
  /\ \E expected, timed, good, left \in BOOLEAN :
       LET trace == [is |-> "trace", case |-> at, good |-> good,
                     source |-> IF at \in Native THEN 0 ELSE source]
           o == [is |-> "run", expected |-> expected, timed |-> timed,
                 trace |-> IF left THEN trace ELSE Absent]
       IN /\ tool = "chaos" => left
          /\ tool = "bench" => ~timed
          /\ tool = "formal" /\ timed => ~expected     \* the exit code is then 124
          /\ ~left => ~good
          /\ world' = [world EXCEPT ![at] = o]
          /\ disk' = [disk EXCEPT ![Trace(at)] = o.trace,
                                  ![Complete] = IF tool = "cache" THEN Provenance("unfinished", known.records) ELSE @]
          /\ step' = CASE tool = "matrix" -> IF AsPlanned(o) THEN "judge" ELSE "stopped"
                       [] tool = "cache"  -> "judge"
                       [] OTHER           -> "record"
  /\ Still /\ UNCHANGED <<at, known>>

RecordChaos ==
  /\ tool = "chaos" /\ step = "record"
  /\ IF disk[Trace(at)] = Absent THEN Stop
     ELSE /\ Write(Record(at), [is |-> "record", expected |-> world[at].expected,
                                timed |-> world[at].timed, trace |-> disk[Trace(at)]])
          /\ step' = "judge" /\ UNCHANGED <<at, known>>
  /\ Still /\ UNCHANGED world

\* A result that is not JSON raises; an expectation not met is only recorded.
RecordFormal ==
  /\ tool = "formal" /\ step = "record"
  /\ IF disk[Trace(at)] = Garbled THEN Stop
     ELSE LET rec == [case |-> at, expected |-> world[at].expected, timed |-> world[at].timed,
                      met |-> world[at].expected /\ Good(Trace(at)), trace |-> disk[Trace(at)]]
              list == Append(known.records, rec)
          IN /\ known' = [known EXCEPT !.records = list]
             /\ Write(Listing, [is |-> "listing", records |-> list])
             /\ Next1
  /\ Still /\ UNCHANGED world

\* The first failure is kept and ends the campaign.
RecordEach ==
  /\ tool \in {"bench", "lane"} /\ step = "record"
  /\ LET list == Append(known.records, [case |-> at, expected |-> AsPlanned(world[at])])
     IN /\ known' = [known EXCEPT !.records = list, !.failed = ~AsPlanned(world[at])]
        /\ Write(Complete, Provenance("unfinished", list))
  /\ IF AsPlanned(world[at]) THEN Next1 ELSE step' = "finish" /\ UNCHANGED at
  /\ Still /\ UNCHANGED world

\* An OSError or an interrupt.
Interrupt ==
  /\ tool \in {"bench", "cache"} /\ step \in {"run", "record", "judge"}
  /\ known' = [known EXCEPT !.failed = TRUE] /\ step' = "finish"
  /\ Still /\ UNCHANGED <<at, disk, world>>

JudgeChaos ==
  /\ tool = "chaos" /\ step = "judge"
  /\ IF ~AsPlanned(world[at]) \/ ~Good(Trace(at)) THEN Stop
     ELSE /\ Write(Verified(at), [is |-> "verified"]) /\ Next1 /\ UNCHANGED known
  /\ Still /\ UNCHANGED world

\* Only the records the directory holds are verified and counted.
JudgeMatrix ==
  /\ tool = "matrix" /\ step = "judge"
  /\ CASE disk[Trace(at)] = Absent -> Next1 /\ UNCHANGED <<disk, known>>
       [] Good(Trace(at)) ->
            /\ Write(Verified(at), [is |-> "verified"]) /\ Next1
            /\ known' = [known EXCEPT !.records = Append(@, [case |-> at])]
       [] OTHER -> Stop
  /\ Still /\ UNCHANGED world

\* verify_path, then the records by the names this condition gives them.
JudgeCache ==
  /\ tool = "cache" /\ step = "judge"
  /\ IF AsPlanned(world[at]) /\ Fits(at)
       THEN /\ Write(Verified(at), [is |-> "verified"]) /\ Next1
            /\ known' = [known EXCEPT !.records = Append(@, [case |-> at, expected |-> TRUE])]
       ELSE /\ known' = [known EXCEPT !.failed = TRUE] /\ step' = "finish"
            /\ UNCHANGED <<at, disk>>
  /\ Still /\ UNCHANGED world

Over == step = "run" /\ at > CaseCount

FinishChaos ==
  /\ tool = "chaos" /\ Over
  /\ IF source # known.source \/ disk[Plan] = Absent THEN Stop
     ELSE /\ Write(Complete, [is |-> "complete", plan |-> disk[Plan]])
          /\ step' = "done" /\ UNCHANGED <<at, known>>
  /\ Still /\ UNCHANGED world

FinishMatrix ==
  /\ tool = "matrix" /\ Over
  /\ IF disk[Plan] = Absent THEN Stop
     ELSE /\ Write(Complete, [is |-> "complete", plan |-> disk[Plan], count |-> Len(known.records)])
          /\ step' = "replay" /\ UNCHANGED <<at, known>>
  /\ Still /\ UNCHANGED world

FinishFormal ==
  /\ tool = "formal" /\ Over
  /\ LET unchanged == source = known.source
         met == \A i \in DOMAIN known.records : known.records[i].met
     IN /\ Write(Complete, [is |-> "summary", pass |-> unchanged /\ met, unchanged |-> unchanged,
                            count |-> Len(known.records)])
        /\ known' = [known EXCEPT !.failed = ~(unchanged /\ met)]
  /\ step' = "manifest" /\ Still /\ UNCHANGED <<at, world>>

FinishEach ==
  /\ tool \in {"bench", "cache", "lane"} /\ (Over \/ step = "finish")
  /\ Write(Complete, Provenance(IF known.failed THEN "failed" ELSE "completed", known.records))
  /\ step' = (IF tool = "lane" THEN "done" ELSE "manifest") /\ Still /\ UNCHANGED <<at, known, world>>

WriteManifest ==
  /\ step = "manifest"
  /\ Write(Manifest, [is |-> "manifest", of |-> [f \in Present \ {Manifest} |-> disk[f]]])
  /\ step' = (IF tool = "matrix" THEN "check" ELSE "done")
  /\ Still /\ UNCHANGED <<at, known, world>>

(***************************************************************************)
(* The verifiers, with the source tree and the build given to them.        *)
(***************************************************************************)
\* verify_campaign
AcceptsChaos ==
  /\ disk[Plan].is = "plan" /\ disk[Complete].is = "complete"
  /\ disk[Complete].plan = disk[Plan]
  /\ \A c \in Cases :
       /\ disk[Record(c)].is = "record"
       /\ disk[Record(c)].expected /\ ~disk[Record(c)].timed
       /\ disk[Record(c)].trace = disk[Trace(c)]
       /\ Fits(c)
  /\ disk[Plan].source = source

\* verify_manifest, and verify of run_formal's directory: nothing more, nothing less.
Inventory == disk[Manifest].is = "manifest"
             /\ disk[Manifest].of = [f \in Present \ {Manifest} |-> disk[f]]

\* verify; a manifest is checked when there is one.
AcceptsMatrix ==
  /\ disk[Manifest] # Absent => Inventory
  /\ disk[Plan].is = "plan" /\ disk[Complete].is = "complete"
  /\ disk[Complete].plan = disk[Plan] /\ disk[Complete].count = CaseCount
  /\ \A c \in Cases : Fits(c) /\ disk[Trace(c)].source = source

AcceptsFormal ==
  /\ Inventory
  /\ disk[Plan].is = "plan" /\ disk[Listing].is = "listing" /\ disk[Complete].is = "summary"
  /\ disk[Plan].source = source
  /\ disk[Complete].pass /\ disk[Complete].unchanged /\ disk[Complete].count = CaseCount
  /\ Len(disk[Listing].records) = CaseCount
  /\ \A c \in Cases : LET rec == disk[Listing].records[c]
                      IN /\ rec.case = c /\ rec.expected /\ ~rec.timed /\ rec.met
                         /\ Fits(c) /\ disk[Trace(c)] = rec.trace

\* Neither file has to be there, and a file the manifest does not list may be.
AcceptsBench ==
  /\ disk[Complete] # Absent =>
       /\ disk[Complete].is = "provenance" /\ disk[Complete].status = "completed"
       /\ \A i \in DOMAIN disk[Complete].runs : disk[Complete].runs[i].expected
  /\ disk[Manifest] # Absent =>
       /\ disk[Manifest].is = "manifest"
       /\ \A f \in DOMAIN disk[Manifest].of : disk[f] = disk[Manifest].of[f]
  /\ \E c \in Cases : disk[Trace(c)] # Absent
  /\ \A c \in Cases : disk[Trace(c)] # Absent => Good(Trace(c))

Accepts == CASE tool = "chaos"  -> AcceptsChaos
             [] tool = "matrix" -> AcceptsMatrix
             [] tool = "formal" -> AcceptsFormal
             [] tool = "bench"  -> AcceptsBench
             [] OTHER           -> disk[Complete].is = "provenance" /\ disk[Complete].status = "completed"

\* run_matrix verifies its own directory before and after it writes the manifest.
ReplayMatrix ==
  /\ step = "replay"
  /\ IF AcceptsMatrix THEN /\ Write(Replay, [is |-> "replay"]) /\ step' = "manifest"
                           /\ UNCHANGED <<at, known>>
                      ELSE Stop
  /\ Still /\ UNCHANGED world

CheckMatrix ==
  /\ step = "check" /\ step' = (IF AcceptsMatrix THEN "done" ELSE "stopped")
  /\ Still /\ UNCHANGED <<at, known, disk, world>>

Driver ==
  \/ Begin \/ Run \/ RecordChaos \/ RecordFormal \/ RecordEach \/ Interrupt
  \/ JudgeChaos \/ JudgeMatrix \/ JudgeCache
  \/ FinishChaos \/ FinishMatrix \/ FinishFormal \/ FinishEach
  \/ WriteManifest \/ ReplayMatrix \/ CheckMatrix

(***************************************************************************)
(* What may go wrong around it.                                            *)
(***************************************************************************)
Fault == faults < MaxFaults /\ faults' = faults + 1

Kill ==
  /\ Fault /\ step \notin {"start", "done", "stopped", "dead"} /\ step' = "dead"
  /\ UNCHANGED <<tool, at, known, disk, world, source, workload>>

Edit == Fault /\ step # "start" /\ source' = 1 - source
        /\ UNCHANGED <<tool, step, at, known, disk, world, workload>>

Harm ==
  /\ Fault
  /\ \E f \in Present :
       \/ Write(f, Absent)
       \/ Write(f, Garbled)
       \/ \E c, d \in Cases : f = Trace(c) /\ disk[Trace(d)].is = "trace" /\ Write(f, disk[Trace(d)])
  /\ UNCHANGED <<tool, step, at, known, world, source, workload>>

Next == Driver \/ Kill \/ Edit \/ Harm

Spec == Init /\ [][Next]_vars
-----------------------------------------------------------------------------
RanWell(c) == world[c] # Absent /\ AsPlanned(world[c])
Intact(c)  == disk[Trace(c)] = world[c].trace /\ world[c].trace.good
\* c's trace was left by c, or by a case the verifier takes for c.
Genuine(c) == \E d \in Cases : /\ world[d] # Absent /\ world[d].trace # Absent
                               /\ Alike(c, d) /\ world[d].trace.good
                               /\ disk[Trace(c)] = world[d].trace
\* The directory that was verified is not looked at again.
WasGenuine(c) == \E d \in Cases : /\ world[d] # Absent /\ world[d].trace # Absent
                                  /\ Alike(c, d) /\ world[d].trace.good

\* What a verifier accepts was really run: every case ended as planned, in time;
\* its trace is good, is what a case of the same workload left, and no one
\* changed it; and the sources are those of the plan (verify_campaign, verify).
\* That the trace is the case's own follows where the verifier compares enough
\* to tell the cases apart: in formal, and for the cases of chaos and matrix with
\* a workload of their own.  It does not for two storms that differ in nothing but
\* their populations: one's trace, put in the place of the other's before it is
\* hashed, is accepted.  verify_results reads no plan, so that it cannot miss
\* a result lost before the manifest was written: with the completion file there,
\* every condition ended well.  The status of a cache campaign or of a lane says
\* as much.  And what a driver leaves that nothing disturbed and that reports
\* success is accepted.
EvidenceSound ==
  /\ Accepts =>
       CASE tool \in {"chaos", "matrix", "formal"} ->
              /\ \A c \in Cases : RanWell(c) /\ Genuine(c)
              /\ tool # "matrix" => source = known.source
         [] tool = "bench" -> disk[Complete] # Absent => \A c \in Cases : RanWell(c)
         [] tool = "cache" -> \A c \in Cases : RanWell(c) /\ WasGenuine(c)
         [] tool = "lane"  -> \A c \in Cases : RanWell(c)
  /\ step = "done" /\ ~known.failed /\ faults = 0 /\ tool # "bench" => Accepts
=============================================================================
