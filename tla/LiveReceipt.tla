----------------------------- MODULE LiveReceipt -----------------------------
(***************************************************************************)
(* tools/verify_live_demo.py, verify: the replay of the receipt a live     *)
(* round-trip demonstration leaves, a head, one record per window and a    *)
(* final record.  The receipt is the input: any record may come next, and  *)
(* the replay takes it or stops there.                                     *)
(*                                                                         *)
(* Identities, modes and sizes of the head, the rate of a window and the   *)
(* conversion of ticks to nanoseconds are left out.                        *)
(***************************************************************************)
EXTENDS Integers, Sequences, FiniteSets, SequencesExt

CONSTANTS MaxWindows, MaxBatch, MaxTick,
          AllowCancelled    \* the command line's --allow-cancelled

VARIABLES
  plan,       \* planned windows and messages per window
  completed, total, previousEnd,
  window,     \* the record being read: its size, start and end, or Between
  data,       \* its samples read so far
  status,     \* of the final record
  log         \* the windows taken: samples and reported percentiles

vars == <<plan, completed, total, previousEnd, window, data, status, log>>

Ticks   == 0 .. MaxTick
Between == [roundtrips |-> 0, begin |-> 0, end |-> 0]

Init ==
  /\ plan \in [windows : 1 .. MaxWindows, batch : 1 .. MaxBatch]
  /\ completed = 0 /\ total = 0 /\ previousEnd = 0
  /\ window = Between /\ data = <<>> /\ status = "open" /\ log = <<>>

\* The value at a rank of the sorted deltas, counted from 0.
AtRank(deltas, rank) ==
  CHOOSE d \in {deltas[i] : i \in DOMAIN deltas} :
    /\ Cardinality({i \in DOMAIN deltas : deltas[i] < d}) <= rank
    /\ Cardinality({i \in DOMAIN deltas : deltas[i] <= d}) > rank

Percentile(deltas, percent) == AtRank(deltas, (percent * Len(deltas) + 99) \div 100 - 1)

\* A window that was not full is the last one.
Partial == total # completed * plan.batch

Window(roundtrips, begin, end) ==
  /\ status = "open" /\ window = Between
  /\ ~Partial /\ completed < plan.windows /\ roundtrips \in 1 .. plan.batch
  /\ end > begin /\ begin >= previousEnd
  /\ window' = [roundtrips |-> roundtrips, begin |-> begin, end |-> end]
  /\ UNCHANGED <<plan, completed, total, previousEnd, data, status, log>>

\* A sample starts no earlier than the one before it was over.
Over(sample) == sample.start + sample.delta
Cursor == IF data = <<>> THEN window.begin ELSE Over(Last(data))

Sample(start, delta) ==
  /\ window # Between /\ Len(data) < window.roundtrips
  /\ start \in Cursor .. window.end /\ start + delta <= window.end
  /\ data' = Append(data, [start |-> start, delta |-> delta])
  /\ UNCHANGED <<plan, completed, total, previousEnd, window, status, log>>

Deltas(samples) == [i \in DOMAIN samples |-> samples[i].delta]

EndWindow(p50, p99) ==
  /\ window # Between /\ Len(data) = window.roundtrips /\ Cursor = window.end
  /\ p50 = Percentile(Deltas(data), 50) /\ p99 = Percentile(Deltas(data), 99)
  /\ completed' = completed + 1 /\ total' = total + window.roundtrips
  /\ previousEnd' = window.end /\ window' = Between /\ data' = <<>>
  /\ log' = Append(log, [samples |-> data, p50 |-> p50, p99 |-> p99])
  /\ UNCHANGED <<plan, status>>

\* Every total the final record states is that of the windows.
Final(verdict, windows, roundtrips, checked, directional) ==
  /\ status = "open" /\ window = Between
  /\ IF verdict = "COMPLETE" THEN completed = plan.windows /\ total = plan.windows * plan.batch
                             ELSE AllowCancelled
  /\ windows = completed /\ roundtrips = total /\ checked = total /\ directional = 2 * total
  /\ status' = verdict
  /\ UNCHANGED <<plan, completed, total, previousEnd, window, data, log>>

Counts == 0 .. MaxWindows * MaxBatch
Next ==
  \/ \E roundtrips \in 1 .. MaxBatch, begin, end \in Ticks : Window(roundtrips, begin, end)
  \/ \E start, delta \in Ticks : Sample(start, delta)
  \/ \E p50, p99 \in Ticks : EndWindow(p50, p99)
  \/ \E verdict \in {"COMPLETE", "CANCELLED_CLEAN"}, windows, roundtrips, checked \in Counts,
        directional \in 0 .. 2 * MaxWindows * MaxBatch :
       Final(verdict, windows, roundtrips, checked, directional)

Spec == Init /\ [][Next]_vars
-----------------------------------------------------------------------------
Share(deltas, S) == 100 * Cardinality({i \in DOMAIN deltas : deltas[i] \in S})

\* v is reached by percent of the samples, and by no smaller delta.
IsPercentile(v, deltas, percent) ==
  /\ Share(deltas, 0 .. v) >= percent * Len(deltas)
  /\ Share(deltas, 0 .. v - 1) < percent * Len(deltas)

\* Of the windows a replay accepts no two round trips overlap, within a window
\* or across two, each reported percentile is the least delta that so many
\* samples reach, and only the last window may be short; a complete receipt has
\* them all, full (verify).
ReceiptExact ==
  /\ \A v, w \in DOMAIN log : \A i \in DOMAIN log[v].samples, j \in DOMAIN log[w].samples :
       v < w \/ (v = w /\ i < j) => Over(log[v].samples[i]) <= log[w].samples[j].start
  /\ \A w \in DOMAIN log :
       /\ IsPercentile(log[w].p50, Deltas(log[w].samples), 50)
       /\ IsPercentile(log[w].p99, Deltas(log[w].samples), 99)
       /\ w < Len(log) => Len(log[w].samples) = plan.batch
  /\ status = "COMPLETE" => /\ Len(log) = plan.windows
                            /\ \A w \in DOMAIN log : Len(log[w].samples) = plan.batch
=============================================================================
