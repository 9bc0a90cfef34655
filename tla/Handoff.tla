------------------------------- MODULE Handoff -------------------------------
(***************************************************************************)
(* formal/handoff.py: the release/acquire checker of the formal campaign.  *)
(* It lays the accesses of a producer and a consumer out as straight-line  *)
(* code, tries every assignment of writes to the reads that synchronize    *)
(* them, and looks for data races and wrong values in the consistent ones. *)
(* Here the initial states choose the skeleton and each step decides one   *)
(* more read, so that every candidate is a state.                          *)
(***************************************************************************)
EXTENDS Integers, Sequences, SequencesExt, FiniteSets, TLC

CONSTANTS Capacities, MessageCounts, \* of the SPSC skeletons
          StoreOrders                \* orders a publishing store may have

Release == {"release", "acq_rel", "seq_cst"}
Acquire == {"acquire", "acq_rel", "seq_cst"}

VARIABLES skeleton,   \* which straight-line code, with which memory orders
          rf          \* decided so far: read -> write

vars == <<skeleton, rf>>

Event(thread, loc, kind, order, value) ==
  [thread |-> thread, loc |-> loc, kind |-> kind, order |-> order, value |-> value]
InitThread == -1
Producer == 0
Consumer == 1
Words == <<"epoch", "x", "y">>

\* spsc(): message k uses slot k % n; value is k + 1, and for a read of a
\* cursor the least value that covers message k.
InitSlots(n) ==
  <<Event(InitThread, "P", "W", "relaxed", 0), Event(InitThread, "C", "W", "relaxed", 0)>>
  \o FlattenSeq([b \in 1 .. n |-> [i \in 1 .. 3 |->
       Event(InitThread, <<Words[i], b - 1>>, "W", "plain", 0)]])

WordEvents(thread, kind, n, k) ==
  [i \in 1 .. 3 |-> Event(thread, <<Words[i], k % n>>, kind, "plain", k + 1)]

Spsc(n, m, publication, reclamation) ==
  InitSlots(n)
  \o FlattenSeq([j \in 1 .. m |->
       (IF j > n THEN <<Event(Producer, "C", "R", "acquire", j - n)>> ELSE <<>>)
       \o WordEvents(Producer, "W", n, j - 1)
       \o <<Event(Producer, "P", "W", publication, j)>>])
  \o FlattenSeq([j \in 1 .. m |->
       <<Event(Consumer, "P", "R", "acquire", j)>>
       \o WordEvents(Consumer, "R", n, j - 1)
       \o <<Event(Consumer, "C", "W", reclamation, j)>>])

\* ncq(): the first ready publication and its first claimant, who reads the
\* epoch of the descriptor before it validates the status.
Ncq(store, load) ==
  <<Event(InitThread, "entry", "W", "relaxed", 0), Event(InitThread, "status", "W", "relaxed", 0),
    Event(InitThread, "epoch", "W", "plain", 0), Event(InitThread, "payload", "W", "plain", 0),
    Event(Producer, "epoch", "W", "plain", 1), Event(Producer, "payload", "W", "plain", 7),
    Event(Producer, "status", "W", "release", 6), Event(Producer, "entry", "W", store, 2),
    Event(Consumer, "entry", "R", load, 2), Event(Consumer, "epoch", "R", "plain", 1),
    Event(Consumer, "status", "R", "acquire", 6), Event(Consumer, "payload", "R", "plain", 7)>>

Events == IF skeleton.name = "ncq"
            THEN Ncq(skeleton.store, skeleton.load)
            ELSE Spsc(skeleton.n, skeleton.m, skeleton.store, skeleton.load)

(***************************************************************************)
(* analyze() over the events ev and the reads-from map f.                  *)
(***************************************************************************)
\* Reachability, as Warshall's algorithm computes it.
Closure(count, pairs) ==
  LET Through(reach, k) ==
        reach \cup ({p[1] : p \in {q \in reach : q[2] = k}}
                   \X {p[2] : p \in {q \in reach : q[1] = k}})
  IN FoldLeft(Through, pairs, [k \in 1 .. count |-> k])

SequencedBefore(ev) ==
  {p \in (1 .. Len(ev)) \X (1 .. Len(ev)) :
     \/ p[1] < p[2] /\ ev[p[1]].thread = ev[p[2]].thread /\ ev[p[1]].thread # InitThread
     \/ ev[p[1]].thread = InitThread /\ ev[p[2]].thread # InitThread}

ReadsFrom(f) == {<<f[r], r>> : r \in DOMAIN f}
\* Mutant: any load of a released value synchronizes.
SynchronizesWith_AnyLoad(ev, f) == {p \in ReadsFrom(f) : ev[p[1]].order \in Release}
SynchronizesWith(ev, f) ==
  {p \in ReadsFrom(f) : ev[p[1]].order \in Release /\ ev[p[2]].order \in Acquire}

HappensBefore(ev, f) ==
  Closure(Len(ev), SequencedBefore(ev) \cup SynchronizesWith(ev, f))

Acyclic(ev, f) ==
  LET causal == Closure(Len(ev), SequencedBefore(ev) \cup ReadsFrom(f))
  IN \A i \in 1 .. Len(ev) : <<i, i>> \notin causal

\* Coherence; the one writer of a location orders its writes by position.
Coherent(ev, f, hb) == \A r \in DOMAIN f :
  /\ \A v \in 1 .. Len(ev) :
       ev[v].loc = ev[r].loc /\ ev[v].order # "plain" /\ ev[v].kind = "W" =>
         /\ ~(<<v, r>> \in hb /\ v > f[r])
         /\ ~(<<r, v>> \in hb /\ v <= f[r])
  /\ \A s \in DOMAIN f :
       ~(ev[s].loc = ev[r].loc /\ <<r, s>> \in hb /\ f[r] > f[s])

Plain(ev) == {i \in 1 .. Len(ev) : ev[i].order = "plain"}

Races(ev, hb) == {p \in Plain(ev) \X Plain(ev) :
  LET a == ev[p[1]]  b == ev[p[2]] IN
  /\ p[1] < p[2] /\ a.loc = b.loc /\ a.thread # b.thread
  /\ ~(a.kind = "R" /\ b.kind = "R")
  /\ <<p[1], p[2]>> \notin hb /\ <<p[2], p[1]>> \notin hb}

WrongValues(ev, hb) == {r \in Plain(ev) : ev[r].kind = "R" /\
  LET ws == {w \in Plain(ev) : ev[w].kind = "W" /\ ev[w].loc = ev[r].loc /\ <<w, r>> \in hb}
      latest == {w \in ws : \A v \in ws \ {w} : <<w, v>> \notin hb}
  IN Cardinality(latest) # 1 \/ \E w \in latest : ev[w].value # ev[r].value}

Consistent(ev, f, hb) == Acyclic(ev, f) /\ Coherent(ev, f, hb)

\* Wrong values are looked for only where there is no race.
Violating(ev, hb) == Races(ev, hb) # {} \/ WrongValues(ev, hb) # {}

(***************************************************************************)
(* The enumeration: product() of the domains of the synchronizing reads.   *)
(***************************************************************************)
SyncReads(ev) == {r \in 1 .. Len(ev) : ev[r].kind = "R" /\ ev[r].order # "plain"}
Domain(ev, r) == {w \in 1 .. Len(ev) : /\ ev[w].kind = "W" /\ ev[w].loc = ev[r].loc
                                       /\ ev[w].thread # ev[r].thread
                                       /\ ev[w].value >= ev[r].value}

Init ==
  /\ skeleton \in
       [name : {"spsc"}, n : Capacities, m : MessageCounts, store : StoreOrders, load : StoreOrders]
       \cup [name : {"ncq"}, store : {"seq_cst", "relaxed"}, load : {"seq_cst", "relaxed"}]
  /\ rf = <<>>

Undecided == SyncReads(Events) \ DOMAIN rf

Assign == \E r \in Undecided :
  /\ \A s \in Undecided : r <= s
  /\ \E w \in Domain(Events, r) : rf' = rf @@ (r :> w)
  /\ UNCHANGED skeleton

Next == Assign
Spec == Init /\ [][Next]_vars

(***************************************************************************)
(* The verdict is exact: among the candidates the checker calls consistent *)
(* every one is free of races and wrong values when both sides synchronize *)
(* where they must, and every one has some when a side does not.           *)
(***************************************************************************)
Synchronized ==
  IF skeleton.name = "ncq" THEN skeleton.store \in Release /\ skeleton.load \in Acquire
  ELSE /\ skeleton.store \in Release
       /\ skeleton.m > skeleton.n => skeleton.load \in Release

\* The lock-step run, where each read takes the first write that covers it.
LockStep(ev) == \A r \in DOMAIN rf : \A w \in Domain(ev, r) : rf[r] <= w

HandoffExact == Undecided = {} =>
  LET ev == Events
      hb == HappensBefore(ev, rf)
      consistent == Consistent(ev, rf, hb)
  IN /\ consistent => (Violating(ev, hb) <=> ~Synchronized)
     /\ LockStep(ev) => consistent
=============================================================================
