-------------------------- MODULE MatrixTrialProofs --------------------------
(***************************************************************************)
(* A trial of the matrix, for every number of producers and consumers,     *)
(* every number of messages that the producers share equally, every        *)
(* capacity of the ring, in open and closed loops: as long as no worker    *)
(* dies and the deadline is not met, the trial passes.                     *)
(***************************************************************************)
EXTENDS MatrixTrial, FiniteSetTheorems, SequenceTheorems, TLAPS

(***************************************************************************)
(* The inductive invariant.  It speaks of a healthy trial only: a death or *)
(* the deadline is never taken back.                                       *)
(***************************************************************************)
Healthy == deaths = 0 /\ ~expired

Producers == {i \in Workers : IsProducer(i)}
WarmLoops == {"spawn", "ready", "warm", "warmProducers", "warmConsumers"}
RunLoops  == {"start", "doneProducers", "doneConsumers", "end", "final", "reap"}
LastSteps == {"reconcile", "finally", "collect", "passed"}
WarmTime  == parent.pc \in WarmLoops

\* What each producer sends in a phase.
WarmShare == Quota(TRUE)
RunShare  == Quota(FALSE)
Share     == IF WarmTime THEN WarmShare ELSE RunShare

\* The commands that worker j was told and the records that run() has read from it,
\* by the loop run() is in and how far it has come there.
Past(j) == IF j < parent.i THEN 1 ELSE 0
Told(j) == IF In("spawn") THEN Past(j)
           ELSE IF In("ready") THEN 1
           ELSE IF In("warm") THEN 1 + Past(j)
           ELSE IF parent.pc \in {"warmProducers", "warmConsumers"} THEN 2
           ELSE IF In("start") THEN 2 + Past(j)
           ELSE IF parent.pc \in {"doneProducers", "doneConsumers"} THEN 3
           ELSE IF In("end") THEN 3 + Past(j)
           ELSE 4
Heard(j) == IF In("spawn") THEN 0
            ELSE IF In("ready") THEN Past(j)
            ELSE IF In("warm") THEN 1
            ELSE IF parent.pc \in {"warmProducers", "warmConsumers"} THEN 1 + Past(j)
            ELSE IF In("start") THEN 2
            ELSE IF parent.pc \in {"doneProducers", "doneConsumers"} THEN 2 + Past(j)
            ELSE IF In("end") THEN 3
            ELSE IF In("final") THEN 3 + Past(j)
            ELSE IF In("reap") THEN (IF j <= parent.i THEN 4 ELSE 3)
            ELSE 4

\* The records a worker has written, and the commands it has read.
Wrote(j) == IF worker[j].pc \in {"unborn", "request"} THEN 0
            ELSE IF worker[j].pc \in {"go", "warm"} THEN 1
            ELSE IF worker[j].pc \in {"ready", "run"} THEN 2
            ELSE IF worker[j].pc = "end" THEN 3
            ELSE 4
Read(j)  == IF InPhase(j) THEN Wrote(j) + 1 ELSE Wrote(j)

CommandNames == {"request", "1", "t0", "0"}
EventNames   == {"READY", "WARM", "DONE", "FINAL"}
Command(k) == IF k = 1 THEN "request" ELSE IF k = 2 THEN "1" ELSE IF k = 3 THEN "t0" ELSE "0"
Event(k)   == IF k = 1 THEN "READY" ELSE IF k = 2 THEN "WARM" ELSE IF k = 3 THEN "DONE" ELSE "FINAL"

\* The parent and a worker take turns.
Pipes(j) ==
  /\ At(j, "unborn") => In("spawn") /\ j >= parent.i
  /\ Heard(j) <= Wrote(j) /\ Read(j) <= Told(j) /\ Told(j) <= Heard(j) + 1
  /\ Read(j) < Told(j) => inbox[j] = <<Command(Told(j))>>
  /\ ~(Read(j) < Told(j)) => inbox[j] = <<>>
  /\ Heard(j) < Wrote(j) => Len(outbox[j]) = 1 /\ Head(outbox[j]).event = Event(Wrote(j))
  /\ ~(Heard(j) < Wrote(j)) => outbox[j] = <<>>

\* What a worker holds and has counted at each step.
Fresh(j) == worker[j].pc \in {"unborn", "request", "go", "ready"}
Lease(j) == worker[j].lease
Rests(j) ==
  /\ ~InPhase(j) => Lease(j) = None
  /\ Fresh(j) => worker[j].got = 0 /\ worker[j].bits = {} /\ worker[j].look = "no"
Draft(j) == [id |-> j * Share + worker[j].got, warm |-> WarmTime]
Sends(j) == IsProducer(j) =>
  /\ InPhase(j) => worker[j].got <= Share
  /\ Lease(j) # None => /\ worker[j].got < Share
                        /\ Lease(j) = Draft(j)
  /\ ~Fresh(j) /\ ~InPhase(j) => worker[j].got = RunShare
  /\ Heard(j) = 1 /\ Wrote(j) = 2 => Head(outbox[j]).count = WarmShare
Looks(j) == ~IsProducer(j) =>
  /\ Lease(j) # None => Lease(j).id \in worker[j].bits
  /\ InPhase(j) /\ worker[j].look = "last" => word[j] = FinalWord(WarmTime)
Works(j) == Rests(j) /\ Sends(j) /\ Looks(j)

\* The control words say that all producers have finished the phase.
Words == \A j \in Consumers :
  word[j] = IF parent.pc \in {"spawn", "ready", "warm", "warmProducers"} THEN 0
            ELSE IF parent.pc \in {"warmConsumers", "start", "doneProducers"} THEN 1
            ELSE 2

\* What producer i has sent in this phase, and the messages that makes.
Made(i)  == IF WarmTime /\ Wrote(i) >= 2 THEN WarmShare ELSE worker[i].got
IdsMade  == {n \in Nat : \E i \in Producers, g \in Nat :
                           g < Made(i) /\ n = i * Share + g}

\* A message is made once and received at most once, and when the phase that counts is
\* over all have been received.
Queue == ring.queue
Queued ==
  /\ \A k \in 1 .. Len(Queue) : Queue[k].warm = WarmTime /\ Queue[k].id \in IdsMade
  /\ \A k, l \in 1 .. Len(Queue) : k # l => Queue[k].id # Queue[l].id
  /\ \A j \in Consumers : \A k \in 1 .. Len(Queue) : Queue[k].id \notin worker[j].bits
Received ==
  /\ \A j \in Consumers : worker[j].bits \subseteq IdsMade
  /\ \A i, j \in Consumers : i # j => worker[i].bits \cap worker[j].bits = {}
  /\ ~WarmTime => \A n \in IdsMade : \/ \E j \in Consumers : n \in worker[j].bits
                                     \/ \E k \in 1 .. Len(Queue) : Queue[k].id = n

\* A consumer leaves a phase only when nothing is left for anybody.
PhaseRecord == IF WarmTime THEN 2 ELSE 3
Drained ==
  \A j \in Consumers : Wrote(j) >= PhaseRecord =>
    Queue = <<>> /\ \A i \in Producers : Wrote(i) >= PhaseRecord

\* A slot is free, or holds a message in the queue or under a lease.
Leasing == {j \in Workers : Lease(j) # None}
Room == /\ IsFiniteSet(Leasing)
        /\ ring.free + Len(Queue) + Cardinality(Leasing) = Capacity

\* Counting: as many pairs as the sum of f over S.
Region(S, f) == {x \in S \X Nat : x[2] < f[x[1]]}
Holding(j)   == IF Lease(j) = None THEN 0 ELSE 1
Got(j)       == IF Warm(j) THEN worker[j].got + Holding(j)
                ELSE IF Heard(j) = 1 /\ Wrote(j) = 2 THEN Head(outbox[j]).count
                ELSE 0
MadeRegion   == Region(Producers, [i \in Producers |-> Made(i)])
GotRegion    == Region(Consumers, [j \in Consumers |-> Got(j)])
Count ==
  /\ WarmTime =>
       /\ IsFiniteSet(MadeRegion) /\ IsFiniteSet(GotRegion)
       /\ Cardinality(MadeRegion) = Cardinality(GotRegion) + Len(Queue) + warmTotal
  /\ ~WarmTime => warmTotal = cfg.warmup

Codes == \A j \in Workers :
  (parent.pc \in {"final", "reap"} /\ j < parent.i) \/ parent.pc \in LastSteps => exitcode[j] = 0

WorkerType == [pc : {"unborn", "request", "go", "warm", "ready", "run", "end", "final", "exited"},
               got : Nat, lease : [id : Int, warm : BOOLEAN], look : {"no", "look", "last"},
               bits : SUBSET Nat]
Types ==
  /\ parent \in [pc : WarmLoops \cup RunLoops \cup LastSteps, i : Workers]
  /\ parent.pc \in {"warmProducers", "doneProducers"} => parent.i < cfg.producers
  /\ parent.pc \in {"warmConsumers", "doneConsumers"} => parent.i >= cfg.producers
  /\ broken = {} /\ warmTotal \in Nat
  /\ worker \in [Workers -> WorkerType]
  /\ inbox \in [Workers -> Seq(CommandNames)]
  /\ outbox \in [Workers -> Seq([event : EventNames, count : Nat])]
  /\ word \in [Workers -> Nat]
  /\ DOMAIN exitcode = Workers
  /\ ring \in [queue : Seq([id : Nat, warm : BOOLEAN]), free : Nat]

Sane == /\ Types /\ Words /\ Queued /\ Received /\ Drained /\ Room /\ Count /\ Codes
        /\ \A j \in Workers : Pipes(j) /\ Works(j)
IInv == cfg \in Configs /\ deaths \in Nat /\ (Healthy => Sane)
-----------------------------------------------------------------------------
(***************************************************************************)
(* Numbers: the share of a producer, the numbering of messages, and sums   *)
(* as the sizes of regions.                                                *)
(***************************************************************************)

\* A configuration has workers, and the producers' shares make the totals.
LEMMA ConfigFacts ==
  ASSUME cfg \in Configs
  PROVE  /\ cfg.producers \in Nat \ {0} /\ cfg.consumers \in Nat \ {0}
         /\ cfg.messages \in Nat /\ cfg.warmup \in Nat
         /\ N \in Nat /\ N = cfg.producers + cfg.consumers
         /\ WarmShare \in Nat /\ WarmShare * cfg.producers = cfg.warmup
         /\ RunShare \in Nat /\ RunShare * cfg.producers = cfg.messages
<1>1. /\ cfg.producers \in Nat \ {0} /\ cfg.consumers \in Nat \ {0}
      /\ cfg.messages \in Nat /\ (cfg.messages \div cfg.producers) * cfg.producers = cfg.messages
      /\ cfg.warmup \in Nat /\ (cfg.warmup \div cfg.producers) * cfg.producers = cfg.warmup
  BY MatrixAssumption
<1>2. ASSUME NEW m \in Nat, NEW p \in Nat \ {0}
      PROVE  m \div p \in Nat
  BY <1>2
<1>3. QED
  BY <1>1, <1>2 DEF N, WarmShare, RunShare, Quota, Total

\* The workers are those two kinds.
LEMMA WorkerFacts ==
  ASSUME cfg \in Configs
  PROVE  /\ Workers = 0 .. cfg.producers + cfg.consumers - 1
         /\ Producers = 0 .. cfg.producers - 1
         /\ Consumers = cfg.producers .. cfg.producers + cfg.consumers - 1
         /\ \A j \in Workers : j \in Nat /\ (j \in Producers <=> IsProducer(j))
                               /\ (j \in Consumers <=> ~IsProducer(j))
         /\ Producers \subseteq Workers /\ Consumers \subseteq Workers
<1>1. /\ cfg.producers \in Nat \ {0} /\ cfg.consumers \in Nat \ {0}
      /\ N = cfg.producers + cfg.consumers
  BY ConfigFacts
<1>2. Workers = 0 .. cfg.producers + cfg.consumers - 1
  BY <1>1 DEF Workers
<1>3. \A j \in Workers : j \in Nat /\ (j \in Producers <=> IsProducer(j))
                               /\ (j \in Consumers <=> ~IsProducer(j))
  BY <1>1, <1>2 DEF Producers, Consumers
<1>4. Producers = 0 .. cfg.producers - 1
  BY <1>1, <1>2 DEF Producers, IsProducer
<1>5. Consumers = cfg.producers .. cfg.producers + cfg.consumers - 1
  BY <1>1, <1>2 DEF Consumers, IsProducer
<1>6. QED
  BY <1>2, <1>3, <1>4, <1>5 DEF Producers, Consumers

\* The number of a message determines its producer and its place there.
LEMMA UniqueId ==
  ASSUME NEW q \in Nat, NEW i \in Nat, NEW k \in Nat, NEW g \in Nat, NEW h \in Nat,
         g < q, h < q, i * q + g = k * q + h
  PROVE  i = k /\ g = h
<1>1. ASSUME NEW a \in Nat, NEW b \in Nat, NEW x \in Nat, NEW y \in Nat,
             x < q, y < q, a * q + x = b * q + y, a < b
      PROVE  FALSE
  <2>1. PICK d \in Nat : b = a + 1 + d
    <3>1. b - a - 1 \in Nat /\ b = a + 1 + (b - a - 1)
      BY <1>1
    <3>2. QED
      BY <3>1
  <2>2. b * q = a * q + q + d * q
    BY <2>1
  <2>3. d * q \in Nat /\ a * q \in Nat /\ b * q \in Nat
    OBVIOUS
  <2>4. QED
    BY <1>1, <2>2, <2>3
<1>2. i = k
  BY <1>1
<1>3. i * q \in Nat
  OBVIOUS
<1>4. QED
  BY <1>2, <1>3

\* Which producer and place that is.
LEMMA Division ==
  ASSUME NEW q \in Nat, NEW i \in Nat, NEW g \in Nat, g < q
  PROVE  ((i * q) + g) \div q = i
<1> DEFINE n == (i * q) + g
<1>1. n \in Nat /\ q > 0
  OBVIOUS
<1>2. /\ n \div q \in Nat /\ n % q \in 0 .. q - 1
      /\ n = q * (n \div q) + (n % q)
  <2> HIDE DEF n
  <2>1. QED
    BY <1>1
<1>3. (n \div q) * q + (n % q) = i * q + g
  <2>1. q * (n \div q) = (n \div q) * q
    <3> HIDE DEF n
    <3>1. QED
      BY <1>2
  <2>2. QED
    BY <1>2, <2>1
<1> HIDE DEF n
<1>4. n \div q = i
  BY <1>1, <1>2, <1>3, UniqueId
<1>5. QED
  BY <1>4 DEF n

\* Every number below p times q is a place of a producer.
LEMMA Places ==
  ASSUME NEW q \in Nat, NEW p \in Nat
  PROVE  {n \in Nat : \E i \in 0 .. p - 1, g \in Nat : g < q /\ n = i * q + g} = 0 .. q * p - 1
<1>1. ASSUME NEW i \in 0 .. p - 1, NEW g \in Nat, g < q
      PROVE  i * q + g \in 0 .. q * p - 1
  <2>1. PICK d \in Nat : p = i + 1 + d
    <3>1. p - i - 1 \in Nat /\ p = i + 1 + (p - i - 1)
      BY <1>1
    <3>2. QED
      BY <3>1
  <2>2. q * p = i * q + q + d * q
    BY <2>1
  <2>3. d * q \in Nat /\ i * q \in Nat
    BY <2>1
  <2>4. QED
    BY <1>1, <2>2, <2>3
<1>2. ASSUME NEW n \in 0 .. q * p - 1
      PROVE  n \in Nat /\ \E i \in 0 .. p - 1, g \in Nat : g < q /\ n = i * q + g
  <2>1. q * p \in Nat /\ n \in Nat
    BY <1>2
  <2>2. q > 0
    BY <1>2, <2>1
  <2>3. /\ n \div q \in Nat /\ n % q \in 0 .. q - 1
        /\ n = q * (n \div q) + (n % q)
    BY <2>1, <2>2
  <2>4. ASSUME n \div q >= p
        PROVE  FALSE
    <3>1. PICK d \in Nat : n \div q = p + d
      <4>1. n \div q - p \in Nat /\ n \div q = p + (n \div q - p)
        BY <2>3, <2>4
      <4>2. QED
        BY <4>1
    <3>2. q * (n \div q) = q * p + q * d
      BY <3>1
    <3>3. q * d \in Nat
      BY <3>1
    <3>4. QED
      BY <1>2, <2>1, <2>3, <3>2, <3>3
  <2>5. n = (n \div q) * q + (n % q)
    BY <2>3
  <2>6. n \div q \in 0 .. p - 1
    BY <2>3, <2>4
  <2> DEFINE a == n \div q
             b == n % q
  <2>7. a \in 0 .. p - 1 /\ b \in Nat /\ b < q /\ n = a * q + b
    BY <2>3, <2>5, <2>6
  <2> HIDE DEF a, b
  <2>8. QED
    BY <2>1, <2>7
<1>3. QED
  BY <1>1, <1>2

\* A region is a set of pairs; a value that grows by one adds a pair.
LEMMA RegionUp ==
  ASSUME NEW S, NEW f \in [S -> Nat], NEW g \in [S -> Nat], NEW j \in S,
         g[j] = f[j] + 1, \A a \in S \ {j} : g[a] = f[a], IsFiniteSet(Region(S, f))
  PROVE  IsFiniteSet(Region(S, g)) /\ Cardinality(Region(S, g)) = Cardinality(Region(S, f)) + 1
<1>1. <<j, f[j]>> \notin Region(S, f)
  BY DEF Region
<1>2. ASSUME NEW a \in S, NEW b \in Nat
      PROVE  b < g[a] <=> (b < f[a] \/ (a = j /\ b = f[j]))
  <2>1. CASE a = j
    BY <2>1
  <2>2. CASE a # j
    BY <2>2
  <2>3. QED
    BY <2>1, <2>2
<1>3. Region(S, g) = Region(S, f) \cup {<<j, f[j]>>}
  <2>1. ASSUME NEW x \in Region(S, g)
        PROVE  x \in Region(S, f) \cup {<<j, f[j]>>}
    <3>1. PICK a \in S, b \in Nat : x = <<a, b>> /\ b < g[a]
      BY <2>1 DEF Region
    <3>2. QED
      BY <3>1, <1>2 DEF Region
  <2>2. ASSUME NEW x \in Region(S, f) \cup {<<j, f[j]>>}
        PROVE  x \in Region(S, g)
    <3>1. PICK a \in S, b \in Nat : x = <<a, b>> /\ (b < f[a] \/ (a = j /\ b = f[j]))
      BY <2>2 DEF Region
    <3>2. QED
      BY <3>1, <1>2 DEF Region
  <2>3. QED
    BY <2>1, <2>2
<1> DEFINE R == Region(S, f)
           x == <<j, f[j]>>
<1>4. IsFiniteSet(R) /\ x \notin R /\ Region(S, g) = R \cup {x}
  BY <1>1, <1>3
<1> HIDE DEF R, x
<1>5. IsFiniteSet(R \cup {x}) /\ Cardinality(R \cup {x}) = Cardinality(R) + 1
  BY <1>4, FS_AddElement
<1>6. QED
  BY <1>4, <1>5 DEF R

\* A column of it has as many pairs as the value.
LEMMA Column ==
  ASSUME NEW j, NEW c \in Nat
  PROVE  IsFiniteSet({j} \X (0 .. c - 1)) /\ Cardinality({j} \X (0 .. c - 1)) = c
<1>1. IsFiniteSet({j}) /\ Cardinality({j}) = 1
  BY FS_Singleton
<1>2. IsFiniteSet(0 .. c - 1) /\ Cardinality(0 .. c - 1) = c
  BY FS_Interval
<1>3. QED
  BY <1>1, <1>2, FS_Product

\* A value that is taken out takes its column.
LEMMA RegionOut ==
  ASSUME NEW S, NEW f \in [S -> Nat], NEW g \in [S -> Nat], NEW j \in S,
         g[j] = 0, \A a \in S \ {j} : g[a] = f[a], IsFiniteSet(Region(S, f))
  PROVE  /\ IsFiniteSet(Region(S, g))
         /\ Cardinality(Region(S, f)) = Cardinality(Region(S, g)) + f[j]
<1> DEFINE C == {j} \X (0 .. f[j] - 1)
<1>1. f[j] \in Nat
  OBVIOUS
<1>2. IsFiniteSet(C) /\ Cardinality(C) = f[j]
  BY <1>1, Column
<1>3. C \cap Region(S, f) = C
  BY <1>1 DEF Region
<1>4. ASSUME NEW a \in S, NEW b \in Nat
      PROVE  b < g[a] <=> b < f[a] /\ a # j
  <2>1. CASE a = j
    BY <2>1
  <2>2. CASE a # j
    BY <2>2
  <2>3. QED
    BY <2>1, <2>2
<1>5. Region(S, g) = Region(S, f) \ C
  <2>1. ASSUME NEW x \in Region(S, g)
        PROVE  x \in Region(S, f) \ C
    <3>1. PICK a \in S, b \in Nat : x = <<a, b>> /\ b < g[a]
      BY <2>1 DEF Region
    <3>2. QED
      BY <3>1, <1>4 DEF Region
  <2>2. ASSUME NEW x \in Region(S, f) \ C
        PROVE  x \in Region(S, g)
    <3>1. PICK a \in S, b \in Nat : x = <<a, b>> /\ b < f[a] /\ x \notin C
      BY <2>2 DEF Region
    <3>2. QED
      BY <3>1, <1>4 DEF Region
  <2>3. QED
    BY <2>1, <2>2
<1> DEFINE R == Region(S, f)
           c == f[j]
<1>6. IsFiniteSet(R) /\ R \cap C = C /\ Region(S, g) = R \ C /\ Cardinality(C) = c /\ c \in Nat
  BY <1>1, <1>2, <1>3, <1>5
<1> HIDE DEF R, C, c
<1>7. IsFiniteSet(R \ C) /\ Cardinality(R \ C) = Cardinality(R) - Cardinality(R \cap C)
  BY <1>6, FS_Difference
<1>8. Cardinality(R) \in Nat
  BY <1>6, FS_CardinalityType
<1>9. Cardinality(R) = Cardinality(R \ C) + c
  <2>1. Cardinality(R \cap C) = c
    BY Zenon, <1>6
  <2>2. Cardinality(R \ C) = Cardinality(R) - c
    BY Zenon, <2>1, <1>7
  <2> DEFINE m == Cardinality(R)
             n == Cardinality(R \ C)
  <2>3. m \in Nat /\ c \in Nat /\ n = m - c
    BY <2>2, <1>6, <1>8
  <2> HIDE DEF m, n
  <2>4. m = n + c
    BY <2>3
  <2>5. QED
    BY <2>4 DEF m, n
<1>10. QED
  BY <1>6, <1>7, <1>9 DEF R, c

\* Where all values are 0 there is nothing.
LEMMA RegionEmpty ==
  ASSUME NEW S, NEW f \in [S -> Nat], \A a \in S : f[a] = 0
  PROVE  Region(S, f) = {} /\ IsFiniteSet(Region(S, f)) /\ Cardinality(Region(S, f)) = 0
BY FS_EmptySet DEF Region

\* Where all but one are 0 there is that one.
LEMMA RegionOnly ==
  ASSUME NEW S, NEW f \in [S -> Nat], NEW j \in S, \A a \in S \ {j} : f[a] = 0,
         IsFiniteSet(Region(S, f))
  PROVE  Cardinality(Region(S, f)) = f[j]
<1> DEFINE g == [f EXCEPT ![j] = 0]
<1>1. g \in [S -> Nat] /\ \A a \in S : g[a] = 0
  OBVIOUS
<1>2. Cardinality(Region(S, f)) = Cardinality(Region(S, g)) + f[j]
  <2>1. g[j] = 0 /\ \A a \in S \ {j} : g[a] = f[a]
    OBVIOUS
  <2> HIDE DEF g
  <2>2. QED
    BY <1>1, <2>1, RegionOut
<1>3. Cardinality(Region(S, g)) = 0 /\ f[j] \in Nat
  BY <1>1, RegionEmpty
<1>4. QED
  BY <1>2, <1>3

\* Where all are q, the size is a product.
LEMMA RegionFull ==
  ASSUME NEW p \in Nat, NEW q \in Nat, NEW f \in [0 .. p - 1 -> Nat], \A a \in 0 .. p - 1 : f[a] = q
  PROVE  Cardinality(Region(0 .. p - 1, f)) = q * p
<1>1. IsFiniteSet(0 .. p - 1) /\ Cardinality(0 .. p - 1) = p
  BY FS_Interval
<1>2. IsFiniteSet(0 .. q - 1) /\ Cardinality(0 .. q - 1) = q
  BY FS_Interval
<1>3. Region(0 .. p - 1, f) = (0 .. p - 1) \X (0 .. q - 1)
  BY DEF Region
<1>4. Cardinality((0 .. p - 1) \X (0 .. q - 1)) = p * q
  <2> DEFINE A == 0 .. p - 1
             B == 0 .. q - 1
  <2>1. IsFiniteSet(A) /\ Cardinality(A) = p /\ IsFiniteSet(B) /\ Cardinality(B) = q
    BY <1>1, <1>2
  <2> HIDE DEF A, B
  <2>2. Cardinality(A \X B) = p * q
    BY <2>1, FS_Product
  <2>3. QED
    BY <2>2 DEF A, B
<1>5. p * q = q * p
  OBVIOUS
<1>6. QED
  BY <1>3, <1>4, <1>5
-----------------------------------------------------------------------------
(***************************************************************************)
(* What a step of worker j leaves alone: run(), the other workers, and the *)
(* control words of the consumers.                                         *)
(***************************************************************************)
Steady == /\ cfg' = cfg /\ parent' = parent /\ exitcode' = exitcode /\ broken' = broken
          /\ expired' = expired /\ warmTotal' = warmTotal
Local(j) ==
  /\ Steady
  /\ \A k \in Workers \ {j} :
       worker'[k] = worker[k] /\ inbox'[k] = inbox[k] /\ outbox'[k] = outbox[k]
  /\ \A k \in Consumers : word'[k] = word[k]

\* The configuration of a trial does not change.
LEMMA SameConfig ==
  ASSUME cfg' = cfg
  PROVE  /\ N' = N /\ Workers' = Workers /\ Producers' = Producers /\ Consumers' = Consumers
         /\ WarmShare' = WarmShare /\ RunShare' = RunShare
         /\ \A j \in Workers : IsProducer(j)' <=> IsProducer(j)
BY DEF N, Workers, Producers, Consumers, IsProducer, WarmShare, RunShare, Quota, Total

\* Where run() is says what it has told and heard.
LEMMA SameStage ==
  ASSUME cfg' = cfg, parent' = parent
  PROVE  /\ WarmTime' <=> WarmTime
         /\ Share' = Share /\ PhaseRecord' = PhaseRecord
         /\ \A j \in Workers : Told(j)' = Told(j) /\ Heard(j)' = Heard(j) /\ Past(j)' = Past(j)
<1>1. WarmTime' <=> WarmTime
  BY DEF WarmTime
<1>2. Share' = Share /\ PhaseRecord' = PhaseRecord
  BY <1>1, SameConfig DEF Share, PhaseRecord
<1>3. ASSUME NEW j \in Workers
      PROVE  Told(j)' = Told(j) /\ Heard(j)' = Heard(j) /\ Past(j)' = Past(j)
  BY DEF Told, Heard, Past, In
<1>4. QED
  BY <1>1, <1>2, <1>3

\* A worker that does not step keeps what the invariant says of it, and its share in
\* the data.
LEMMA OtherWorker ==
  ASSUME cfg \in Configs, Sane, NEW j \in Workers, Local(j), NEW k \in Workers \ {j}
  PROVE  /\ Pipes(k)' /\ Works(k)'
         /\ worker'[k] = worker[k] /\ Wrote(k)' = Wrote(k)
         /\ Made(k)' = Made(k) /\ Got(k)' = Got(k) /\ Lease(k)' = Lease(k)
<1>1. /\ worker'[k] = worker[k] /\ inbox'[k] = inbox[k] /\ outbox'[k] = outbox[k]
      /\ cfg' = cfg /\ parent' = parent
  BY DEF Local, Steady
<1>2. /\ IsProducer(k)' <=> IsProducer(k)
      /\ WarmShare' = WarmShare /\ RunShare' = RunShare
      /\ WarmTime' <=> WarmTime
      /\ Share' = Share
      /\ Told(k)' = Told(k) /\ Heard(k)' = Heard(k)
  BY <1>1, SameConfig, SameStage
<1>3. /\ Wrote(k)' = Wrote(k) /\ Lease(k)' = Lease(k)
      /\ InPhase(k)' <=> InPhase(k)
      /\ Warm(k)' <=> Warm(k)
      /\ Fresh(k)' <=> Fresh(k)
  BY <1>1 DEF Wrote, Lease, InPhase, Warm, At, Fresh
<1>4. Read(k)' = Read(k)
  BY <1>3 DEF Read
<1>5. Pipes(k) /\ Works(k)
  BY DEF Sane
<1>6. Pipes(k)'
  <2>1. /\ At(k, "unborn")' <=> At(k, "unborn")
        /\ In("spawn")' <=> In("spawn")
        /\ parent'.i = parent.i
    BY <1>1 DEF At, In
  <2>2. QED
    BY <1>1, <1>2, <1>3, <1>4, <1>5, <2>1 DEF Pipes
<1>7. ~IsProducer(k) => word'[k] = word[k]
  BY WorkerFacts DEF Local
<1>8. Works(k)'
  <2>1. Rests(k)'
    BY <1>1, <1>3, <1>5 DEF Works, Rests
  <2>2. Sends(k)'
    <3>1. Draft(k)' = Draft(k)
      BY <1>1, <1>2 DEF Draft, WarmTime
    <3>2. QED
      BY <1>1, <1>2, <1>3, <1>5, <3>1 DEF Works, Sends
  <2>3. Looks(k)'
    BY <1>1, <1>2, <1>3, <1>5, <1>7 DEF Works, Looks, FinalWord
  <2>4. QED
    BY <2>1, <2>2, <2>3 DEF Works
<1>9. Made(k)' = Made(k) /\ Got(k)' = Got(k)
  BY <1>1, <1>2, <1>3 DEF Made, Got, Holding
<1>10. QED
  BY <1>1, <1>3, <1>6, <1>8, <1>9

\* So of a worker's step it remains to see its own part and the ring.
LEMMA WorkerStep ==
  ASSUME cfg \in Configs, Sane, NEW j \in Workers, Local(j),
         Types', Pipes(j)', Works(j)', Queued', Received', Drained', Room', Count'
  PROVE  Sane'
<1>1. cfg' = cfg /\ parent' = parent /\ exitcode' = exitcode
  BY DEF Local, Steady
<1>2. \A k \in Workers' : Pipes(k)' /\ Works(k)'
  BY <1>1, OtherWorker, SameConfig
<1>3. Words'
  <2>1. Consumers' = Consumers /\ \A k \in Consumers : word'[k] = word[k]
    BY <1>1, SameConfig DEF Local
  <2>2. Words
    BY DEF Sane
  <2>3. QED
    BY <1>1, <2>1, <2>2 DEF Words
<1>4. Codes'
  <2>1. Workers' = Workers /\ Codes
    BY <1>1, SameConfig DEF Sane
  <2>2. QED
    BY <1>1, <2>1 DEF Codes
<1>5. QED
  BY <1>2, <1>3, <1>4 DEF Sane

\* Types of what a worker has.
LEMMA WorkerTypes ==
  ASSUME cfg \in Configs, Sane, NEW j \in Workers
  PROVE  /\ worker[j] \in WorkerType /\ worker[j].got \in Nat /\ worker[j].bits \subseteq Nat
         /\ inbox[j] \in Seq(CommandNames)
         /\ outbox[j] \in Seq([event : EventNames, count : Nat])
         /\ outbox[j] # <<>> => Head(outbox[j]) \in [event : EventNames, count : Nat]
         /\ Wrote(j) \in 0 .. 4 /\ Made(j) \in Nat /\ Got(j) \in Nat /\ Holding(j) \in {0, 1}
         /\ j \in Nat /\ parent.i \in Nat /\ Told(j) \in 0 .. 4 /\ Heard(j) \in 0 .. 4
<1>1. /\ worker[j] \in WorkerType
      /\ inbox[j] \in Seq(CommandNames)
      /\ outbox[j] \in Seq([event : EventNames, count : Nat])
      /\ parent.i \in Workers
  BY DEF Sane, Types
<1>2. worker[j].got \in Nat /\ worker[j].bits \subseteq Nat
  BY <1>1 DEF WorkerType
<1>3. outbox[j] # <<>> => Head(outbox[j]) \in [event : EventNames, count : Nat]
  <2> DEFINE R == [event : EventNames, count : Nat]
  <2>1. outbox[j] \in Seq(R)
    BY <1>1
  <2> HIDE DEF R
  <2>2. outbox[j] # <<>> => Head(outbox[j]) \in R
    BY <2>1
  <2>3. QED
    BY <2>2 DEF R
<1>4. Wrote(j) \in 0 .. 4 /\ Holding(j) \in {0, 1}
  BY DEF Wrote, Holding
<1>5. Made(j) \in Nat
  BY <1>2, ConfigFacts DEF Made
<1>6. Heard(j) = 1 /\ Wrote(j) = 2 => Head(outbox[j]).count \in Nat
  <2>1. Pipes(j)
    BY DEF Sane
  <2>2. Heard(j) = 1 /\ Wrote(j) = 2 => outbox[j] # <<>>
    BY <2>1 DEF Pipes
  <2>3. QED
    BY <1>3, <2>2
<1>7. Got(j) \in Nat
  BY <1>2, <1>4, <1>6 DEF Got
<1>8. j \in Nat /\ parent.i \in Nat
  BY <1>1, WorkerFacts
<1>9. Told(j) \in 0 .. 4 /\ Heard(j) \in 0 .. 4
  BY <1>8 DEF Told, Heard, Past
<1>10. QED
  BY <1>1, <1>2, <1>3, <1>4, <1>5, <1>7, <1>8, <1>9

\* Counts as functions, which the regions are about.
LEMMA RegionTypes ==
  ASSUME cfg \in Configs, Sane
  PROVE  /\ [i \in Producers |-> Made(i)] \in [Producers -> Nat]
         /\ [i \in Consumers |-> Got(i)] \in [Consumers -> Nat]
<1>1. Producers \subseteq Workers /\ Consumers \subseteq Workers
  BY WorkerFacts
<1>2. QED
  BY <1>1, WorkerTypes

\* As long as what the producers have made is the same, so are the numbers.
LEMMA SameMade ==
  ASSUME cfg' = cfg, parent' = parent, \A i \in Producers : Made(i)' = Made(i)
  PROVE  IdsMade' = IdsMade /\ MadeRegion' = MadeRegion
<1>1. Producers' = Producers /\ Share' = Share
  BY SameConfig, SameStage
<1>2. IdsMade' = IdsMade
  BY <1>1 DEF IdsMade
<1>3. [i \in Producers |-> Made(i)]' = [i \in Producers |-> Made(i)]
  BY <1>1
<1>4. QED
  BY <1>1, <1>2, <1>3 DEF MadeRegion, Region

LEMMA SameGot ==
  ASSUME cfg' = cfg, \A i \in Consumers : Got(i)' = Got(i)
  PROVE  GotRegion' = GotRegion
<1>1. Consumers' = Consumers
  BY SameConfig
<1>2. [i \in Consumers |-> Got(i)]' = [i \in Consumers |-> Got(i)]
  BY <1>1
<1>3. QED
  BY <1>1, <1>2 DEF GotRegion, Region

\* A step that moves no message leaves the data as they were, although a consumer may
\* clear its bitmap after the warm-up.
LEMMA SameData ==
  ASSUME cfg \in Configs, Sane, NEW j \in Workers, Local(j), Queue' = Queue,
         worker'[j].bits \subseteq worker[j].bits,
         ~WarmTime => worker'[j].bits = worker[j].bits,
         IsProducer(j) => Made(j)' = Made(j), ~IsProducer(j) => Got(j)' = Got(j)
  PROVE  Queued' /\ Received' /\ Count'
<1>1. /\ cfg' = cfg /\ parent' = parent /\ warmTotal' = warmTotal
      /\ WarmTime' <=> WarmTime
      /\ Workers' = Workers /\ Consumers' = Consumers
  BY SameConfig, SameStage DEF Local, Steady
<1>2. /\ \A i \in Producers : Made(i)' = Made(i)
      /\ \A i \in Consumers : Got(i)' = Got(i)
      /\ \A i \in Workers : worker'[i].bits \subseteq worker[i].bits
      /\ \A i \in Workers : ~WarmTime => worker'[i].bits = worker[i].bits
  BY OtherWorker, WorkerFacts
<1>3. IdsMade' = IdsMade /\ MadeRegion' = MadeRegion /\ GotRegion' = GotRegion
  BY <1>1, <1>2, SameMade, SameGot
<1>4. Consumers \subseteq Workers
  BY WorkerFacts
<1>5. Queued'
  <2>1. Queued
    BY DEF Sane
  <2>2. QED
    BY <1>1, <1>2, <1>3, <1>4, <2>1 DEF Queued
<1>6. Received'
  <2>1. Received
    BY DEF Sane
  <2>2. QED
    BY <1>1, <1>2, <1>3, <1>4, <2>1 DEF Received
<1>7. Count'
  <2>1. Count
    BY DEF Sane
  <2>2. QED
    BY <1>1, <1>3, <2>1 DEF Count
<1>8. QED
  BY <1>5, <1>6, <1>7

\* If it moves no lease either, the slots are where they were.
LEMMA QuietData ==
  ASSUME cfg \in Configs, Sane, NEW j \in Workers, Local(j), ring' = ring,
         Lease(j)' = Lease(j), worker'[j].bits \subseteq worker[j].bits,
         ~WarmTime => worker'[j].bits = worker[j].bits,
         IsProducer(j) => Made(j)' = Made(j), ~IsProducer(j) => Got(j)' = Got(j)
  PROVE  Queued' /\ Received' /\ Room' /\ Count'
<1>1. Queue' = Queue
  BY DEF Queue
<1>2. Queued' /\ Received' /\ Count'
  BY <1>1, SameData
<1>3. Room'
  <2>1. Workers' = Workers
    BY SameConfig DEF Local, Steady
  <2>2. \A i \in Workers : Lease(i)' = Lease(i)
    BY OtherWorker
  <2>3. Leasing' = Leasing
    BY <2>1, <2>2 DEF Leasing
  <2>4. Room
    BY DEF Sane
  <2>5. QED
    BY <1>1, <2>3, <2>4 DEF Room
<1>4. QED
  BY <1>2, <1>3

\* A slot goes from the free ones or the queue to a lease of j, or back.
LEMMA RoomLeased ==
  ASSUME cfg \in Configs, Sane, NEW j \in Workers, Local(j), Types', Lease(j) = None, Lease(j)' # None,
         ring'.free + Len(Queue') = ring.free + Len(Queue) - 1
  PROVE  Room'
<1>1. Workers' = Workers
  BY SameConfig DEF Local, Steady
<1>2. \A i \in Workers \ {j} : Lease(i)' = Lease(i)
  BY OtherWorker
<1>3. Leasing' = Leasing \cup {j} /\ j \notin Leasing
  BY <1>1, <1>2 DEF Leasing
<1>4. IsFiniteSet(Leasing) /\ ring.free + Len(Queue) + Cardinality(Leasing) = Capacity
  BY DEF Sane, Room
<1>5. /\ IsFiniteSet(Leasing \cup {j}) /\ Cardinality(Leasing \cup {j}) = Cardinality(Leasing) + 1
      /\ Cardinality(Leasing) \in Nat
  BY <1>3, <1>4, FS_AddElement, FS_CardinalityType
<1>6. ring.free \in Nat /\ Len(Queue) \in Nat /\ ring'.free \in Nat /\ Len(Queue') \in Nat
  <2> DEFINE M == [id : Nat, warm : BOOLEAN]
  <2>1. ring \in [queue : Seq(M), free : Nat] /\ ring' \in [queue : Seq(M), free : Nat]
    BY DEF Sane, Types
  <2> HIDE DEF M
  <2>2. ring.free \in Nat /\ ring.queue \in Seq(M) /\ ring'.free \in Nat /\ ring'.queue \in Seq(M)
    BY <2>1
  <2>3. QED
    BY <2>2 DEF Queue
<1>7. ring'.free + Len(Queue') + Cardinality(Leasing') = Capacity
  <2> DEFINE c == Cardinality(Leasing)
             l == Len(Queue)
             f == ring.free
             x == ring'.free + Len(Queue')
  <2>1. c \in Nat /\ l \in Nat /\ f \in Nat /\ x = f + l - 1 /\ f + l + c = Capacity
    BY <1>4, <1>5, <1>6
  <2>2. Cardinality(Leasing') = c + 1
    BY <1>3, <1>5
  <2> HIDE DEF c, l, f, x
  <2>3. x + (c + 1) = Capacity
    BY <2>1
  <2>4. QED
    BY <2>2, <2>3 DEF x
<1>8. QED
  BY <1>3, <1>5, <1>7 DEF Room

LEMMA RoomReturned ==
  ASSUME cfg \in Configs, Sane, NEW j \in Workers, Local(j), Types', Lease(j) # None, Lease(j)' = None,
         ring'.free + Len(Queue') = ring.free + Len(Queue) + 1
  PROVE  Room'
<1>1. Workers' = Workers
  BY SameConfig DEF Local, Steady
<1>2. \A i \in Workers \ {j} : Lease(i)' = Lease(i)
  BY OtherWorker
<1>3. Leasing' = Leasing \ {j} /\ j \in Leasing
  BY <1>1, <1>2 DEF Leasing
<1>4. IsFiniteSet(Leasing) /\ ring.free + Len(Queue) + Cardinality(Leasing) = Capacity
  BY DEF Sane, Room
<1>5. /\ IsFiniteSet(Leasing \ {j}) /\ Cardinality(Leasing \ {j}) = Cardinality(Leasing) - 1
      /\ Cardinality(Leasing) \in Nat
  BY <1>3, <1>4, FS_RemoveElement, FS_CardinalityType
<1>6. ring.free \in Nat /\ Len(Queue) \in Nat /\ ring'.free \in Nat /\ Len(Queue') \in Nat
  <2> DEFINE M == [id : Nat, warm : BOOLEAN]
  <2>1. ring \in [queue : Seq(M), free : Nat] /\ ring' \in [queue : Seq(M), free : Nat]
    BY DEF Sane, Types
  <2> HIDE DEF M
  <2>2. ring.free \in Nat /\ ring.queue \in Seq(M) /\ ring'.free \in Nat /\ ring'.queue \in Seq(M)
    BY <2>1
  <2>3. QED
    BY <2>2 DEF Queue
<1>7. ring'.free + Len(Queue') + Cardinality(Leasing') = Capacity
  <2> DEFINE c == Cardinality(Leasing)
             l == Len(Queue)
             f == ring.free
             x == ring'.free + Len(Queue')
  <2>1. c \in Nat /\ l \in Nat /\ f \in Nat /\ x = f + l + 1 /\ f + l + c = Capacity
    BY <1>4, <1>5, <1>6
  <2>2. Cardinality(Leasing') = c - 1
    BY <1>3, <1>5
  <2> HIDE DEF c, l, f, x
  <2>3. x + (c - 1) = Capacity
    BY <2>1
  <2>4. QED
    BY <2>2, <2>3 DEF x
<1>8. QED
  BY <1>3, <1>5, <1>7 DEF Room

\* A worker that finishes no phase drains nothing.
LEMMA DrainedKept ==
  ASSUME cfg \in Configs, Sane, NEW j \in Workers, Local(j),
         Queue = <<>> => Queue' = <<>> \/ (IsProducer(j) /\ Wrote(j) < PhaseRecord),
         Wrote(j) <= Wrote(j)', Wrote(j)' \in Nat,
         ~IsProducer(j) /\ Wrote(j)' >= PhaseRecord =>
           \/ Wrote(j) >= PhaseRecord
           \/ Queue = <<>> /\ \A i \in Producers : Wrote(i) >= PhaseRecord
  PROVE  Drained'
<1>1. /\ PhaseRecord' = PhaseRecord /\ Producers' = Producers /\ Consumers' = Consumers
      /\ PhaseRecord \in Nat
  BY SameConfig, SameStage DEF Local, Steady, PhaseRecord
<1>2. \A i \in Workers \ {j} : Wrote(i)' = Wrote(i)
  BY OtherWorker
<1>3. \A i \in Workers : Wrote(i) \in Nat /\ Wrote(i)' \in Nat
  <2>1. \A i \in Workers : Wrote(i) \in Nat
    BY WorkerTypes
  <2>2. QED
    BY <1>2, <2>1
<1>4. ASSUME NEW k \in Consumers, Wrote(k)' >= PhaseRecord
      PROVE  Queue' = <<>> /\ \A i \in Producers : Wrote(i)' >= PhaseRecord
  <2>1. Queue = <<>> /\ \A i \in Producers : Wrote(i) >= PhaseRecord
    <3>1. k \in Workers /\ ~IsProducer(k)
      BY WorkerFacts
    <3>2. Drained
      BY DEF Sane
    <3>3. CASE k = j
      BY <1>4, <3>1, <3>2, <3>3 DEF Drained
    <3>4. CASE k # j
      BY <1>2, <1>4, <3>1, <3>2, <3>4 DEF Drained
    <3>5. QED
      BY <3>3, <3>4
  <2>2. \A i \in Producers : Wrote(i)' >= PhaseRecord
    BY <1>1, <1>2, <1>3, <2>1, WorkerFacts
  <2>3. Queue' = <<>>
    BY <1>1, <1>3, <2>1, WorkerFacts
  <2>4. QED
    BY <2>2, <2>3
<1>5. QED
  BY <1>1, <1>4 DEF Drained
-----------------------------------------------------------------------------
(***************************************************************************)
(* The steps of a worker that move no message.                             *)
(***************************************************************************)

\* A worker that waits for a command finds the next one, and has nothing unread.
LEMMA Takes ==
  ASSUME cfg \in Configs, Sane, NEW j \in Workers, NEW line, Reads(j, line)
  PROVE  /\ Told(j) = Wrote(j) + 1 /\ Heard(j) = Wrote(j) /\ ~InPhase(j) /\ outbox[j] = <<>>
         /\ inbox' = [inbox EXCEPT ![j] = <<>>] /\ inbox'[j] = <<>>
         /\ \A k \in Workers \ {j} : inbox'[k] = inbox[k]
<1>1. Pipes(j) /\ inbox \in [Workers -> Seq(CommandNames)]
  BY DEF Sane, Types
<1>2. Wrote(j) \in Nat /\ Told(j) \in Nat /\ Heard(j) \in Nat
  BY WorkerTypes
<1>3. inbox[j] = <<Command(Told(j))>> /\ Read(j) < Told(j)
  BY <1>1 DEF Pipes, Reads
<1>4. Told(j) = Wrote(j) + 1 /\ Heard(j) = Wrote(j) /\ ~InPhase(j) /\ outbox[j] = <<>>
  BY <1>1, <1>2, <1>3 DEF Pipes, Read
<1>5. Tail(inbox[j]) = <<>>
  BY <1>3
<1>6. inbox' = [inbox EXCEPT ![j] = <<>>]
  BY <1>5 DEF Reads
<1>7. QED
  BY <1>1, <1>4, <1>6

\* A worker in a phase was told so and has nothing to read, nor has run().
LEMMA Busy ==
  ASSUME cfg \in Configs, Sane, NEW j \in Workers, InPhase(j)
  PROVE  /\ Told(j) = Wrote(j) + 1 /\ Heard(j) = Wrote(j)
         /\ inbox[j] = <<>> /\ outbox[j] = <<>>
         /\ Wrote(j) = (IF Warm(j) THEN 1 ELSE 2)
         /\ Warm(j) <=> WarmTime
         /\ PhaseRecord = Wrote(j) + 1
<1>1. Pipes(j)
  BY DEF Sane
<1>2. Wrote(j) = (IF Warm(j) THEN 1 ELSE 2) /\ Read(j) = Wrote(j) + 1
  BY DEF InPhase, Wrote, Warm, At, Read
<1>3. Told(j) \in Nat /\ Heard(j) \in Nat
  BY WorkerTypes
<1>4. /\ Told(j) = Wrote(j) + 1 /\ Heard(j) = Wrote(j)
      /\ inbox[j] = <<>> /\ outbox[j] = <<>>
  BY <1>1, <1>2, <1>3 DEF Pipes
<1>5. Warm(j) <=> WarmTime
  <2>1. parent.pc \in WarmLoops \cup RunLoops \cup LastSteps
    BY DEF Sane, Types
  <2>2. CASE WarmTime
    BY <1>2, <1>4, <2>2 DEF Told, Past, In, WarmTime, WarmLoops
  <2>3. CASE ~WarmTime
    BY <1>2, <1>4, <2>1, <2>3 DEF Heard, Past, In, WarmTime, WarmLoops, RunLoops, LastSteps
  <2>4. QED
    BY <2>2, <2>3
<1>6. QED
  BY <1>2, <1>4, <1>5 DEF PhaseRecord

\* A record that is the only one in its pipe.
LEMMA OneRecord ==
  ASSUME cfg \in Configs, Sane, NEW j \in Workers, outbox[j] = <<>>,
         NEW e \in EventNames, NEW c \in Nat, Emit(j, [event |-> e, count |-> c])
  PROVE  /\ outbox' \in [Workers -> Seq([event : EventNames, count : Nat])]
         /\ Len(outbox'[j]) = 1 /\ Head(outbox'[j]).event = e /\ Head(outbox'[j]).count = c
         /\ \A k \in Workers \ {j} : outbox'[k] = outbox[k]
<1> DEFINE R == [event : EventNames, count : Nat]
           x == [event |-> e, count |-> c]
<1>1. outbox \in [Workers -> Seq(R)] /\ x \in R
  BY DEF Sane, Types
<1>2. outbox' = [outbox EXCEPT ![j] = Append(outbox[j], x)]
  BY DEF Emit
<1>3. x.event = e /\ x.count = c
  OBVIOUS
<1> HIDE DEF R, x
<1>4. Append(outbox[j], x) \in Seq(R) /\ Len(Append(outbox[j], x)) = 1 /\ Head(Append(outbox[j], x)) = x
  BY <1>1
<1>5. outbox' \in [Workers -> Seq(R)] /\ outbox'[j] = Append(outbox[j], x)
      /\ \A k \in Workers \ {j} : outbox'[k] = outbox[k]
  BY <1>1, <1>2, <1>4
<1>6. QED
  BY <1>3, <1>4, <1>5 DEF R

\* READY answers the request.
LEMMA AttachStep ==
  ASSUME cfg \in Configs, Sane, NEW j \in Workers, Attach(j), Steady
  PROVE  Sane'
<1>1. At(j, "request") /\ Wrote(j) = 0 /\ Fresh(j) /\ ~InPhase(j)
  BY DEF Attach, At, Wrote, Fresh, InPhase
<1>2. /\ Told(j) = 1 /\ Heard(j) = 0 /\ outbox[j] = <<>>
      /\ inbox' = [inbox EXCEPT ![j] = <<>>] /\ inbox'[j] = <<>>
      /\ \A k \in Workers \ {j} : inbox'[k] = inbox[k]
  BY <1>1, Takes DEF Attach
<1>3. /\ outbox' \in [Workers -> Seq([event : EventNames, count : Nat])]
      /\ Len(outbox'[j]) = 1 /\ Head(outbox'[j]).event = "READY"
      /\ \A k \in Workers \ {j} : outbox'[k] = outbox[k]
  <2>1. Emit(j, [event |-> "READY", count |-> 0])
    BY Zenon DEF Attach
  <2>2. "READY" \in EventNames
    BY DEF EventNames
  <2>3. 0 \in Nat
    OBVIOUS
  <2>4. QED
    BY Zenon, <1>2, <2>1, <2>2, <2>3, OneRecord
<1>4. /\ worker' = [worker EXCEPT ![j].pc = "go"]
      /\ worker \in [Workers -> WorkerType] /\ word' = word /\ ring' = ring
  BY DEF Sane, Types, Attach, Becomes
<1>5. Types'
  <2>1. Workers' = Workers
    BY SameConfig DEF Steady
  <2>2. worker' \in [Workers -> WorkerType]
    BY <1>4 DEF WorkerType
  <2>3. inbox' \in [Workers -> Seq(CommandNames)]
    BY <1>2 DEF Sane, Types
  <2>4. QED
    BY <1>3, <1>4, <2>1, <2>2, <2>3 DEF Sane, Types, Steady
<1>6. /\ worker'[j] = [worker[j] EXCEPT !.pc = "go"]
      /\ \A k \in Workers \ {j} : worker'[k] = worker[k]
  BY <1>4
<1>7. Local(j)
  BY <1>2, <1>3, <1>4, <1>6 DEF Local
<1>8. /\ Told(j)' = 1 /\ Heard(j)' = 0
      /\ WarmTime' <=> WarmTime
  BY <1>2, SameStage DEF Steady
<1>9. /\ Wrote(j)' = 1 /\ Fresh(j)' /\ ~InPhase(j)' /\ ~At(j, "unborn")'
      /\ Read(j)' = 1 /\ Lease(j)' = Lease(j) /\ ~Warm(j)' /\ ~Warm(j)
  BY <1>1, <1>6, WorkerTypes DEF Wrote, Fresh, InPhase, At, Read, Lease, Warm, WorkerType
<1>10. Pipes(j)'
  BY <1>2, <1>3, <1>8, <1>9 DEF Pipes, Event
<1>11. Works(j)'
  <2>1. Works(j) /\ Lease(j) = None
    BY <1>1 DEF Sane, Works, Rests
  <2>2. Rests(j)'
    BY <1>1, <1>6, <1>9, <2>1, WorkerTypes DEF Works, Rests, WorkerType, None
  <2>3. Sends(j)' /\ Looks(j)'
    BY <1>8, <1>9, <2>1 DEF Sends, Looks, None
  <2>4. QED
    BY <2>2, <2>3 DEF Works
<1>12. Made(j)' = Made(j) /\ Got(j)' = Got(j) /\ worker'[j].bits = worker[j].bits
  BY <1>1, <1>2, <1>6, <1>8, <1>9, WorkerTypes DEF Made, Got, WorkerType
<1>13. Queued' /\ Received' /\ Room' /\ Count'
  BY <1>4, <1>7, <1>9, <1>12, QuietData
<1>14. Drained'
  BY <1>1, <1>4, <1>7, <1>9, DrainedKept DEF Queue, PhaseRecord
<1>15. QED
  BY <1>5, <1>7, <1>10, <1>11, <1>13, <1>14, WorkerStep

\* A phase starts with nothing counted.
LEMMA StartStep ==
  ASSUME cfg \in Configs, Sane, NEW j \in Workers, Start(j), Steady
  PROVE  Sane'
<1>1. PICK line, to :
        /\ Reads(j, line) /\ Becomes(j, [worker[j] EXCEPT !.pc = to])
        /\ (At(j, "go") /\ to = "warm") \/ (At(j, "ready") /\ to = "run")
  BY DEF Start
<1>2. /\ Told(j) = Wrote(j) + 1 /\ Heard(j) = Wrote(j) /\ outbox[j] = <<>>
      /\ inbox' = [inbox EXCEPT ![j] = <<>>] /\ inbox'[j] = <<>>
      /\ \A k \in Workers \ {j} : inbox'[k] = inbox[k]
  BY <1>1, Takes
<1>3. /\ Fresh(j) /\ ~InPhase(j) /\ ~Warm(j)
      /\ Wrote(j) = (IF to = "warm" THEN 1 ELSE 2)
  BY <1>1 DEF At, Wrote, Fresh, InPhase, Warm
<1>4. /\ worker' = [worker EXCEPT ![j].pc = to] /\ to \in {"warm", "run"}
      /\ worker \in [Workers -> WorkerType] /\ outbox' = outbox /\ word' = word /\ ring' = ring
  BY <1>1 DEF Sane, Types, Start, Becomes
<1>5. Types'
  <2>1. Workers' = Workers
    BY SameConfig DEF Steady
  <2>2. worker' \in [Workers -> WorkerType]
    <3> DEFINE w == [worker[j] EXCEPT !.pc = to]
    <3>1. worker[j] \in WorkerType /\ worker' = [worker EXCEPT ![j] = w]
      BY <1>4
    <3>2. w \in WorkerType
      BY <1>4, <3>1 DEF WorkerType
    <3> HIDE DEF w
    <3>3. QED
      BY <1>4, <3>1, <3>2
  <2>3. inbox' \in [Workers -> Seq(CommandNames)]
    BY <1>2 DEF Sane, Types
  <2>4. QED
    BY <1>4, <2>1, <2>2, <2>3 DEF Sane, Types, Steady
<1>6. /\ worker'[j] = [worker[j] EXCEPT !.pc = to]
      /\ \A k \in Workers \ {j} : worker'[k] = worker[k]
  BY <1>4
<1>7. Local(j)
  BY <1>2, <1>4, <1>6 DEF Local
<1>8. /\ Told(j)' = Told(j) /\ Heard(j)' = Heard(j)
      /\ WarmTime' <=> WarmTime
      /\ Share' = Share
      /\ IsProducer(j)' <=> IsProducer(j)
  BY SameStage, SameConfig DEF Steady
<1>9. /\ Wrote(j)' = Wrote(j) /\ ~Fresh(j)' /\ InPhase(j)' /\ ~At(j, "unborn")'
      /\ Read(j)' = Wrote(j) + 1 /\ Lease(j)' = Lease(j)
      /\ worker'[j].got = worker[j].got /\ worker'[j].bits = worker[j].bits
      /\ worker'[j].look = worker[j].look
      /\ Warm(j)' <=> to = "warm"
  BY <1>3, <1>4, <1>6, WorkerTypes DEF Wrote, Fresh, InPhase, At, Read, Lease, Warm, WorkerType
<1>10. Pipes(j)'
  <2>1. Wrote(j) \in Nat
    BY WorkerTypes
  <2>2. QED
    BY <1>2, <1>4, <1>8, <1>9, <2>1 DEF Pipes
<1>11. Works(j) /\ Lease(j) = None /\ worker[j].got = 0 /\ worker[j].look = "no"
  BY <1>3 DEF Sane, Works, Rests
<1>12. Works(j)'
  <2>1. Rests(j)'
    BY <1>9 DEF Rests
  <2>2. Share \in Nat
    BY ConfigFacts DEF Share
  <2>3. Sends(j)'
    BY <1>2, <1>8, <1>9, <1>11, <2>2, WorkerTypes DEF Sends
  <2>4. Looks(j)'
    BY <1>9, <1>11 DEF Looks
  <2>5. QED
    BY <2>1, <2>3, <2>4 DEF Works
<1>13. Made(j)' = Made(j)
  BY <1>8, <1>9, SameConfig DEF Made, Steady
<1>14. Got(j) = 0 /\ Got(j)' = 0
  <2>1. Holding(j)' = 0
    BY <1>9, <1>11 DEF Holding
  <2>2. Got(j) = 0
    BY <1>2, <1>3 DEF Got
  <2>3. Heard(j)' = Wrote(j)'
    BY <1>2, <1>8, <1>9
  <2>4. QED
    BY <1>9, <1>11, <2>1, <2>2, <2>3 DEF Got
<1>15. Queued' /\ Received' /\ Room' /\ Count'
  BY <1>4, <1>7, <1>9, <1>13, <1>14, QuietData
<1>16. Drained'
  <2>1. Wrote(j) <= Wrote(j)' /\ Wrote(j)' \in Nat /\ Queue' = Queue
    <3>1. Wrote(j)' = Wrote(j) /\ Wrote(j) \in 0 .. 4
      BY <1>9, WorkerTypes
    <3>2. QED
      BY <1>4, <3>1 DEF Queue
  <2>2. QED
    BY <1>7, <1>9, <2>1, DrainedKept
<1>17. QED
  BY <1>5, <1>7, <1>10, <1>12, <1>15, <1>16, WorkerStep

\* A consumer looks at the ring or at its word.
LEMMA LookStep ==
  ASSUME cfg \in Configs, Sane, NEW j \in Workers, SeesEmpty(j) \/ ReadsWord(j), Steady
  PROVE  Sane'
<1>1. PICK seen \in {"no", "look", "last"} :
        /\ worker' = [worker EXCEPT ![j].look = seen]
        /\ seen = "last" => word[j] = FinalWord(Warm(j))
  BY DEF SeesEmpty, ReadsWord, Becomes
<1>2. /\ worker \in [Workers -> WorkerType] /\ inbox' = inbox /\ outbox' = outbox
      /\ word' = word /\ ring' = ring /\ InPhase(j)
  BY DEF Sane, Types, SeesEmpty, ReadsWord
<1>3. /\ worker'[j] = [worker[j] EXCEPT !.look = seen]
      /\ \A k \in Workers \ {j} : worker'[k] = worker[k]
  BY <1>1, <1>2
<1>4. Types'
  <2>1. Workers' = Workers
    BY SameConfig DEF Steady
  <2>2. worker' \in [Workers -> WorkerType]
    BY <1>1, <1>2 DEF WorkerType
  <2>3. QED
    BY <1>2, <2>1, <2>2 DEF Sane, Types, Steady
<1>5. Local(j)
  BY <1>2, <1>3 DEF Local
<1>6. /\ Told(j)' = Told(j) /\ Heard(j)' = Heard(j) /\ Share' = Share
      /\ WarmShare' = WarmShare /\ RunShare' = RunShare
      /\ WarmTime' <=> WarmTime
      /\ IsProducer(j)' <=> IsProducer(j)
      /\ parent' = parent
  BY SameStage, SameConfig DEF Steady
<1>7. /\ Wrote(j)' = Wrote(j) /\ Lease(j)' = Lease(j)
      /\ worker'[j].got = worker[j].got /\ worker'[j].bits = worker[j].bits
      /\ worker'[j].look = seen /\ worker'[j].pc = worker[j].pc
      /\ InPhase(j)' /\ ~Fresh(j) /\ ~Fresh(j)' /\ ~At(j, "unborn")'
      /\ Warm(j)' <=> Warm(j)
  BY <1>2, <1>3, WorkerTypes DEF Wrote, Fresh, InPhase, At, Lease, Warm, WorkerType
<1>8. Pipes(j)'
  <2>1. Read(j)' = Read(j)
    BY <1>2, <1>7 DEF Read
  <2>2. Pipes(j)
    BY DEF Sane
  <2>3. QED
    BY <1>2, <1>6, <1>7, <2>1, <2>2 DEF Pipes
<1>9. Works(j)'
  <2>1. Works(j) /\ (Warm(j) <=> WarmTime)
    BY <1>2, Busy DEF Sane
  <2>2. Rests(j)'
    BY <1>7 DEF Rests
  <2>3. Sends(j)'
    <3>1. Draft(j)' = Draft(j)
      BY <1>6, <1>7 DEF Draft, WarmTime
    <3>2. QED
      BY <1>2, <1>6, <1>7, <2>1, <3>1 DEF Works, Sends
  <2>4. Looks(j)'
    <3>1. ~IsProducer(j) => (Lease(j) # None => Lease(j).id \in worker[j].bits)
      BY <2>1 DEF Works, Looks
    <3>2. ~IsProducer(j)' => (Lease(j)' # None => Lease(j)'.id \in worker'[j].bits)
      BY <1>6, <1>7, <3>1 DEF None
    <3>3. seen = "last" => word'[j] = IF WarmTime' THEN 1 ELSE 2
      BY <1>1, <1>2, <1>6, <2>1 DEF FinalWord
    <3>4. QED
      BY <1>7, <3>2, <3>3 DEF Looks, FinalWord, None
  <2>5. QED
    BY <2>2, <2>3, <2>4 DEF Works
<1>10. Made(j)' = Made(j) /\ Got(j)' = Got(j)
  BY <1>2, <1>6, <1>7 DEF Made, Got, Holding
<1>11. Queued' /\ Received' /\ Room' /\ Count'
  BY <1>2, <1>5, <1>7, <1>10, QuietData
<1>12. Drained'
  <2>1. Wrote(j) <= Wrote(j)' /\ Wrote(j)' \in Nat /\ Queue' = Queue
    <3>1. Wrote(j)' = Wrote(j) /\ Wrote(j) \in 0 .. 4
      BY <1>7, WorkerTypes
    <3>2. QED
      BY <1>2, <3>1 DEF Queue
  <2>2. QED
    BY <1>5, <1>7, <2>1, DrainedKept
<1>13. QED
  BY <1>4, <1>5, <1>8, <1>9, <1>11, <1>12, WorkerStep

\* FINAL answers the last command.
LEMMA FinishStep ==
  ASSUME cfg \in Configs, Sane, NEW j \in Workers, Finish(j), Steady
  PROVE  Sane'
<1>1. At(j, "end") /\ Wrote(j) = 3 /\ ~Fresh(j) /\ ~InPhase(j)
  BY DEF Finish, At, Wrote, Fresh, InPhase
<1>2. /\ Told(j) = 4 /\ Heard(j) = 3 /\ outbox[j] = <<>>
      /\ inbox' = [inbox EXCEPT ![j] = <<>>] /\ inbox'[j] = <<>>
      /\ \A k \in Workers \ {j} : inbox'[k] = inbox[k]
  BY <1>1, Takes DEF Finish
<1>3. /\ outbox' \in [Workers -> Seq([event : EventNames, count : Nat])]
      /\ Len(outbox'[j]) = 1 /\ Head(outbox'[j]).event = "FINAL"
      /\ \A k \in Workers \ {j} : outbox'[k] = outbox[k]
  <2>1. Emit(j, [event |-> "FINAL", count |-> worker[j].got])
    BY Zenon DEF Finish
  <2>2. "FINAL" \in EventNames /\ worker[j].got \in Nat
    BY WorkerTypes DEF EventNames
  <2>3. QED
    BY Zenon, <1>2, <2>1, <2>2, OneRecord
<1>4. /\ worker' = [worker EXCEPT ![j].pc = "final"]
      /\ worker \in [Workers -> WorkerType] /\ word' = word /\ ring' = ring
  BY DEF Sane, Types, Finish, Becomes
<1>5. Types'
  <2>1. Workers' = Workers
    BY SameConfig DEF Steady
  <2>2. worker' \in [Workers -> WorkerType]
    <3> DEFINE w == [worker[j] EXCEPT !.pc = "final"]
    <3>1. worker[j] \in WorkerType /\ worker' = [worker EXCEPT ![j] = w]
      BY <1>4
    <3>2. w \in WorkerType
      BY <3>1 DEF WorkerType
    <3> HIDE DEF w
    <3>3. QED
      BY <1>4, <3>1, <3>2
  <2>3. inbox' \in [Workers -> Seq(CommandNames)]
    BY <1>2 DEF Sane, Types
  <2>4. QED
    BY <1>3, <1>4, <2>1, <2>2, <2>3 DEF Sane, Types, Steady
<1>6. /\ worker'[j] = [worker[j] EXCEPT !.pc = "final"]
      /\ \A k \in Workers \ {j} : worker'[k] = worker[k]
  BY <1>4
<1>7. Local(j)
  BY <1>2, <1>3, <1>4, <1>6 DEF Local
<1>8. /\ Told(j)' = 4 /\ Heard(j)' = 3 /\ RunShare' = RunShare /\ WarmShare' = WarmShare
      /\ WarmTime' <=> WarmTime
      /\ IsProducer(j)' <=> IsProducer(j)
  BY <1>2, SameStage, SameConfig DEF Steady
<1>9. /\ Wrote(j)' = 4 /\ ~Fresh(j)' /\ ~InPhase(j)' /\ ~At(j, "unborn")'
      /\ Read(j)' = 4 /\ Lease(j)' = Lease(j) /\ ~Warm(j)' /\ ~Warm(j)
      /\ worker'[j].got = worker[j].got /\ worker'[j].bits = worker[j].bits
  BY <1>1, <1>6, WorkerTypes DEF Wrote, Fresh, InPhase, At, Read, Lease, Warm, WorkerType
<1>10. Pipes(j)'
  BY <1>2, <1>3, <1>8, <1>9 DEF Pipes, Event
<1>11. Works(j)'
  <2>1. Works(j) /\ Lease(j) = None
    BY <1>1 DEF Sane, Works, Rests
  <2>2. Rests(j)'
    BY <1>9, <2>1 DEF Rests, None
  <2>3. Sends(j)' /\ Looks(j)'
    BY <1>1, <1>8, <1>9, <2>1 DEF Works, Sends, Looks, None
  <2>4. QED
    BY <2>2, <2>3 DEF Works
<1>12. Made(j)' = Made(j) /\ Got(j)' = Got(j)
  BY <1>1, <1>2, <1>8, <1>9 DEF Made, Got
<1>13. Queued' /\ Received' /\ Room' /\ Count'
  BY <1>4, <1>7, <1>9, <1>12, QuietData
<1>14. Drained'
  BY <1>1, <1>4, <1>7, <1>9, DrainedKept DEF Queue, PhaseRecord
<1>15. QED
  BY <1>5, <1>7, <1>10, <1>11, <1>13, <1>14, WorkerStep

\* A worker that has reported FINAL exits.
LEMMA ExitStep ==
  ASSUME cfg \in Configs, Sane, NEW j \in Workers, Exit(j), Steady
  PROVE  Sane'
<1>1. At(j, "final") /\ Wrote(j) = 4 /\ ~Fresh(j) /\ ~InPhase(j) /\ Read(j) = 4
  BY DEF Exit, At, Wrote, Fresh, InPhase, Read
<1>2. /\ worker' = [worker EXCEPT ![j].pc = "exited"]
      /\ worker \in [Workers -> WorkerType] /\ inbox' = inbox /\ outbox' = outbox
      /\ word' = word /\ ring' = ring
  BY DEF Sane, Types, Exit, Becomes
<1>3. Types'
  <2>1. Workers' = Workers
    BY SameConfig DEF Steady
  <2>2. worker' \in [Workers -> WorkerType]
    <3> DEFINE w == [worker[j] EXCEPT !.pc = "exited"]
    <3>1. worker[j] \in WorkerType /\ worker' = [worker EXCEPT ![j] = w]
      BY <1>2
    <3>2. w \in WorkerType
      BY <3>1 DEF WorkerType
    <3> HIDE DEF w
    <3>3. QED
      BY <1>2, <3>1, <3>2
  <2>3. QED
    BY <1>2, <2>1, <2>2 DEF Sane, Types, Steady
<1>4. /\ worker'[j] = [worker[j] EXCEPT !.pc = "exited"]
      /\ \A k \in Workers \ {j} : worker'[k] = worker[k]
  BY <1>2
<1>5. Local(j)
  BY <1>2, <1>4 DEF Local
<1>6. /\ Told(j)' = Told(j) /\ Heard(j)' = Heard(j)
      /\ RunShare' = RunShare /\ WarmShare' = WarmShare
      /\ WarmTime' <=> WarmTime
      /\ IsProducer(j)' <=> IsProducer(j)
  BY SameStage, SameConfig DEF Steady
<1>7. /\ Wrote(j)' = 4 /\ ~Fresh(j)' /\ ~InPhase(j)' /\ ~At(j, "unborn")'
      /\ Read(j)' = 4 /\ Lease(j)' = Lease(j) /\ ~Warm(j)' /\ ~Warm(j)
      /\ worker'[j].got = worker[j].got /\ worker'[j].bits = worker[j].bits
  BY <1>1, <1>4, WorkerTypes DEF Wrote, Fresh, InPhase, At, Read, Lease, Warm, WorkerType
<1>8. Pipes(j)'
  <2>1. Pipes(j)
    BY DEF Sane
  <2>2. QED
    BY <1>1, <1>2, <1>6, <1>7, <2>1 DEF Pipes
<1>9. Works(j)'
  <2>1. Works(j) /\ Lease(j) = None
    BY <1>1 DEF Sane, Works, Rests
  <2>2. Rests(j)'
    BY <1>7, <2>1 DEF Rests, None
  <2>3. Sends(j)' /\ Looks(j)'
    BY <1>1, <1>2, <1>6, <1>7, <2>1 DEF Works, Sends, Looks, None
  <2>4. QED
    BY <2>2, <2>3 DEF Works
<1>10. Made(j)' = Made(j) /\ Got(j)' = Got(j)
  BY <1>1, <1>6, <1>7 DEF Made, Got
<1>11. Queued' /\ Received' /\ Room' /\ Count'
  BY <1>2, <1>5, <1>7, <1>10, QuietData
<1>12. Drained'
  BY <1>1, <1>2, <1>5, <1>7, DrainedKept DEF Queue, PhaseRecord
<1>13. QED
  BY <1>3, <1>5, <1>8, <1>9, <1>11, <1>12, WorkerStep

\* Nobody waits for a line when the trial has passed.
LEMMA NoEndOfFile ==
  ASSUME cfg \in Configs, Sane, NEW j \in Workers
  PROVE  ~EndOfFile(j)
<1>1. SUFFICES ASSUME Waiting(j), Closed
               PROVE  FALSE
  BY DEF EndOfFile
<1>2. parent.pc = "passed"
  BY <1>1 DEF Closed, Sane, Types, WarmLoops, RunLoops, LastSteps
<1>3. Heard(j) = 4
  BY <1>2 DEF Heard, In
<1>4. Wrote(j) < 4
  BY <1>1 DEF Waiting, Wrote
<1>5. Heard(j) <= Wrote(j) /\ Wrote(j) \in Nat
  BY WorkerTypes DEF Sane, Pipes
<1>6. QED
  BY <1>3, <1>4, <1>5

\* In a phase, what is asked of a producer is its share of that phase.
LEMMA ShareNow ==
  ASSUME cfg \in Configs, Sane, NEW j \in Workers, InPhase(j)
  PROVE  Quota(Warm(j)) = Share /\ Share \in Nat
<1>1. Warm(j) <=> WarmTime
  BY Busy
<1>2. CASE Warm(j)
  BY <1>1, <1>2, ConfigFacts DEF Quota, Total, Share, WarmShare
<1>3. CASE ~Warm(j)
  BY <1>1, <1>3, ConfigFacts DEF Quota, Total, Share, RunShare
<1>4. QED
  BY <1>2, <1>3

\* The control word is true: the producers have finished.
LEMMA WordIsTrue ==
  ASSUME cfg \in Configs, Sane, NEW j \in Workers, ~IsProducer(j), InPhase(j),
         worker[j].look = "last"
  PROVE  \A i \in Producers : Wrote(i) >= PhaseRecord
<1>1. word[j] = FinalWord(WarmTime) /\ j \in Consumers
  BY WorkerFacts DEF Sane, Works, Looks
<1>2. Words /\ parent \in [pc : WarmLoops \cup RunLoops \cup LastSteps, i : Workers]
  BY DEF Sane, Types
<1>3. SUFFICES ASSUME NEW i \in Producers
               PROVE  Wrote(i) >= PhaseRecord
  OBVIOUS
<1>4. /\ Heard(i) <= Wrote(i) /\ i \in Nat /\ i < cfg.producers /\ parent.i \in Nat
      /\ Wrote(i) \in Nat /\ Heard(i) \in Nat /\ cfg.producers \in Nat
  <2>1. i \in Workers /\ i < cfg.producers /\ cfg.producers \in Nat
    BY WorkerFacts, ConfigFacts
  <2>2. Pipes(i)
    BY <2>1 DEF Sane
  <2>3. QED
    <3>1. Wrote(i) \in Nat /\ Heard(i) \in Nat /\ i \in Nat /\ parent.i \in Nat
      <4>1. Wrote(i) \in 0 .. 4 /\ Heard(i) \in 0 .. 4 /\ i \in Nat /\ parent.i \in Nat
        BY <2>1, WorkerTypes
      <4>2. QED
        BY <4>1
    <3>2. Heard(i) <= Wrote(i)
      BY <2>2 DEF Pipes
    <3>3. QED
      BY <2>1, <3>1, <3>2
<1>5. CASE WarmTime
  <2>1. parent.pc = "warmConsumers"
    BY <1>1, <1>2, <1>5 DEF Words, FinalWord, WarmTime, WarmLoops
  <2>2. parent.i >= cfg.producers
    BY <2>1 DEF Sane, Types
  <2>3. Heard(i) = 2
    BY <1>4, <2>1, <2>2 DEF Heard, In, Past
  <2>4. QED
    BY <1>4, <1>5, <2>3 DEF PhaseRecord
<1>6. CASE ~WarmTime
  <2>1. parent.pc \in {"doneConsumers", "end", "final", "reap"} \cup LastSteps
    BY <1>1, <1>2, <1>6 DEF Words, FinalWord, WarmTime, WarmLoops, RunLoops
  <2>2. In("doneConsumers") => parent.i >= cfg.producers
    BY DEF Sane, Types, In
  <2>3. Heard(i) >= 3
    BY <1>4, <2>1, <2>2 DEF Heard, In, Past, LastSteps
  <2>4. QED
    BY <1>4, <1>6, <2>3 DEF PhaseRecord
<1>7. QED
  BY <1>5, <1>6

\* WARM and DONE report what was counted, and the last to look finds nothing left.
LEMMA EndPhaseStep ==
  ASSUME cfg \in Configs, Sane, NEW j \in Workers, EndPhase(j), Steady
  PROVE  Sane'
<1> DEFINE e == IF Warm(j) THEN "WARM" ELSE "DONE"
           to == IF Warm(j) THEN [worker[j] EXCEPT !.pc = "ready", !.got = 0, !.look = "no", !.bits = {}]
                            ELSE [worker[j] EXCEPT !.pc = "end"]
<1>1. /\ InPhase(j) /\ Lease(j) = None /\ PhaseOver(j)
      /\ worker' = [worker EXCEPT ![j] = to]
      /\ worker \in [Workers -> WorkerType] /\ inbox' = inbox /\ word' = word /\ ring' = ring
  BY DEF Sane, Types, EndPhase, Becomes, Lease
<1>2. /\ Told(j) = Wrote(j) + 1 /\ Heard(j) = Wrote(j)
      /\ inbox[j] = <<>> /\ outbox[j] = <<>>
      /\ Wrote(j) = (IF Warm(j) THEN 1 ELSE 2)
      /\ Warm(j) <=> WarmTime
      /\ PhaseRecord = Wrote(j) + 1
  BY <1>1, Busy
<1>3. /\ outbox' \in [Workers -> Seq([event : EventNames, count : Nat])]
      /\ Len(outbox'[j]) = 1 /\ Head(outbox'[j]).event = e /\ Head(outbox'[j]).count = worker[j].got
      /\ \A k \in Workers \ {j} : outbox'[k] = outbox[k]
  <2>1. Emit(j, [event |-> e, count |-> worker[j].got])
    BY Zenon DEF EndPhase
  <2>2. e \in EventNames /\ worker[j].got \in Nat
    BY WorkerTypes DEF EventNames
  <2> HIDE DEF e
  <2>3. QED
    BY Zenon, <1>2, <2>1, <2>2, OneRecord
<1>4. to \in WorkerType
  BY <1>1 DEF WorkerType
<1>5. Types'
  <2>1. Workers' = Workers
    BY SameConfig DEF Steady
  <2>2. worker' \in [Workers -> WorkerType]
    BY <1>1, <1>4
  <2>3. QED
    BY <1>1, <1>3, <2>1, <2>2 DEF Sane, Types, Steady
<1>6. /\ worker'[j] = to
      /\ \A k \in Workers \ {j} : worker'[k] = worker[k]
  BY <1>1
<1>7. Local(j)
  BY <1>1, <1>3, <1>6 DEF Local
<1>8. /\ Told(j)' = Told(j) /\ Heard(j)' = Heard(j)
      /\ RunShare' = RunShare /\ WarmShare' = WarmShare
      /\ WarmTime' <=> WarmTime
      /\ IsProducer(j)' <=> IsProducer(j)
  BY SameStage, SameConfig DEF Steady
<1>9. /\ Wrote(j)' = Wrote(j) + 1 /\ ~InPhase(j)' /\ ~At(j, "unborn")'
      /\ Read(j)' = Wrote(j) + 1 /\ Lease(j)' = None /\ ~Warm(j)'
      /\ Fresh(j)' <=> Warm(j)
      /\ Warm(j) => worker'[j].got = 0 /\ worker'[j].bits = {} /\ worker'[j].look = "no"
      /\ ~Warm(j) => worker'[j].got = worker[j].got /\ worker'[j].bits = worker[j].bits
  BY <1>1, <1>2, <1>6, WorkerTypes DEF Wrote, Fresh, InPhase, At, Read, Lease, Warm, WorkerType
<1>10. Pipes(j)'
  <2>1. e = Event(Wrote(j) + 1)
    BY <1>2 DEF Event
  <2>2. Wrote(j) \in Nat
    BY <1>2
  <2> HIDE DEF e
  <2>3. Event(Wrote(j))' = Event(Wrote(j) + 1)
    BY <1>9 DEF Event
  <2>4. QED
    BY <1>1, <1>2, <1>3, <1>8, <1>9, <2>1, <2>2, <2>3 DEF Pipes
<1>11. IsProducer(j) => worker[j].got = Share
  BY <1>1, <1>2, ConfigFacts DEF PhaseOver, Quota, Total, Share, WarmShare, RunShare
<1>12. Works(j)'
  <2>1. Rests(j)'
    BY <1>9 DEF Rests, None
  <2>2. Sends(j)' /\ Looks(j)'
    BY <1>2, <1>3, <1>8, <1>9, <1>11 DEF Sends, Looks, Share, None
  <2>3. QED
    BY <2>1, <2>2 DEF Works
<1>13. IsProducer(j) => Made(j)' = Made(j)
  BY <1>2, <1>8, <1>9, <1>11 DEF Made, Share
<1>14. Got(j)' = Got(j)
  <2>1. Holding(j) = 0
    BY <1>1 DEF Holding
  <2>2. Got(j) = IF Warm(j) THEN worker[j].got ELSE 0
    BY <1>2, <2>1, WorkerTypes DEF Got
  <2>3. QED
    BY <1>2, <1>3, <1>8, <1>9, <2>2 DEF Got
<1>15. Queued' /\ Received' /\ Room' /\ Count'
  BY <1>1, <1>2, <1>7, <1>9, <1>13, <1>14, QuietData
<1>16. Drained'
  <2>1. ~IsProducer(j) => Queue = <<>> /\ \A i \in Producers : Wrote(i) >= PhaseRecord
    BY <1>1, WordIsTrue DEF PhaseOver, Queue
  <2>2. QED
    BY <1>1, <1>2, <1>7, <1>9, <2>1, DrainedKept DEF Queue
<1>17. QED
  BY <1>5, <1>7, <1>10, <1>12, <1>15, <1>16, WorkerStep
-----------------------------------------------------------------------------
(***************************************************************************)
(* The steps of a worker that move a message.                              *)
(***************************************************************************)

\* A step within a phase touches no pipe.
LEMMA PhaseStep ==
  ASSUME cfg \in Configs, Sane, NEW j \in Workers, InPhase(j), Steady,
         worker'[j] \in WorkerType, worker'[j].pc = worker[j].pc,
         \A k \in Workers \ {j} : worker'[k] = worker[k],
         inbox' = inbox, outbox' = outbox, \A k \in Consumers : word'[k] = word[k]
  PROVE  /\ Local(j) /\ Pipes(j)' /\ Rests(j)'
         /\ Wrote(j)' = Wrote(j) /\ Share' = Share
         /\ InPhase(j)' /\ ~Fresh(j)' /\ Workers' = Workers
         /\ Warm(j)' <=> Warm(j)
         /\ WarmTime' <=> WarmTime
         /\ IsProducer(j)' <=> IsProducer(j)
         /\ Heard(j)' = Wrote(j) /\ Heard(j) = Wrote(j)
<1>1. Local(j)
  BY DEF Local
<1>2. /\ Told(j)' = Told(j) /\ Heard(j)' = Heard(j) /\ Share' = Share
      /\ WarmTime' <=> WarmTime
      /\ IsProducer(j)' <=> IsProducer(j)
      /\ parent' = parent /\ Workers' = Workers
  BY SameStage, SameConfig DEF Steady
<1>3. /\ Wrote(j)' = Wrote(j) /\ InPhase(j)' /\ ~Fresh(j)' /\ ~At(j, "unborn")'
      /\ Warm(j)' <=> Warm(j)
  BY DEF Wrote, Fresh, InPhase, At, Warm
<1>4. /\ Told(j) = Wrote(j) + 1 /\ Heard(j) = Wrote(j)
      /\ inbox[j] = <<>> /\ outbox[j] = <<>>
  BY Busy
<1>5. Pipes(j)'
  <2>1. Read(j)' = Wrote(j) + 1 /\ Wrote(j) \in Nat
    BY <1>3, WorkerTypes DEF Read
  <2>2. QED
    BY <1>2, <1>3, <1>4, <2>1 DEF Pipes
<1>6. Rests(j)'
  BY <1>3 DEF Rests
<1>7. QED
  BY <1>1, <1>2, <1>3, <1>4, <1>5, <1>6

\* A producer offers the next message of its share.
LEMMA ReserveStep ==
  ASSUME cfg \in Configs, Sane, NEW j \in Workers, Reserve(j), Steady
  PROVE  Sane'
<1> DEFINE m == [id |-> j * Share + worker[j].got, warm |-> Warm(j)]
<1>1. /\ InPhase(j) /\ IsProducer(j) /\ Lease(j) = None
      /\ inbox' = inbox /\ outbox' = outbox /\ word' = word
  BY DEF Reserve, Lease
<1>2. Quota(Warm(j)) = Share /\ Share \in Nat
  BY <1>1, ShareNow
<1>3. /\ worker[j].got < Share /\ ring.free > 0
      /\ ring' = [ring EXCEPT !.free = ring.free - 1]
      /\ worker' = [worker EXCEPT ![j] = [worker[j] EXCEPT !.lease = m]]
  BY <1>2 DEF Reserve, Becomes
<1>4. /\ worker[j] \in WorkerType /\ worker[j].got \in Nat /\ j \in Nat
      /\ worker \in [Workers -> WorkerType]
      /\ ring \in [queue : Seq([id : Nat, warm : BOOLEAN]), free : Nat]
  BY WorkerTypes DEF Sane, Types
<1>5. /\ m \in [id : Nat, warm : BOOLEAN] /\ m \in [id : Int, warm : BOOLEAN]
      /\ m # None /\ m.warm = Warm(j)
  <2>1. j * Share \in Nat
    BY <1>2, <1>4
  <2>2. QED
    BY <1>4, <2>1 DEF None, Warm, At
<1>6. /\ worker'[j] = [worker[j] EXCEPT !.lease = m] /\ worker'[j] \in WorkerType
      /\ worker'[j].pc = worker[j].pc /\ worker'[j].got = worker[j].got
      /\ worker'[j].bits = worker[j].bits /\ worker'[j].look = worker[j].look
      /\ Lease(j)' = m
      /\ \A k \in Workers \ {j} : worker'[k] = worker[k]
      /\ worker' \in [Workers -> WorkerType]
  <2> HIDE DEF m
  <2> DEFINE w == [worker[j] EXCEPT !.lease = m]
  <2>1. /\ w \in WorkerType /\ w.pc = worker[j].pc /\ w.got = worker[j].got
        /\ w.bits = worker[j].bits /\ w.look = worker[j].look /\ w.lease = m
    BY <1>4, <1>5 DEF WorkerType
  <2>2. worker' = [worker EXCEPT ![j] = w]
    BY <1>3
  <2> HIDE DEF w
  <2>3. /\ worker'[j] = w /\ worker' \in [Workers -> WorkerType]
        /\ \A k \in Workers \ {j} : worker'[k] = worker[k]
    BY <1>4, <2>1, <2>2
  <2>4. QED
    BY <2>1, <2>3 DEF Lease, w
<1>7. /\ Local(j) /\ Pipes(j)' /\ Rests(j)'
      /\ Wrote(j)' = Wrote(j) /\ Share' = Share
      /\ InPhase(j)' /\ ~Fresh(j)' /\ Workers' = Workers
      /\ Warm(j)' <=> Warm(j)
      /\ WarmTime' <=> WarmTime
      /\ IsProducer(j)' <=> IsProducer(j)
      /\ Heard(j)' = Wrote(j) /\ Heard(j) = Wrote(j)
  <2> HIDE DEF m
  <2>1. QED
    BY <1>1, <1>6, PhaseStep
<1>8. Queue' = Queue /\ ring'.free = ring.free - 1 /\ ring'.free \in Nat
  BY <1>3, <1>4 DEF Queue
<1>9. Types'
  <2>1. ring' \in [queue : Seq([id : Nat, warm : BOOLEAN]), free : Nat]
    <3> DEFINE Q == Seq([id : Nat, warm : BOOLEAN])
               f == ring.free - 1
    <3>1. ring \in [queue : Q, free : Nat] /\ ring' = [ring EXCEPT !.free = f]
      BY <1>3, <1>4
    <3>2. f \in Nat
      BY <1>3, <1>4
    <3> HIDE DEF Q, f
    <3>3. ring' \in [queue : Q, free : Nat]
      BY <3>1, <3>2
    <3>4. QED
      BY <3>3 DEF Q
  <2> HIDE DEF m
  <2>2. QED
    BY <1>1, <1>6, <1>7, <2>1 DEF Sane, Types, Steady
<1>10. Works(j)'
  <2>1. Draft(j)' = m
    <3>1. Warm(j) <=> WarmTime
      BY <1>1, Busy
    <3>2. QED
      BY <1>6, <1>7, <3>1 DEF Draft, Warm, At, WarmTime
  <2> HIDE DEF m
  <2>2. Sends(j)'
    <3>1. Heard(j)' = Wrote(j)'
      BY <1>7
    <3>2. QED
      BY <1>2, <1>3, <1>4, <1>6, <1>7, <2>1, <3>1 DEF Sends
  <2>3. Looks(j)'
    BY <1>1, <1>7 DEF Looks
  <2>4. QED
    BY <1>7, <2>2, <2>3 DEF Works
<1>11. Made(j)' = Made(j)
  <2> HIDE DEF m
  <2>1. QED
    BY <1>6, <1>7, SameConfig DEF Made, Steady
<1> HIDE DEF m
<1>12. Queued' /\ Received' /\ Count'
  BY <1>1, <1>6, <1>7, <1>8, <1>11, SameData
<1>13. Room'
  <2>1. Len(Queue) \in Nat /\ ring.free \in Nat
    BY <1>4 DEF Queue
  <2>2. ring'.free + Len(Queue') = ring.free + Len(Queue) - 1
    BY <1>8, <2>1
  <2>3. QED
    BY <1>1, <1>5, <1>6, <1>7, <1>9, <2>2, RoomLeased
<1>14. Drained'
  BY <1>1, <1>7, <1>8, DrainedKept, WorkerTypes
<1>15. QED
  BY <1>7, <1>9, <1>10, <1>12, <1>13, <1>14, WorkerStep

\* Nobody makes more than its share.
LEMMA MadeBound ==
  ASSUME cfg \in Configs, Sane, NEW i \in Producers
  PROVE  Made(i) <= Share /\ Share \in Nat
<1>1. i \in Workers /\ IsProducer(i) /\ WarmShare \in Nat /\ RunShare \in Nat
  BY WorkerFacts, ConfigFacts
<1>2. Works(i) /\ worker[i].got \in Nat /\ worker[i] \in WorkerType
  BY <1>1, WorkerTypes DEF Sane
<1>3. CASE InPhase(i)
  <2>1. worker[i].got <= Share
    BY <1>1, <1>2, <1>3 DEF Works, Sends
  <2>2. Wrote(i) = (IF Warm(i) THEN 1 ELSE 2) /\ (Warm(i) <=> WarmTime)
    BY <1>1, <1>3, Busy
  <2>3. QED
    BY <1>1, <2>1, <2>2 DEF Made, Share
<1>4. CASE Fresh(i)
  <2>1. worker[i].got = 0
    BY <1>2, <1>4 DEF Works, Rests
  <2>2. CASE WarmTime
    <3>1. Made(i) = WarmShare \/ Made(i) = 0
      BY <2>1 DEF Made
    <3>2. Share = WarmShare
      BY <2>2 DEF Share
    <3>3. QED
      BY <1>1, <3>1, <3>2
  <2>3. CASE ~WarmTime
    <3>1. Made(i) = 0 /\ Share = RunShare
      BY <2>1, <2>3 DEF Made, Share
    <3>2. QED
      BY <1>1, <3>1
  <2>4. QED
    BY <2>2, <2>3
<1>5. CASE ~InPhase(i) /\ ~Fresh(i)
  <2>1. worker[i].got = RunShare
    BY <1>1, <1>2, <1>5 DEF Works, Sends
  <2>2. Wrote(i) >= 2
    BY <1>2, <1>5 DEF WorkerType, InPhase, Fresh, Wrote
  <2>3. Made(i) = IF WarmTime THEN WarmShare ELSE RunShare
    BY <2>1, <2>2 DEF Made
  <2>4. Made(i) = Share
    BY <2>3 DEF Share
  <2>5. QED
    BY <1>1, <2>4 DEF Share
<1>6. QED
  BY <1>3, <1>4, <1>5

\* The message a producer works on is a new one.
LEMMA DraftIsNew ==
  ASSUME cfg \in Configs, Sane, NEW j \in Producers, worker[j].got < Share, Made(j) = worker[j].got
  PROVE  j * Share + worker[j].got \in Nat \ IdsMade
<1>1. j \in Workers /\ j \in Nat /\ worker[j].got \in Nat /\ Share \in Nat
  BY WorkerFacts, WorkerTypes, MadeBound
<1>2. j * Share \in Nat
  BY <1>1
<1>3. ASSUME NEW i \in Producers, NEW g \in Nat, g < Made(i),
             j * Share + worker[j].got = i * Share + g
      PROVE  FALSE
  <2>1. i \in Nat /\ Made(i) <= Share /\ Made(i) \in Nat
    BY WorkerFacts, MadeBound, WorkerTypes
  <2>2. g < Share
    BY <1>1, <1>3, <2>1
  <2> DEFINE q == Share
             h == worker[j].got
  <2>3. q \in Nat /\ h \in Nat /\ h < q /\ g < q /\ j * q + h = i * q + g
    BY <1>1, <1>3, <2>2
  <2> HIDE DEF q, h
  <2>4. j = i /\ h = g
    BY <1>1, <2>1, <2>3, UniqueId
  <2>5. QED
    BY <1>3, <2>4 DEF h
<1> DEFINE n == j * Share + worker[j].got
<1>4. n \in Nat /\ \A i \in Producers, g \in Nat : ~(g < Made(i) /\ n = i * Share + g)
  BY <1>1, <1>2, <1>3
<1> HIDE DEF n
<1>5. n \in Nat \ IdsMade
  BY <1>4 DEF IdsMade
<1>6. QED
  BY <1>5 DEF n

\* It becomes a message that everybody can count on once.
LEMMA CommitStep ==
  ASSUME cfg \in Configs, Sane, NEW j \in Workers, Commit(j), Steady
  PROVE  Sane'
<1> DEFINE w == [worker[j] EXCEPT !.lease = None, !.got = worker[j].got + 1]
           M == [id : Nat, warm : BOOLEAN]
           m == Lease(j)
<1>1. /\ InPhase(j) /\ IsProducer(j) /\ m # None
      /\ inbox' = inbox /\ outbox' = outbox /\ word' = word
      /\ ring' = [ring EXCEPT !.queue = Append(Queue, m)]
      /\ worker' = [worker EXCEPT ![j] = w]
  BY DEF Commit, Becomes, Lease, Queue
<1>2. /\ worker[j] \in WorkerType /\ worker[j].got \in Nat /\ j \in Nat
      /\ worker \in [Workers -> WorkerType]
      /\ ring \in [queue : Seq(M), free : Nat]
  BY WorkerTypes DEF Sane, Types
<1>3. worker[j].got < Share /\ m = Draft(j) /\ Share \in Nat
  <2>1. Works(j)
    BY DEF Sane
  <2>2. QED
    BY <1>1, <2>1, ShareNow DEF Works, Sends
<1>4. j \in Producers /\ Made(j) = worker[j].got /\ Wrote(j) < PhaseRecord
  <2>1. j \in Producers /\ Wrote(j) \in Nat
    BY <1>1, WorkerFacts, WorkerTypes
  <2>2. Wrote(j) = (IF Warm(j) THEN 1 ELSE 2) /\ (Warm(j) <=> WarmTime) /\ PhaseRecord = Wrote(j) + 1
    BY <1>1, Busy
  <2>3. QED
    BY <2>1, <2>2 DEF Made
<1> DEFINE n == j * Share + worker[j].got
<1>5. n \in Nat \ IdsMade
  BY <1>3, <1>4, DraftIsNew
<1>6. m.id = n /\ m.warm = WarmTime /\ m \in M
  BY <1>3, <1>5 DEF Draft, WarmTime
<1>7. w \in WorkerType /\ w.pc = worker[j].pc /\ w.got = worker[j].got + 1 /\ w.lease = None
      /\ w.bits = worker[j].bits /\ w.look = worker[j].look
  <2>1. worker[j].got + 1 \in Nat /\ None \in [id : Int, warm : BOOLEAN]
    BY <1>2 DEF None
  <2>2. QED
    BY <1>2, <2>1 DEF WorkerType
<1> HIDE DEF w
<1>8. /\ worker'[j] = w
      /\ \A k \in Workers \ {j} : worker'[k] = worker[k]
      /\ worker' \in [Workers -> WorkerType]
  BY <1>1, <1>2, <1>7
<1>9. /\ Local(j) /\ Pipes(j)' /\ Rests(j)'
      /\ Wrote(j)' = Wrote(j) /\ Share' = Share
      /\ InPhase(j)' /\ ~Fresh(j)' /\ Workers' = Workers
      /\ Warm(j)' <=> Warm(j)
      /\ WarmTime' <=> WarmTime
      /\ IsProducer(j)' <=> IsProducer(j)
      /\ Heard(j)' = Wrote(j) /\ Heard(j) = Wrote(j)
  BY <1>1, <1>7, <1>8, PhaseStep
<1>10. /\ Queue \in Seq(M) /\ ring'.free = ring.free /\ Queue' = Append(Queue, m)
       /\ ring' \in [queue : Seq(M), free : Nat] /\ ring.free \in Nat /\ Lease(j)' = None
  <2> HIDE DEF M, m
  <2>1. Queue \in Seq(M)
    BY <1>2 DEF Queue
  <2>2. Append(Queue, m) \in Seq(M)
    BY <1>6, <2>1
  <2>3. QED
    BY <1>1, <1>2, <1>7, <1>8, <2>1, <2>2 DEF Queue, Lease
<1> HIDE DEF M, m
<1>11. /\ Len(Queue') = Len(Queue) + 1 /\ Len(Queue) \in Nat /\ Queue'[Len(Queue) + 1] = m
       /\ \A k \in 1 .. Len(Queue) : Queue'[k] = Queue[k]
  BY <1>6, <1>10
<1>12. Types'
  <2>1. ring' \in [queue : Seq([id : Nat, warm : BOOLEAN]), free : Nat]
    BY <1>10 DEF M
  <2>2. QED
    BY <1>1, <1>8, <1>9, <2>1 DEF Sane, Types, Steady
<1>13. Works(j)'
  <2>1. worker'[j].got \in Nat /\ worker'[j].got <= Share
    BY <1>2, <1>3, <1>7, <1>8
  <2>2. Sends(j)'
    <3>1. Heard(j)' = Wrote(j)'
      BY <1>9
    <3>2. QED
      BY <1>9, <1>10, <2>1, <3>1, WorkerTypes DEF Sends
  <2>3. Looks(j)'
    BY <1>1, <1>9 DEF Looks
  <2>4. QED
    BY <1>9, <2>2, <2>3 DEF Works
<1>14. Made(j)' = Made(j) + 1 /\ \A i \in Producers \ {j} : Made(i)' = Made(i)
  <2>1. \A i \in Producers \ {j} : Made(i)' = Made(i)
    BY <1>9, OtherWorker, WorkerFacts
  <2>2. Made(j)' = worker'[j].got
    <3>1. WarmTime => Wrote(j) = 1
      BY <1>1, Busy
    <3>2. QED
      BY <1>9, <3>1 DEF Made
  <2>3. QED
    BY <1>4, <1>7, <1>8, <2>1, <2>2
<1>15. Producers' = Producers /\ Consumers' = Consumers /\ Consumers \subseteq Workers \ {j}
  BY <1>1, SameConfig, WorkerFacts DEF Steady
<1>16. IdsMade' = IdsMade \cup {n}
  <2>1. \A i \in Producers : i \in Nat /\ Made(i) \in Nat
    BY WorkerFacts, WorkerTypes
  <2>2. IdsMade' = {x \in Nat : \E i \in Producers, g \in Nat : g < Made(i)' /\ x = i * Share + g}
    BY <1>9, <1>15 DEF IdsMade
  <2>3. ASSUME NEW x \in Nat, NEW i \in Producers, NEW g \in Nat
        PROVE  g < Made(i)' /\ x = i * Share + g
               <=> \/ g < Made(i) /\ x = i * Share + g
                   \/ i = j /\ g = worker[j].got /\ x = n
    <3>1. CASE i = j
      BY <1>2, <1>4, <1>14, <2>1, <3>1
    <3>2. CASE i # j
      BY <1>14, <3>2
    <3>3. QED
      BY <3>1, <3>2
  <2>4. n \in Nat /\ j \in Producers /\ worker[j].got \in Nat
    BY <1>2, <1>4, <1>5
  <2> HIDE DEF n
  <2>5. \A x \in Nat : (\E i \in Producers, g \in Nat : g < Made(i)' /\ x = i * Share + g)
                       <=> (\E i \in Producers, g \in Nat : g < Made(i) /\ x = i * Share + g) \/ x = n
    <3>1. ASSUME NEW x \in Nat, NEW i \in Producers, NEW g \in Nat, g < Made(i)', x = i * Share + g
          PROVE  (\E k \in Producers, h \in Nat : h < Made(k) /\ x = k * Share + h) \/ x = n
      BY Zenon, <2>3, <3>1
    <3>2. ASSUME NEW x \in Nat, NEW i \in Producers, NEW g \in Nat, g < Made(i), x = i * Share + g
          PROVE  \E k \in Producers, h \in Nat : h < Made(k)' /\ x = k * Share + h
      BY Zenon, <2>3, <3>2
    <3>3. \E k \in Producers, h \in Nat : h < Made(k)' /\ n = k * Share + h
      <4>1. worker[j].got < Made(j)' /\ n = j * Share + worker[j].got
        BY <2>3, <2>4
      <4>2. QED
        BY Zenon, <2>4, <4>1
    <3>4. QED
      BY Zenon, <3>1, <3>2, <3>3
  <2>6. QED
    BY <2>2, <2>4, <2>5 DEF IdsMade
<1> HIDE DEF n
<1>17. Queued /\ Received /\ Count
  BY DEF Sane
<1>18. \A k \in Consumers : worker'[k] = worker[k] /\ worker[k].bits \subseteq IdsMade
  BY <1>8, <1>15, <1>17 DEF Received
<1>19. Queued'
  <2>1. \A k \in 1 .. Len(Queue) : Queue[k].warm = WarmTime /\ Queue[k].id \in IdsMade /\ Queue[k].id # n
    BY <1>5, <1>17 DEF Queued
  <2>2. ASSUME NEW k \in 1 .. Len(Queue')
        PROVE  Queue'[k].warm = WarmTime' /\ Queue'[k].id \in IdsMade'
    BY <1>6, <1>9, <1>11, <1>16, <2>1, <2>2 DEF WarmTime
  <2>3. ASSUME NEW k \in 1 .. Len(Queue'), NEW l \in 1 .. Len(Queue'), k # l
        PROVE  Queue'[k].id # Queue'[l].id
    BY <1>6, <1>11, <1>17, <2>1, <2>3 DEF Queued
  <2>4. ASSUME NEW i \in Consumers, NEW k \in 1 .. Len(Queue')
        PROVE  Queue'[k].id \notin worker'[i].bits
    BY <1>5, <1>6, <1>11, <1>17, <1>18, <2>4 DEF Queued
  <2>5. QED
    BY <1>15, <2>2, <2>3, <2>4 DEF Queued
<1>20. Received'
  <2>1. ASSUME ~WarmTime, NEW x \in IdsMade'
        PROVE  \/ \E i \in Consumers : x \in worker'[i].bits
               \/ \E k \in 1 .. Len(Queue') : Queue'[k].id = x
    <3>1. CASE x = n
      BY <1>6, <1>11, <3>1
    <3>2. CASE x \in IdsMade
      BY <1>11, <1>17, <1>18, <2>1, <3>2 DEF Received
    <3>3. QED
      BY <1>16, <2>1, <3>1, <3>2
  <2>2. QED
    BY <1>9, <1>15, <1>16, <1>17, <1>18, <2>1 DEF Received
<1>21. Count'
  <2> DEFINE f == [i \in Producers |-> Made(i)]
             g == [i \in Producers |-> Made(i)']
  <2>1. f \in [Producers -> Nat] /\ g \in [Producers -> Nat]
    BY <1>14, RegionTypes, WorkerFacts, WorkerTypes
  <2>2. g[j] = f[j] + 1 /\ \A a \in Producers \ {j} : g[a] = f[a]
    BY <1>4, <1>14
  <2>3. MadeRegion = Region(Producers, f) /\ MadeRegion' = Region(Producers, g)
    BY <1>15 DEF MadeRegion, Region
  <2> HIDE DEF f, g
  <2>4. IsFiniteSet(MadeRegion) => /\ IsFiniteSet(MadeRegion')
                                   /\ Cardinality(MadeRegion') = Cardinality(MadeRegion) + 1
    BY <1>4, <2>1, <2>2, <2>3, RegionUp
  <2>5. GotRegion' = GotRegion
    BY <1>9, <1>15, OtherWorker, SameGot DEF Steady
  <2>6. warmTotal' = warmTotal /\ cfg' = cfg /\ warmTotal \in Nat
    BY DEF Steady, Sane, Types
  <2>7. WarmTime => /\ IsFiniteSet(MadeRegion) /\ IsFiniteSet(GotRegion)
                    /\ Cardinality(MadeRegion) \in Nat /\ Cardinality(GotRegion) \in Nat
                    /\ Cardinality(MadeRegion) = Cardinality(GotRegion) + Len(Queue) + warmTotal
    BY <1>17, FS_CardinalityType DEF Count
  <2>8. WarmTime => /\ IsFiniteSet(MadeRegion') /\ IsFiniteSet(GotRegion')
                    /\ Cardinality(MadeRegion') = Cardinality(GotRegion') + Len(Queue') + warmTotal'
    BY <1>11, <2>4, <2>5, <2>6, <2>7
  <2>9. QED
    BY <1>9, <1>17, <2>6, <2>8 DEF Count
<1>22. Room'
  <2>1. ring'.free + Len(Queue') = ring.free + Len(Queue) + 1
    <3>1. ring'.free = ring.free /\ ring.free \in Nat
      BY <1>10
    <3>2. Len(Queue') = Len(Queue) + 1 /\ Len(Queue) \in Nat
      BY <1>11
    <3>3. QED
      BY <3>1, <3>2
  <2>2. Lease(j) # None
    BY <1>1 DEF m
  <2>3. QED
    BY <1>9, <1>10, <1>12, <2>1, <2>2, RoomReturned
<1>23. Drained'
  BY <1>1, <1>4, <1>9, DrainedKept, WorkerTypes
<1>24. QED
  BY <1>9, <1>12, <1>13, <1>19, <1>20, <1>21, <1>22, <1>23, WorkerStep

\* A consumer finds what it expects: a message of this phase that it has not seen.
LEMMA BorrowStep ==
  ASSUME cfg \in Configs, Sane, NEW j \in Workers, Borrow(j), Steady
  PROVE  Sane'
<1> DEFINE M == [id : Nat, warm : BOOLEAN]
           m == Head(Queue)
           w == [worker[j] EXCEPT !.lease = m, !.look = "no", !.bits = worker[j].bits \cup {m.id}]
<1>1. /\ InPhase(j) /\ ~IsProducer(j) /\ Lease(j) = None /\ Queue # <<>>
      /\ inbox' = inbox /\ outbox' = outbox /\ word' = word
  BY DEF Borrow, Lease, Queue
<1>2. /\ worker[j] \in WorkerType /\ worker[j].got \in Nat /\ worker[j].bits \subseteq Nat
      /\ worker \in [Workers -> WorkerType]
      /\ ring \in [queue : Seq(M), free : Nat] /\ Queue \in Seq(M)
  BY WorkerTypes DEF Sane, Types, Queue
<1>3. Queued /\ Received /\ Count
  BY DEF Sane
<1>4. j \in Consumers
  BY <1>1, WorkerFacts
<1>5. /\ m \in M /\ m = Queue[1] /\ Tail(Queue) \in Seq(M)
      /\ Len(Queue) \in Nat /\ Len(Queue) > 0 /\ Len(Tail(Queue)) = Len(Queue) - 1
      /\ \A k \in 1 .. Len(Queue) - 1 : Tail(Queue)[k] = Queue[k + 1]
  <2> HIDE DEF M
  <2>1. QED
    BY <1>1, <1>2
<1>6. m.id \in IdsMade /\ m.warm = WarmTime /\ \A i \in Consumers : m.id \notin worker[i].bits
  BY <1>3, <1>5 DEF Queued
<1>7. Expects(j, m)
  <2>1. m.warm = Warm(j)
    BY <1>1, <1>6, Busy DEF Warm, At, WarmTime
  <2>2. QED
    BY <1>4, <1>6, <2>1 DEF Expects, Warm
<1>8. ring' = [ring EXCEPT !.queue = Tail(Queue)] /\ worker' = [worker EXCEPT ![j] = w]
  BY <1>7 DEF Borrow, Becomes, Queue
<1>9. /\ w \in WorkerType /\ w.pc = worker[j].pc /\ w.got = worker[j].got /\ w.lease = m
      /\ w.bits = worker[j].bits \cup {m.id} /\ w.look = "no"
  <2>1. m \in [id : Int, warm : BOOLEAN] /\ m.id \in Nat
    BY <1>5
  <2> HIDE DEF m
  <2>2. worker[j].bits \cup {m.id} \in SUBSET Nat
    BY <1>2, <2>1
  <2>3. QED
    BY <1>2, <2>1, <2>2 DEF WorkerType
<1> HIDE DEF w
<1>10. /\ worker'[j] = w
       /\ \A k \in Workers \ {j} : worker'[k] = worker[k]
       /\ worker' \in [Workers -> WorkerType]
  BY <1>2, <1>8, <1>9
<1>11. /\ Local(j) /\ Pipes(j)' /\ Rests(j)'
       /\ Wrote(j)' = Wrote(j) /\ Share' = Share
       /\ InPhase(j)' /\ ~Fresh(j)' /\ Workers' = Workers
       /\ Warm(j)' <=> Warm(j)
       /\ WarmTime' <=> WarmTime
       /\ IsProducer(j)' <=> IsProducer(j)
       /\ Heard(j)' = Wrote(j) /\ Heard(j) = Wrote(j)
  BY <1>1, <1>9, <1>10, PhaseStep
<1>12. /\ Queue' = Tail(Queue) /\ ring'.free = ring.free /\ ring.free \in Nat
       /\ ring' \in [queue : Seq(M), free : Nat]
  <2> HIDE DEF M
  <2>1. QED
    BY <1>2, <1>5, <1>8 DEF Queue
<1>13. Lease(j)' = m /\ m # None
  BY <1>5, <1>9, <1>10 DEF Lease, None
<1>14. Types'
  <2>1. ring' \in [queue : Seq([id : Nat, warm : BOOLEAN]), free : Nat]
    BY <1>12
  <2> HIDE DEF M, m
  <2>2. QED
    BY <1>1, <1>10, <1>11, <2>1 DEF Sane, Types, Steady
<1> HIDE DEF M, m
<1>15. Works(j)'
  <2>1. Sends(j)'
    BY <1>1, <1>11 DEF Sends
  <2>2. Looks(j)'
    BY <1>9, <1>10, <1>13 DEF Looks
  <2>3. QED
    BY <1>11, <2>1, <2>2 DEF Works
<1>16. /\ Producers' = Producers /\ Consumers' = Consumers
       /\ cfg' = cfg /\ parent' = parent /\ warmTotal' = warmTotal
  BY SameConfig DEF Steady
<1>17. \A i \in Producers : Made(i)' = Made(i)
  BY <1>1, <1>11, OtherWorker, WorkerFacts
<1>18. IdsMade' = IdsMade /\ MadeRegion' = MadeRegion
  BY <1>16, <1>17, SameMade
<1>19. /\ worker'[j].bits = worker[j].bits \cup {m.id}
       /\ \A i \in Consumers \ {j} : worker'[i].bits = worker[i].bits
  BY <1>9, <1>10, WorkerFacts
<1>20. Queued'
  <2>1. ASSUME NEW k \in 1 .. Len(Queue')
        PROVE  /\ k + 1 \in 1 .. Len(Queue) /\ 1 \in 1 .. Len(Queue) /\ k + 1 # 1
               /\ Queue'[k] = Queue[k + 1]
    BY <1>5, <1>12, <2>1
  <2>2. ASSUME NEW k \in 1 .. Len(Queue')
        PROVE  Queue'[k].warm = WarmTime' /\ Queue'[k].id \in IdsMade'
    BY <1>3, <1>11, <1>18, <2>1 DEF Queued, WarmTime
  <2>3. ASSUME NEW k \in 1 .. Len(Queue'), NEW l \in 1 .. Len(Queue'), k # l
        PROVE  Queue'[k].id # Queue'[l].id
    <3>1. k + 1 # l + 1
      BY <2>3
    <3>2. Queue[k + 1].id # Queue[l + 1].id
      BY <1>3, <2>1, <3>1 DEF Queued
    <3>3. QED
      BY <2>1, <3>2
  <2>4. ASSUME NEW i \in Consumers, NEW k \in 1 .. Len(Queue')
        PROVE  Queue'[k].id \notin worker'[i].bits
    <3>1. Queue'[k].id # m.id
      BY <1>3, <1>5, <2>1 DEF Queued
    <3>2. Queue'[k].id \notin worker[i].bits
      BY <1>3, <2>1 DEF Queued
    <3>3. QED
      BY <1>19, <3>1, <3>2
  <2>5. QED
    BY <1>16, <2>2, <2>3, <2>4 DEF Queued
<1>21. Received'
  <2>1. \A i \in Consumers : worker'[i].bits \subseteq IdsMade'
    BY <1>3, <1>6, <1>18, <1>19 DEF Received
  <2>2. ASSUME NEW i \in Consumers, NEW k \in Consumers, i # k
        PROVE  worker'[i].bits \cap worker'[k].bits = {}
    <3>1. worker[i].bits \cap worker[k].bits = {} /\ m.id \notin worker[i].bits /\ m.id \notin worker[k].bits
      BY <1>3, <1>6, <2>2 DEF Received
    <3>2. QED
      BY <1>19, <2>2, <3>1
  <2>3. ASSUME ~WarmTime, NEW n \in IdsMade
        PROVE  \/ \E i \in Consumers : n \in worker'[i].bits
               \/ \E k \in 1 .. Len(Queue') : Queue'[k].id = n
    <3>1. CASE \E i \in Consumers : n \in worker[i].bits
      BY <1>19, <3>1
    <3>2. CASE \E k \in 1 .. Len(Queue) : Queue[k].id = n
      <4>1. PICK k \in 1 .. Len(Queue) : Queue[k].id = n
        BY <3>2
      <4>2. CASE k = 1
        BY <1>4, <1>5, <1>19, <4>1, <4>2
      <4>3. CASE k # 1
        <5>1. k - 1 \in 1 .. Len(Queue) - 1 /\ (k - 1) + 1 = k
          BY <1>5, <4>1, <4>3
        <5>2. Tail(Queue)[k - 1] = Queue[k]
          BY <1>5, <5>1
        <5>3. QED
          BY <1>5, <1>12, <4>1, <5>1, <5>2
      <4>4. QED
        BY <4>2, <4>3
    <3>3. QED
      BY <1>3, <2>3, <3>1, <3>2 DEF Received
  <2>4. QED
    BY <1>11, <1>16, <1>18, <2>1, <2>2, <2>3 DEF Received
<1>22. Count'
  <2>1. CASE WarmTime
    <3> DEFINE f == [i \in Consumers |-> Got(i)]
               g == [i \in Consumers |-> Got(i)']
    <3>1. Got(j)' = Got(j) + 1 /\ \A i \in Consumers \ {j} : Got(i)' = Got(i)
      <4>1. Warm(j) /\ Warm(j)'
        BY <1>1, <1>11, <2>1, Busy
      <4>2. Got(j)' = worker[j].got + 1
        BY <1>9, <1>10, <1>13, <4>1 DEF Got, Holding
      <4>3. Got(j) = worker[j].got
        BY <1>1, <1>2, <4>1 DEF Got, Holding
      <4>4. QED
        BY <1>11, <4>2, <4>3, OtherWorker, WorkerFacts
    <3>2. f \in [Consumers -> Nat] /\ g \in [Consumers -> Nat]
      <4>1. \A i \in Consumers : Got(i) \in Nat
        BY WorkerFacts, WorkerTypes
      <4>2. \A i \in Consumers : Got(i)' \in Nat
        BY <1>4, <3>1, <4>1
      <4>3. QED
        BY <4>1, <4>2
    <3>3. g[j] = f[j] + 1 /\ \A a \in Consumers \ {j} : g[a] = f[a]
      BY <1>4, <3>1
    <3>4. GotRegion = Region(Consumers, f) /\ GotRegion' = Region(Consumers, g)
      BY <1>16 DEF GotRegion, Region
    <3> HIDE DEF f, g
    <3>5. /\ IsFiniteSet(MadeRegion) /\ IsFiniteSet(GotRegion)
          /\ Cardinality(MadeRegion) = Cardinality(GotRegion) + Len(Queue) + warmTotal
      BY <1>3, <2>1 DEF Count
    <3>6. IsFiniteSet(GotRegion') /\ Cardinality(GotRegion') = Cardinality(GotRegion) + 1
      BY <1>4, <3>2, <3>3, <3>4, <3>5, RegionUp
    <3>7. Cardinality(GotRegion) \in Nat /\ warmTotal \in Nat
      BY <3>5, FS_CardinalityType DEF Sane, Types
    <3>8. Len(Queue') = Len(Queue) - 1 /\ Len(Queue) \in Nat
      BY <1>5, <1>12
    <3>9. Cardinality(MadeRegion') = Cardinality(GotRegion') + Len(Queue') + warmTotal'
      BY <1>16, <1>18, <3>5, <3>6, <3>7, <3>8
    <3>10. QED
      BY <1>11, <1>18, <2>1, <3>5, <3>6, <3>9 DEF Count
  <2>2. CASE ~WarmTime
    BY <1>3, <1>11, <1>16, <2>2 DEF Count
  <2>3. QED
    BY <2>1, <2>2
<1>23. Room'
  <2>1. ring'.free + Len(Queue') = ring.free + Len(Queue) - 1
    <3>1. ring'.free = ring.free /\ ring.free \in Nat
      BY <1>12
    <3>2. Len(Queue') = Len(Queue) - 1 /\ Len(Queue) \in Nat
      BY <1>5, <1>12
    <3>3. QED
      BY <3>1, <3>2
  <2>2. QED
    BY <1>1, <1>11, <1>13, <1>14, <2>1, RoomLeased
<1>24. Drained'
  BY <1>1, <1>11, DrainedKept, WorkerTypes
<1>25. QED
  BY <1>11, <1>14, <1>15, <1>20, <1>21, <1>22, <1>23, <1>24, WorkerStep

\* It lets the slot go, and in a closed loop the producer of the message may go on.
LEMMA ReleaseStep ==
  ASSUME cfg \in Configs, Sane, NEW j \in Workers, Release(j), Steady
  PROVE  Sane'
<1> DEFINE w == [worker[j] EXCEPT !.lease = None, !.got = worker[j].got + 1]
           n == Lease(j).id
<1>1. /\ InPhase(j) /\ ~IsProducer(j) /\ Lease(j) # None
      /\ inbox' = inbox /\ outbox' = outbox
      /\ ring' = [ring EXCEPT !.free = ring.free + 1]
      /\ worker' = [worker EXCEPT ![j] = w]
  BY DEF Release, Becomes, Lease
<1>2. /\ worker[j] \in WorkerType /\ worker[j].got \in Nat
      /\ worker \in [Workers -> WorkerType] /\ word \in [Workers -> Nat]
      /\ ring \in [queue : Seq([id : Nat, warm : BOOLEAN]), free : Nat]
  BY WorkerTypes DEF Sane, Types
<1>3. j \in Consumers /\ Producers \subseteq Workers /\ Consumers \subseteq Workers /\ Producers \cap Consumers = {}
  BY <1>1, WorkerFacts
<1>4. Queued /\ Received /\ Count /\ Works(j)
  BY DEF Sane
<1>5. n \in IdsMade
  BY <1>1, <1>3, <1>4 DEF Received, Works, Looks
<1>6. word' \in [Workers -> Nat] /\ \A k \in Consumers : word'[k] = word[k]
  <2>1. CASE cfg.closed /\ ~Warm(j)
    <3>1. word' = [word EXCEPT ![n \div Quota(FALSE)] = 1 + (n % Quota(FALSE))]
      BY <2>1 DEF Release, Lease
    <3>2. Quota(FALSE) = Share
      BY <1>1, <2>1, Busy DEF Share, RunShare
    <3>3. PICK i \in Producers, g \in Nat : g < Made(i) /\ n = (i * Share) + g
      BY <1>5 DEF IdsMade
    <3>4. i \in Nat /\ g < Share /\ Share \in Nat
      BY <3>3, MadeBound, WorkerFacts, WorkerTypes
    <3>5. n \div Share = i
      <4> DEFINE q == Share
      <4>1. q \in Nat /\ i \in Nat /\ g \in Nat /\ g < q /\ n = (i * q) + g
        BY <3>3, <3>4
      <4> HIDE DEF q, n
      <4>2. n \div q = i
        BY <4>1, Division
      <4>3. QED
        BY <4>2 DEF q
    <3>6. 1 + (n % Share) \in Nat
      <4>1. n \in Nat
        BY <1>5 DEF IdsMade
      <4> HIDE DEF n
      <4>2. n % Share \in Nat
        BY <3>4, <4>1
      <4>3. QED
        BY <4>2
    <3> DEFINE c == 1 + (n % Share)
    <3>7. word' = [word EXCEPT ![i] = c]
      BY <3>1, <3>2, <3>5
    <3> HIDE DEF c
    <3>8. c \in Nat
      BY <3>6 DEF c
    <3>9. QED
      BY <1>2, <1>3, <3>7, <3>8
  <2>2. CASE ~(cfg.closed /\ ~Warm(j))
    BY <1>2, <2>2 DEF Release
  <2>3. QED
    BY <2>1, <2>2
<1> HIDE DEF n
<1>7. w \in WorkerType /\ w.pc = worker[j].pc /\ w.got = worker[j].got + 1 /\ w.lease = None
      /\ w.bits = worker[j].bits /\ w.look = worker[j].look
  <2>1. worker[j].got + 1 \in Nat /\ None \in [id : Int, warm : BOOLEAN]
    BY <1>2 DEF None
  <2>2. QED
    BY <1>2, <2>1 DEF WorkerType
<1> HIDE DEF w
<1>8. /\ worker'[j] = w
      /\ \A k \in Workers \ {j} : worker'[k] = worker[k]
      /\ worker' \in [Workers -> WorkerType]
  BY <1>1, <1>2, <1>7
<1>9. /\ Local(j) /\ Pipes(j)' /\ Rests(j)'
      /\ Wrote(j)' = Wrote(j) /\ Share' = Share
      /\ InPhase(j)' /\ ~Fresh(j)' /\ Workers' = Workers
      /\ Warm(j)' <=> Warm(j)
      /\ WarmTime' <=> WarmTime
      /\ IsProducer(j)' <=> IsProducer(j)
      /\ Heard(j)' = Wrote(j) /\ Heard(j) = Wrote(j)
  BY <1>1, <1>6, <1>7, <1>8, PhaseStep
<1>10. /\ Queue' = Queue /\ ring'.free = ring.free + 1 /\ ring.free \in Nat /\ Lease(j)' = None
       /\ Len(Queue) \in Nat
       /\ ring' \in [queue : Seq([id : Nat, warm : BOOLEAN]), free : Nat]
  <2> DEFINE Q == Seq([id : Nat, warm : BOOLEAN])
             f == ring.free + 1
  <2>1. ring \in [queue : Q, free : Nat] /\ ring' = [ring EXCEPT !.free = f] /\ f \in Nat
    BY <1>1, <1>2
  <2>2. ring.queue \in Q /\ Len(ring.queue) \in Nat /\ ring.free \in Nat
    BY <1>2
  <2> HIDE DEF Q
  <2>3. QED
    BY <1>7, <1>8, <2>1, <2>2 DEF Queue, Lease, Q
<1>11. Types'
  BY <1>1, <1>6, <1>8, <1>9, <1>10 DEF Sane, Types, Steady
<1>12. Works(j)'
  <2>1. Sends(j)'
    BY <1>1, <1>9 DEF Sends
  <2>2. Looks(j)'
    <3>1. InPhase(j) /\ worker[j].look = "last" => word[j] = IF WarmTime THEN 1 ELSE 2
      BY <1>1, <1>4 DEF Works, Looks, FinalWord
    <3>2. word'[j] = word[j] /\ worker'[j].look = worker[j].look
      BY <1>3, <1>6, <1>7, <1>8
    <3>3. worker'[j].look = "last" => word'[j] = IF WarmTime' THEN 1 ELSE 2
      BY <1>1, <1>9, <3>1, <3>2
    <3>4. QED
      BY <1>10, <3>3 DEF Looks, FinalWord
  <2>3. QED
    BY <1>9, <2>1, <2>2 DEF Works
<1>13. Got(j)' = Got(j)
  <2>1. CASE Warm(j)
    <3>1. Got(j)' = worker'[j].got + 0
      BY <1>9, <1>10, <2>1 DEF Got, Holding
    <3>2. Got(j) = worker[j].got + 1
      BY <1>1, <2>1 DEF Got, Holding
    <3>3. QED
      BY <1>2, <1>7, <1>8, <3>1, <3>2
  <2>2. CASE ~Warm(j)
    <3>1. Heard(j) = Wrote(j) /\ Heard(j)' = Wrote(j)'
      BY <1>9
    <3>2. QED
      BY <1>9, <2>2, <3>1 DEF Got
  <2>3. QED
    BY <2>1, <2>2
<1>14. Queued' /\ Received' /\ Count'
  <2>1. worker'[j].bits = worker[j].bits
    BY <1>7, <1>8
  <2>2. QED
    BY <1>1, <1>9, <1>10, <1>13, <2>1, SameData
<1>15. Room'
  <2>1. ring'.free + Len(Queue') = ring.free + Len(Queue) + 1
    BY <1>10
  <2>2. QED
    BY <1>1, <1>9, <1>10, <1>11, <2>1, RoomReturned
<1>16. Drained'
  <2>1. Wrote(j)' = Wrote(j) /\ Wrote(j) \in Nat
    BY <1>9, WorkerTypes
  <2>2. Wrote(j) <= Wrote(j)' /\ Wrote(j)' \in Nat
    BY <2>1
  <2>3. QED
    BY <1>9, <1>10, <2>1, <2>2, DrainedKept
<1>17. QED
  BY <1>9, <1>11, <1>12, <1>14, <1>15, <1>16, WorkerStep

\* All steps of the workers, as long as nobody dies.
LEMMA WorkersKeep ==
  ASSUME cfg \in Configs, Sane, NEW j \in Workers, WorkerRuns(j)
  PROVE  Sane'
<1>1. Steady
  BY DEF WorkerRuns, parentVars, Steady
<1>2. QED
  BY <1>1, AttachStep, StartStep, ReserveStep, CommitStep, BorrowStep, ReleaseStep, LookStep,
     EndPhaseStep, FinishStep, ExitStep, NoEndOfFile DEF WorkerRuns
-----------------------------------------------------------------------------
(***************************************************************************)
(* The steps of run().                                                     *)
(***************************************************************************)

\* Popen: the process is born and waits for its request.
LEMMA PopenStep ==
  ASSUME cfg \in Configs, Sane, Popen
  PROVE  Sane'
<1>0. PICK j \in Workers : j = parent.i
  BY DEF Sane, Types
<1> DEFINE w == [worker[j] EXCEPT !.pc = "request"]
<1>1. /\ In("spawn") /\ At(j, "unborn") /\ worker' = [worker EXCEPT ![j] = w] /\ Steady
      /\ inbox' = inbox /\ outbox' = outbox /\ word' = word /\ ring' = ring
  BY <1>0 DEF Popen, Becomes, parentVars, Steady
<1>2. j \in Workers /\ worker \in [Workers -> WorkerType]
  BY DEF Sane, Types
<1>3. w \in WorkerType /\ w.pc = "request" /\ w.got = worker[j].got /\ w.lease = worker[j].lease
      /\ w.bits = worker[j].bits /\ w.look = worker[j].look
  <2>1. worker[j] \in WorkerType
    BY <1>2
  <2>2. QED
    BY <2>1 DEF WorkerType
<1> HIDE DEF w
<1>4. /\ worker'[j] = w /\ worker' \in [Workers -> WorkerType]
      /\ \A k \in Workers \ {j} : worker'[k] = worker[k]
  BY <1>1, <1>2, <1>3
<1>5. Local(j)
  BY <1>1, <1>4 DEF Local
<1>6. /\ Told(j)' = Told(j) /\ Heard(j)' = Heard(j) /\ Workers' = Workers
      /\ WarmTime' <=> WarmTime
      /\ IsProducer(j)' <=> IsProducer(j)
  BY <1>1, <1>2, SameStage, SameConfig DEF Steady
<1>7. /\ ~At(j, "unborn")' /\ Wrote(j) = 0 /\ Wrote(j)' = 0 /\ Read(j) = 0 /\ Read(j)' = 0
      /\ Fresh(j) /\ Fresh(j)' /\ ~InPhase(j) /\ ~InPhase(j)' /\ ~Warm(j) /\ ~Warm(j)'
      /\ Lease(j)' = Lease(j)
  BY <1>1, <1>3, <1>4 DEF At, Wrote, Read, Fresh, InPhase, Warm, Lease
<1>8. Types'
  BY <1>1, <1>4, <1>6 DEF Sane, Types, Steady
<1>9. Pipes(j) /\ Works(j)
  BY <1>2 DEF Sane
<1>10. Pipes(j)'
  BY <1>1, <1>6, <1>7, <1>9 DEF Pipes
<1>11. Works(j)'
  <2>1. Lease(j) = None
    BY <1>7, <1>9 DEF Works, Rests
  <2>2. Rests(j)'
    BY <1>3, <1>4, <1>7, <1>9, <2>1 DEF Works, Rests, None
  <2>3. Sends(j)' /\ Looks(j)'
    BY <1>6, <1>7, <2>1 DEF Sends, Looks, None
  <2>4. QED
    BY <2>2, <2>3 DEF Works
<1>12. Made(j)' = Made(j) /\ Got(j)' = Got(j) /\ worker'[j].bits = worker[j].bits
  BY <1>3, <1>4, <1>7 DEF Made, Got
<1>13. Queued' /\ Received' /\ Room' /\ Count'
  BY <1>1, <1>2, <1>5, <1>7, <1>12, QuietData
<1>14. Drained'
  BY <1>1, <1>2, <1>5, <1>7, DrainedKept DEF Queue, PhaseRecord
<1>15. QED
  BY <1>2, <1>5, <1>8, <1>10, <1>11, <1>13, <1>14, WorkerStep

\* As long as run() stays in a phase it does not touch the data.
LEMMA ParentData ==
  ASSUME cfg \in Configs, Sane, cfg' = cfg, worker' = worker, ring' = ring, WarmTime' <=> WarmTime
  PROVE  /\ Queued' /\ Received' /\ Room' /\ Drained'
         /\ Workers' = Workers /\ Producers' = Producers /\ Consumers' = Consumers
         /\ Share' = Share /\ WarmShare' = WarmShare /\ RunShare' = RunShare
         /\ MadeRegion' = MadeRegion /\ Queue' = Queue
         /\ \A k \in Workers :
              /\ Wrote(k)' = Wrote(k) /\ Read(k)' = Read(k) /\ Lease(k)' = Lease(k)
              /\ IsProducer(k)' <=> IsProducer(k)
              /\ InPhase(k)' <=> InPhase(k)
              /\ Fresh(k)' <=> Fresh(k)
              /\ Warm(k)' <=> Warm(k)
<1>1. /\ Workers' = Workers /\ Producers' = Producers /\ Consumers' = Consumers
      /\ WarmShare' = WarmShare /\ RunShare' = RunShare
      /\ \A j \in Workers : IsProducer(j)' <=> IsProducer(j)
  BY SameConfig
<1>2. Share' = Share /\ PhaseRecord' = PhaseRecord
  BY <1>1 DEF Share, PhaseRecord
<1>3. ASSUME NEW k \in Workers
      PROVE  /\ Wrote(k)' = Wrote(k) /\ Read(k)' = Read(k) /\ Lease(k)' = Lease(k)
             /\ InPhase(k)' <=> InPhase(k)
             /\ Fresh(k)' <=> Fresh(k)
             /\ Warm(k)' <=> Warm(k)
             /\ Made(k)' = Made(k)
  <2>1. /\ Wrote(k)' = Wrote(k) /\ Lease(k)' = Lease(k)
        /\ InPhase(k)' <=> InPhase(k)
        /\ Fresh(k)' <=> Fresh(k)
        /\ Warm(k)' <=> Warm(k)
    BY DEF Wrote, Lease, InPhase, Fresh, Warm, At
  <2>2. Read(k)' = Read(k)
    BY <2>1 DEF Read
  <2>3. Made(k)' = Made(k)
    BY <1>1, <2>1 DEF Made
  <2>4. QED
    BY <2>1, <2>2, <2>3
<1>4. Queue' = Queue
  BY DEF Queue
<1>5. \A i \in Producers : Made(i)' = Made(i)
  BY <1>3, WorkerFacts
<1>6. IdsMade' = IdsMade
  BY <1>1, <1>2, <1>5 DEF IdsMade
<1>7. MadeRegion' = MadeRegion
  <2>1. [i \in Producers |-> Made(i)]' = [i \in Producers |-> Made(i)]
    BY <1>1, <1>5
  <2>2. QED
    BY <1>1, <2>1 DEF MadeRegion, Region
<1>8. Queued /\ Received /\ Room /\ Drained
  BY DEF Sane
<1>9. Queued'
  BY <1>1, <1>4, <1>6, <1>8 DEF Queued, WarmTime
<1>10. Received'
  BY <1>1, <1>4, <1>6, <1>8 DEF Received
<1>11. Room'
  <2>1. Leasing' = Leasing
    BY <1>1, <1>3 DEF Leasing
  <2>2. QED
    BY <1>4, <1>8, <2>1 DEF Room
<1>12. Drained'
  <2>1. \A k \in Consumers : Wrote(k)' = Wrote(k)
    BY <1>3, WorkerFacts
  <2>2. \A k \in Producers : Wrote(k)' = Wrote(k)
    BY <1>3, WorkerFacts
  <2>3. QED
    BY <1>1, <1>2, <1>4, <1>8, <2>1, <2>2 DEF Drained
<1>13. QED
  BY <1>1, <1>2, <1>3, <1>4, <1>7, <1>9, <1>10, <1>11, <1>12

\* Nor what the workers do, when their words stay or nobody has trusted them yet.
LEMMA ParentWorks ==
  ASSUME cfg \in Configs, Sane, cfg' = cfg, worker' = worker, ring' = ring, WarmTime' <=> WarmTime,
         NEW k \in Workers, (Heard(k)' = Heard(k) /\ outbox'[k] = outbox[k]) \/ Heard(k)' = Wrote(k),
         IsProducer(k) \/ word'[k] = word[k] \/ ~InPhase(k) \/ worker[k].look # "last"
  PROVE  Works(k)'
<1>1. Works(k)
  BY DEF Sane
<1>2. /\ Share' = Share /\ WarmShare' = WarmShare /\ RunShare' = RunShare
      /\ Wrote(k)' = Wrote(k) /\ Lease(k)' = Lease(k)
      /\ IsProducer(k)' <=> IsProducer(k)
      /\ InPhase(k)' <=> InPhase(k)
      /\ Fresh(k)' <=> Fresh(k)
  BY ParentData
<1>3. Rests(k)'
  BY <1>1, <1>2 DEF Works, Rests, None
<1>4. Sends(k)'
  <2>1. Draft(k)' = Draft(k)
    BY <1>2 DEF Draft, WarmTime
  <2>2. Heard(k)' = 1 /\ Wrote(k) = 2 => Heard(k) = 1 /\ outbox'[k] = outbox[k]
    OBVIOUS
  <2>3. CASE IsProducer(k)
    <3>1. Heard(k)' = 1 /\ Wrote(k)' = 2 => Head(outbox'[k]).count = WarmShare'
      BY <1>1, <1>2, <2>2, <2>3 DEF Works, Sends
    <3>2. QED
      BY <1>1, <1>2, <2>1, <2>3, <3>1 DEF Works, Sends, None
  <2>4. CASE ~IsProducer(k)
    BY <1>2, <2>4 DEF Sends
  <2>5. QED
    BY <2>3, <2>4
<1>5. Looks(k)'
  <2>1. CASE ~IsProducer(k)
    <3>1. /\ Lease(k) # None => Lease(k).id \in worker[k].bits
          /\ InPhase(k) /\ worker[k].look = "last" => word[k] = IF WarmTime THEN 1 ELSE 2
      BY <1>1, <2>1 DEF Works, Looks, FinalWord
    <3>2. InPhase(k) /\ worker[k].look = "last" => word'[k] = IF WarmTime' THEN 1 ELSE 2
      BY <2>1, <3>1
    <3>3. QED
      BY <1>2, <3>1, <3>2 DEF Looks, FinalWord, None
  <2>2. CASE IsProducer(k)
    BY <1>2, <2>2 DEF Looks
  <2>3. QED
    BY <2>1, <2>2
<1>6. QED
  BY <1>3, <1>4, <1>5 DEF Works

\* The count of the warm-up stays.
LEMMA ParentCount ==
  ASSUME cfg \in Configs, Sane, cfg' = cfg, worker' = worker, ring' = ring, WarmTime' <=> WarmTime,
         warmTotal' = warmTotal,
         WarmTime => \A k \in Consumers :
           (Heard(k)' = Heard(k) /\ outbox'[k] = outbox[k]) \/ Wrote(k) # 2
  PROVE  Count'
<1>1. Count
  BY DEF Sane
<1>2. Consumers' = Consumers /\ MadeRegion' = MadeRegion /\ Queue' = Queue
  BY ParentData
<1>3. CASE WarmTime
  <2>1. \A k \in Consumers : Got(k)' = Got(k)
    <3>1. ASSUME NEW k \in Consumers
          PROVE  Got(k)' = Got(k)
      <4>1. /\ Wrote(k)' = Wrote(k) /\ Lease(k)' = Lease(k)
            /\ Warm(k)' <=> Warm(k)
        BY ParentData, WorkerFacts
      <4>2. QED
        BY <1>3, <4>1 DEF Got, Holding, None
    <3>2. QED
      BY <3>1
  <2>2. GotRegion' = GotRegion
    BY <2>1, SameGot
  <2>3. QED
    BY <1>1, <1>2, <1>3, <2>2 DEF Count
<1>4. CASE ~WarmTime
  BY <1>1, <1>4 DEF Count
<1>5. QED
  BY <1>3, <1>4

\* The loops that tell the workers to go on.
TellsHere(line) ==
  \/ In("spawn") /\ line = "request" /\ Onward(N - 1, "ready", 0)
  \/ In("warm")  /\ line = "1"       /\ Onward(N - 1, "warmProducers", 0)
  \/ In("start") /\ line = "t0"      /\ Onward(N - 1, "doneProducers", 0)
  \/ In("end")   /\ line = "0"       /\ Onward(N - 1, "final", 0)

LEMMA TellMoves ==
  ASSUME cfg \in Configs, Sane, cfg' = cfg, NEW i \in Workers, i = parent.i, NEW line, TellsHere(line)
  PROVE  /\ Told(i) = Heard(i) /\ Told(i)' = Told(i) + 1 /\ Command(Told(i) + 1) = line
         /\ \A k \in Workers : Heard(k)' = Heard(k)
         /\ \A k \in Workers \ {i} : /\ Told(k)' = Told(k)
                                     /\ In("spawn") /\ k >= parent.i => In("spawn")' /\ k >= parent'.i
         /\ WarmTime' <=> WarmTime
         /\ line \in CommandNames /\ Told(i) \in 0 .. 3
<1>1. /\ Workers = 0 .. N - 1 /\ N \in Nat /\ i \in Nat /\ \A k \in Workers : k \in Nat
  BY ConfigFacts DEF Workers
<1>2. CASE In("spawn") /\ line = "request" /\ Onward(N - 1, "ready", 0)
  <2>1. CASE i = N - 1
    <3>1. parent' = [pc |-> "ready", i |-> 0]
      BY <1>2, <2>1 DEF Onward, To
    <3>2. QED
      BY <1>1, <1>2, <2>1, <3>1 DEF Told, Heard, Past, In, Command, WarmTime, WarmLoops, CommandNames
  <2>2. CASE i # N - 1
    <3>1. parent' = [pc |-> "spawn", i |-> i + 1]
      BY <1>2, <2>2 DEF Onward, To, In
    <3>2. QED
      BY <1>1, <1>2, <2>2, <3>1 DEF Told, Heard, Past, In, Command, WarmTime, WarmLoops, CommandNames
  <2>3. QED
    BY <2>1, <2>2
<1>3. CASE In("warm") /\ line = "1" /\ Onward(N - 1, "warmProducers", 0)
  <2>1. CASE i = N - 1
    <3>1. parent' = [pc |-> "warmProducers", i |-> 0]
      BY <1>3, <2>1 DEF Onward, To
    <3>2. QED
      BY <1>1, <1>3, <2>1, <3>1 DEF Told, Heard, Past, In, Command, WarmTime, WarmLoops, CommandNames
  <2>2. CASE i # N - 1
    <3>1. parent' = [pc |-> "warm", i |-> i + 1]
      BY <1>3, <2>2 DEF Onward, To, In
    <3>2. QED
      BY <1>1, <1>3, <2>2, <3>1 DEF Told, Heard, Past, In, Command, WarmTime, WarmLoops, CommandNames
  <2>3. QED
    BY <2>1, <2>2
<1>4. CASE In("start") /\ line = "t0" /\ Onward(N - 1, "doneProducers", 0)
  <2>1. CASE i = N - 1
    <3>1. parent' = [pc |-> "doneProducers", i |-> 0]
      BY <1>4, <2>1 DEF Onward, To
    <3>2. QED
      BY <1>1, <1>4, <2>1, <3>1 DEF Told, Heard, Past, In, Command, WarmTime, WarmLoops, CommandNames
  <2>2. CASE i # N - 1
    <3>1. parent' = [pc |-> "start", i |-> i + 1]
      BY <1>4, <2>2 DEF Onward, To, In
    <3>2. QED
      BY <1>1, <1>4, <2>2, <3>1 DEF Told, Heard, Past, In, Command, WarmTime, WarmLoops, CommandNames
  <2>3. QED
    BY <2>1, <2>2
<1>5. CASE In("end") /\ line = "0" /\ Onward(N - 1, "final", 0)
  <2>1. CASE i = N - 1
    <3>1. parent' = [pc |-> "final", i |-> 0]
      BY <1>5, <2>1 DEF Onward, To
    <3>2. QED
      BY <1>1, <1>5, <2>1, <3>1 DEF Told, Heard, Past, In, Command, WarmTime, WarmLoops, CommandNames
  <2>2. CASE i # N - 1
    <3>1. parent' = [pc |-> "end", i |-> i + 1]
      BY <1>5, <2>2 DEF Onward, To, In
    <3>2. QED
      BY <1>1, <1>5, <2>2, <3>1 DEF Told, Heard, Past, In, Command, WarmTime, WarmLoops, CommandNames
  <2>3. QED
    BY <2>1, <2>2
<1>6. QED
  BY <1>2, <1>3, <1>4, <1>5 DEF TellsHere

\* What is said of the loops themselves stays true.
LEMMA TellPlaces ==
  ASSUME cfg \in Configs, Sane, cfg' = cfg, NEW i \in Workers, i = parent.i, NEW line, TellsHere(line),
         word' = word, exitcode' = exitcode
  PROVE  /\ parent' \in [pc : WarmLoops \cup RunLoops \cup LastSteps, i : Workers]
         /\ parent'.pc \in {"warmProducers", "doneProducers"} => parent'.i < cfg.producers
         /\ parent'.pc \in {"warmConsumers", "doneConsumers"} => parent'.i >= cfg.producers
         /\ Words' /\ Codes'
<1>1. /\ Workers = 0 .. N - 1 /\ N \in Nat /\ i \in Nat /\ cfg.producers \in Nat \ {0}
      /\ Consumers' = Consumers /\ Workers' = Workers /\ \A k \in Workers : k \in Nat
      /\ 0 \in Workers
  BY ConfigFacts, SameConfig DEF Workers
<1>2. Words /\ Codes
  BY DEF Sane
<1>3. PICK to \in {"spawn", "ready", "warm", "warmProducers", "start", "doneProducers", "end", "final"},
           h \in Workers :
        /\ parent' = [pc |-> to, i |-> h]
        /\ to \in {"warmProducers", "doneProducers", "ready", "final"} => h = 0
        /\ \/ In("spawn") /\ to \in {"spawn", "ready"}
           \/ In("warm")  /\ to \in {"warm", "warmProducers"}
           \/ In("start") /\ to \in {"start", "doneProducers"}
           \/ In("end")   /\ to \in {"end", "final"}
  <2>1. CASE i = N - 1
    BY <1>1, <2>1 DEF TellsHere, Onward, To
  <2>2. CASE i # N - 1
    <3>1. i + 1 \in Workers
      BY <1>1, <2>2
    <3>2. QED
      BY <2>2, <3>1 DEF TellsHere, Onward, To, In
  <2>3. QED
    BY <2>1, <2>2
<1>4. /\ parent' \in [pc : WarmLoops \cup RunLoops \cup LastSteps, i : Workers]
      /\ parent'.pc \in {"warmProducers", "doneProducers"} => parent'.i < cfg.producers
      /\ parent'.pc \in {"warmConsumers", "doneConsumers"} => parent'.i >= cfg.producers
  BY <1>1, <1>3 DEF WarmLoops, RunLoops
<1>5. Words'
  BY <1>1, <1>2, <1>3 DEF Words, In
<1>6. Codes'
  BY <1>1, <1>3 DEF Codes, LastSteps
<1>7. QED
  BY <1>4, <1>5, <1>6

\* A worker that run() has not heard of to the end lives.
LEMMA StillThere ==
  ASSUME cfg \in Configs, Sane, NEW k \in Workers, Told(k) <= 3, ~At(k, "unborn")
  PROVE  Lives(k)
<1>1. worker[k] \in WorkerType /\ Read(k) <= Told(k) /\ Told(k) \in Nat
  BY WorkerTypes DEF Sane, Pipes
<1>2. worker[k].pc # "exited"
  BY <1>1 DEF Read, Wrote, InPhase
<1>3. QED
  BY <1>1, <1>2 DEF Lives, Ended, At, WorkerType

\* A command reaches the worker, which has answered the one before it.
LEMMA TellStep ==
  ASSUME cfg \in Configs, Sane, Tell
  PROVE  Sane'
<1>1. PICK i \in Workers : i = parent.i
  BY DEF Sane, Types
<1>2. /\ cfg' = cfg /\ exitcode' = exitcode /\ warmTotal' = warmTotal
      /\ worker' = worker /\ outbox' = outbox /\ word' = word /\ ring' = ring
  BY DEF Tell
<1>3. ~At(i, "unborn")
  BY <1>1 DEF Tell, Sane, Pipes, In
<1>4. Told(i) <= 3
  BY <1>1, WorkerFacts DEF Tell, Told, Past, In
<1>5. Lives(i)
  BY <1>3, <1>4, StillThere
<1>6. PICK line : /\ TellsHere(line) /\ broken' = broken
                  /\ inbox' = [inbox EXCEPT ![i] = Append(inbox[i], line)]
  BY <1>1, <1>5 DEF Tell, Tells, TellsHere
<1>7. /\ Told(i) = Heard(i) /\ Told(i)' = Told(i) + 1 /\ Command(Told(i) + 1) = line
      /\ \A k \in Workers : Heard(k)' = Heard(k)
      /\ \A k \in Workers \ {i} : /\ Told(k)' = Told(k)
                                  /\ In("spawn") /\ k >= parent.i => In("spawn")' /\ k >= parent'.i
      /\ WarmTime' <=> WarmTime
      /\ line \in CommandNames /\ Told(i) \in 0 .. 3
  BY <1>1, <1>2, <1>6, TellMoves
<1>8. /\ parent' \in [pc : WarmLoops \cup RunLoops \cup LastSteps, i : Workers]
      /\ parent'.pc \in {"warmProducers", "doneProducers"} => parent'.i < cfg.producers
      /\ parent'.pc \in {"warmConsumers", "doneConsumers"} => parent'.i >= cfg.producers
      /\ Words' /\ Codes'
  BY <1>1, <1>2, <1>6, TellPlaces
<1>9. /\ Queued' /\ Received' /\ Room' /\ Drained' /\ Workers' = Workers
      /\ \A k \in Workers : Wrote(k)' = Wrote(k) /\ Read(k)' = Read(k)
  BY <1>2, <1>7, ParentData
<1>10. Count'
  BY <1>2, <1>7, ParentCount, WorkerFacts
<1>11. \A k \in Workers : Works(k)'
  BY <1>2, <1>7, ParentWorks
<1>12. /\ inbox[i] = <<>> /\ Read(i) = Told(i) /\ inbox \in [Workers -> Seq(CommandNames)]
  <2>1. Pipes(i) /\ inbox \in [Workers -> Seq(CommandNames)]
    BY DEF Sane, Types
  <2>2. Wrote(i) \in 0 .. 4 /\ Heard(i) \in 0 .. 4
    BY WorkerTypes
  <2>3. QED
    BY <1>7, <2>1, <2>2 DEF Pipes, Read
<1>13. /\ inbox' \in [Workers -> Seq(CommandNames)] /\ inbox'[i] = <<line>>
       /\ \A k \in Workers \ {i} : inbox'[k] = inbox[k]
  BY <1>6, <1>7, <1>12
<1>14. Types'
  BY <1>2, <1>6, <1>8, <1>9, <1>13 DEF Sane, Types
<1>15. ASSUME NEW k \in Workers
       PROVE  Pipes(k)'
  <2>1. Pipes(k)
    BY DEF Sane
  <2>2. At(k, "unborn")' <=> At(k, "unborn")
    BY <1>2 DEF At
  <2>3. CASE k = i
    <3>1. ~At(k, "unborn")' /\ Heard(k)' = Heard(k) /\ Wrote(k)' = Wrote(k) /\ Read(k)' = Read(k)
          /\ Told(k)' = Told(k) + 1 /\ Told(k) = Heard(k) /\ Read(k) = Told(k) /\ Told(k) \in Nat
          /\ outbox'[k] = outbox[k] /\ inbox'[k] = <<line>>
      BY <1>2, <1>3, <1>7, <1>9, <1>12, <1>13, <2>2, <2>3
    <3>2. Command(Told(k))' = line
      BY <1>7, <2>3 DEF Command
    <3>3. QED
      BY <2>1, <3>1, <3>2 DEF Pipes
  <2>4. CASE k # i
    <3>1. /\ Heard(k)' = Heard(k) /\ Wrote(k)' = Wrote(k) /\ Read(k)' = Read(k) /\ Told(k)' = Told(k)
          /\ outbox'[k] = outbox[k] /\ inbox'[k] = inbox[k]
          /\ In("spawn") /\ k >= parent.i => In("spawn")' /\ k >= parent'.i
      BY <1>2, <1>7, <1>9, <1>13, <2>4
    <3>2. QED
      BY <2>1, <2>2, <3>1 DEF Pipes
  <2>5. QED
    BY <2>3, <2>4
<1>16. QED
  BY <1>8, <1>9, <1>10, <1>11, <1>14, <1>15 DEF Sane

\* The loops that wait for a record.
Stages == {"ready", "warmProducers", "warmConsumers", "doneProducers", "doneConsumers", "final"}
LEMMA AwaitedStages == Awaited <=> parent.pc \in Stages
BY DEF Awaited, Wanted, In, Stages

\* The record of worker i is the one that is wanted, and the only one.
LEMMA LineFacts ==
  ASSUME cfg \in Configs, Sane, NEW i \in Workers, i = parent.i, Awaited, outbox[i] # <<>>
  PROVE  /\ Heard(i) = (IF In("ready") THEN 0
                        ELSE IF parent.pc \in {"warmProducers", "warmConsumers"} THEN 1
                        ELSE IF In("final") THEN 3 ELSE 2)
         /\ Wrote(i) = Heard(i) + 1 /\ ~InPhase(i)
         /\ Head(outbox[i]).event = Wanted /\ Head(outbox[i]).count \in Nat
         /\ Tail(outbox[i]) = <<>>
         /\ In("warmProducers") => Head(outbox[i]).count = WarmShare
<1>1. Pipes(i) /\ Works(i)
  BY DEF Sane
<1>2. /\ Wrote(i) \in 0 .. 4 /\ Heard(i) \in 0 .. 4 /\ Told(i) \in 0 .. 4 /\ i \in Nat
      /\ Head(outbox[i]) \in [event : EventNames, count : Nat]
      /\ outbox[i] \in Seq([event : EventNames, count : Nat])
  BY WorkerTypes
<1>3. parent.pc \in Stages
  BY AwaitedStages
<1>4. Heard(i) = (IF In("ready") THEN 0
                  ELSE IF parent.pc \in {"warmProducers", "warmConsumers"} THEN 1
                  ELSE IF In("final") THEN 3 ELSE 2)
  BY <1>2, <1>3 DEF Heard, Past, In, Stages
<1>5. Heard(i) < Wrote(i) /\ Len(outbox[i]) = 1 /\ Head(outbox[i]).event = Event(Wrote(i))
  BY <1>1 DEF Pipes
<1>6. Wrote(i) = Heard(i) + 1 /\ ~InPhase(i)
  BY <1>1, <1>2, <1>5 DEF Pipes, Read
<1>7. Head(outbox[i]).event = Wanted
  <2>1. Event(Wrote(i)) = Wanted
    BY <1>3, <1>4, <1>6 DEF Event, Wanted, In, Stages
  <2>2. QED
    BY <1>5, <2>1
<1>8. Tail(outbox[i]) = <<>>
  <2> DEFINE R == [event : EventNames, count : Nat]
             s == outbox[i]
  <2>1. s \in Seq(R) /\ Len(s) = 1 /\ s # <<>>
    BY <1>2, <1>5
  <2> HIDE DEF R, s
  <2>2. Tail(s) = <<>>
    <3>1. Tail(s) \in Seq(R) /\ Len(Tail(s)) = 0
      BY <2>1
    <3>2. QED
      BY Zenon, <3>1, EmptySeq
  <2>3. QED
    BY <2>2 DEF s
<1>9. In("warmProducers") => Head(outbox[i]).count = WarmShare
  <2>1. ASSUME In("warmProducers")
        PROVE  IsProducer(i) /\ Heard(i) = 1 /\ Wrote(i) = 2
    <3>1. parent.i < cfg.producers
      BY <2>1 DEF Sane, Types, In
    <3>2. QED
      BY <1>4, <1>6, <2>1, <3>1 DEF IsProducer, In
  <2>2. QED
    BY <1>1, <2>1 DEF Works, Sends
<1>10. QED
  BY <1>2, <1>4, <1>6, <1>7, <1>8, <1>9

\* Where it goes on after a record, within a phase.
HearsHere ==
  \/ In("ready") /\ Onward(N - 1, "warm", 0)
  \/ In("warmProducers") /\ Onward(P - 1, "warmConsumers", P)
  \/ In("warmConsumers") /\ parent.i # N - 1 /\ To("warmConsumers", parent.i + 1)
  \/ In("doneProducers") /\ Onward(P - 1, "doneConsumers", P)
  \/ In("doneConsumers") /\ Onward(N - 1, "end", 0)
  \/ In("final") /\ To("reap", parent.i)
Heed ==
  IF parent.i = P - 1 /\ In("warmProducers") THEN SetWords(1)
  ELSE IF parent.i = P - 1 /\ In("doneProducers") THEN SetWords(2)
  ELSE UNCHANGED word

\* The next place.
LEMMA HearsWhere ==
  ASSUME cfg \in Configs, Sane, NEW i \in Workers, i = parent.i, HearsHere
  PROVE  \/ In("ready") /\ i # N - 1 /\ parent' = [pc |-> "ready", i |-> i + 1]
         \/ In("ready") /\ i = N - 1 /\ parent' = [pc |-> "warm", i |-> 0]
         \/ In("warmProducers") /\ i # P - 1 /\ parent' = [pc |-> "warmProducers", i |-> i + 1]
         \/ In("warmProducers") /\ i = P - 1 /\ parent' = [pc |-> "warmConsumers", i |-> P]
         \/ In("warmConsumers") /\ i # N - 1 /\ parent' = [pc |-> "warmConsumers", i |-> i + 1]
         \/ In("doneProducers") /\ i # P - 1 /\ parent' = [pc |-> "doneProducers", i |-> i + 1]
         \/ In("doneProducers") /\ i = P - 1 /\ parent' = [pc |-> "doneConsumers", i |-> P]
         \/ In("doneConsumers") /\ i # N - 1 /\ parent' = [pc |-> "doneConsumers", i |-> i + 1]
         \/ In("doneConsumers") /\ i = N - 1 /\ parent' = [pc |-> "end", i |-> 0]
         \/ In("final") /\ parent' = [pc |-> "reap", i |-> i]
BY DEF HearsHere, Onward, To, In

LEMMA HearsMoves ==
  ASSUME cfg \in Configs, Sane, cfg' = cfg, NEW i \in Workers, i = parent.i, HearsHere
  PROVE  /\ Heard(i)' = Heard(i) + 1 /\ \A k \in Workers \ {i} : Heard(k)' = Heard(k)
         /\ \A k \in Workers : Told(k)' = Told(k) /\ ~At(k, "unborn")
         /\ WarmTime' <=> WarmTime
         /\ parent' \in [pc : WarmLoops \cup RunLoops \cup LastSteps, i : Workers]
         /\ parent'.pc \in {"warmProducers", "doneProducers"} => parent'.i < cfg.producers
         /\ parent'.pc \in {"warmConsumers", "doneConsumers"} => parent'.i >= cfg.producers
<1>1. /\ Workers = 0 .. N - 1 /\ N \in Nat /\ i \in Nat /\ \A k \in Workers : k \in Nat
      /\ cfg.producers \in Nat \ {0} /\ cfg.consumers \in Nat \ {0} /\ N = cfg.producers + cfg.consumers
  BY ConfigFacts DEF Workers
<1>2. \A k \in Workers : ~At(k, "unborn")
  BY DEF Sane, Pipes, HearsHere, In
<1>3. /\ parent.pc \in {"warmProducers", "doneProducers"} => i < cfg.producers
      /\ parent.pc \in {"warmConsumers", "doneConsumers"} => i >= cfg.producers
  BY DEF Sane, Types
<1>4. /\ parent' \in [pc : WarmLoops \cup RunLoops \cup LastSteps, i : Workers]
      /\ parent'.pc \in {"warmProducers", "doneProducers"} => parent'.i < cfg.producers
      /\ parent'.pc \in {"warmConsumers", "doneConsumers"} => parent'.i >= cfg.producers
      /\ WarmTime' <=> WarmTime
  BY <1>1, <1>3, HearsWhere DEF WarmTime, WarmLoops, RunLoops, P, In
<1>5. ASSUME NEW k \in Workers
      PROVE  Told(k)' = Told(k)
  BY <1>1, <1>3, HearsWhere DEF Told, Past, In
<1>6. ASSUME NEW k \in Workers
      PROVE  Heard(k)' = IF k = i THEN Heard(k) + 1 ELSE Heard(k)
  <2>1. k \in Nat /\ k <= N - 1
    BY <1>1
  <2>2. CASE In("ready")
    BY <1>1, <2>1, <2>2, HearsWhere DEF Heard, Past, In
  <2>3. CASE parent.pc \in {"warmProducers", "warmConsumers"}
    BY <1>1, <1>3, <2>1, <2>3, HearsWhere DEF Heard, Past, In, P
  <2>4. CASE parent.pc \in {"doneProducers", "doneConsumers"}
    BY <1>1, <1>3, <2>1, <2>4, HearsWhere DEF Heard, Past, In, P
  <2>5. CASE In("final")
    BY <1>1, <2>1, <2>5, HearsWhere DEF Heard, Past, In
  <2>6. QED
    BY <2>2, <2>3, <2>4, <2>5 DEF HearsHere, In
<1>7. QED
  BY <1>2, <1>4, <1>5, <1>6

\* The words follow, and no worker has believed a word before its time.
LEMMA HearsWords ==
  ASSUME cfg \in Configs, Sane, cfg' = cfg, NEW i \in Workers, i = parent.i, HearsHere, Heed,
         exitcode' = exitcode, worker' = worker
  PROVE  /\ Words' /\ Codes' /\ word' \in [Workers -> Nat]
         /\ \A k \in Workers : \/ IsProducer(k) \/ word'[k] = word[k]
                               \/ ~InPhase(k) \/ worker[k].look # "last"
<1>1. /\ Consumers' = Consumers /\ Workers' = Workers /\ Consumers \subseteq Workers
      /\ \A k \in Workers : k \in Consumers <=> ~IsProducer(k)
  BY SameConfig, WorkerFacts
<1>2. Words /\ Codes /\ word \in [Workers -> Nat]
  BY DEF Sane, Types
<1>3. CASE In("warmProducers") /\ i = P - 1
  <2>1. word' = [k \in Workers |-> IF IsProducer(k) THEN word[k] ELSE 1]
    BY <1>3 DEF Heed, SetWords
  <2>2. parent' = [pc |-> "warmConsumers", i |-> P]
    BY <1>3, HearsWhere DEF In
  <2>3. Words' /\ word' \in [Workers -> Nat]
    BY <1>1, <1>2, <2>1, <2>2 DEF Words
  <2>4. ASSUME NEW k \in Workers, ~IsProducer(k), InPhase(k)
        PROVE  worker[k].look # "last"
    <3>1. word[k] = 0
      BY <1>1, <1>2, <1>3, <2>4 DEF Words, In
    <3>2. worker[k].look = "last" => word[k] \in {1, 2}
      BY <2>4 DEF Sane, Works, Looks, FinalWord
    <3>3. QED
      BY <3>1, <3>2
  <2>5. Codes'
    BY <1>1, <2>2 DEF Codes, LastSteps
  <2>6. QED
    BY <2>3, <2>4, <2>5
<1>4. CASE In("doneProducers") /\ i = P - 1
  <2>1. word' = [k \in Workers |-> IF IsProducer(k) THEN word[k] ELSE 2]
    BY <1>4 DEF Heed, SetWords, In
  <2>2. parent' = [pc |-> "doneConsumers", i |-> P]
    BY <1>4, HearsWhere DEF In
  <2>3. Words' /\ word' \in [Workers -> Nat]
    BY <1>1, <1>2, <2>1, <2>2 DEF Words
  <2>4. ASSUME NEW k \in Workers, ~IsProducer(k), InPhase(k)
        PROVE  worker[k].look # "last"
    <3>1. word[k] = 1
      BY <1>1, <1>2, <1>4, <2>4 DEF Words, In
    <3>2. ~WarmTime
      BY <1>4 DEF WarmTime, WarmLoops, In
    <3>3. worker[k].look = "last" => word[k] = 2
      BY <2>4, <3>2 DEF Sane, Works, Looks, FinalWord
    <3>4. QED
      BY <3>1, <3>3
  <2>5. Codes'
    BY <1>1, <2>2 DEF Codes, LastSteps
  <2>6. QED
    BY <2>3, <2>4, <2>5
<1>5. CASE ~(In("warmProducers") /\ i = P - 1) /\ ~(In("doneProducers") /\ i = P - 1)
  <2>1. word' = word
    BY <1>5 DEF Heed
  <2>2. Words'
    BY <1>1, <1>2, <1>5, <2>1, HearsWhere DEF Words, In
  <2>3. Codes'
    BY <1>1, <1>2, <1>5, HearsWhere DEF Codes, LastSteps, In
  <2>4. QED
    BY <1>2, <2>1, <2>2, <2>3
<1>6. QED
  BY <1>3, <1>4, <1>5

\* A record leaves its pipe.
LEMMA LineTypes ==
  ASSUME cfg \in Configs, Sane, NEW i \in Workers, Tail(outbox[i]) = <<>>,
         outbox' = [outbox EXCEPT ![i] = Tail(outbox[i])]
  PROVE  /\ outbox' \in [Workers -> Seq([event : EventNames, count : Nat])] /\ outbox'[i] = <<>>
         /\ \A k \in Workers \ {i} : outbox'[k] = outbox[k]
<1> DEFINE R == [event : EventNames, count : Nat]
<1>1. outbox \in [Workers -> Seq(R)]
  BY DEF Sane, Types
<1> HIDE DEF R
<1>2. Tail(outbox[i]) \in Seq(R)
  BY EmptySeq
<1>3. outbox' \in [Workers -> Seq(R)] /\ outbox'[i] = <<>>
      /\ \A k \in Workers \ {i} : outbox'[k] = outbox[k]
  BY <1>1, <1>2
<1>4. QED
  BY <1>3 DEF R

\* A consumer's report of the warm-up takes what it got out of the sum.
LEMMA WarmReport ==
  ASSUME cfg \in Configs, Sane, cfg' = cfg, worker' = worker, ring' = ring, WarmTime' <=> WarmTime,
         NEW i \in Workers, i = parent.i, In("warmConsumers"), Heard(i) = 1, Wrote(i) = 2, ~InPhase(i),
         Heard(i)' = 2, outbox'[i] = <<>>,
         \A k \in Workers \ {i} : Heard(k)' = Heard(k) /\ outbox'[k] = outbox[k],
         warmTotal' = warmTotal + Head(outbox[i]).count
  PROVE  Count'
<1>1. WarmTime /\ Count /\ i \in Consumers /\ parent.i >= cfg.producers
  <2>1. parent.i >= cfg.producers
    BY DEF Sane, Types, In
  <2>2. i \in Nat /\ cfg.producers \in Nat
    BY WorkerTypes, ConfigFacts
  <2>3. i \in Consumers
    BY <2>1, <2>2 DEF Consumers, IsProducer
  <2>4. QED
    BY <2>1, <2>3 DEF Sane, WarmTime, WarmLoops, In
<1>2. /\ Consumers' = Consumers /\ MadeRegion' = MadeRegion /\ Queue' = Queue
      /\ \A k \in Workers : /\ Wrote(k)' = Wrote(k) /\ Lease(k)' = Lease(k)
                            /\ Warm(k)' <=> Warm(k)
  BY ParentData
<1> DEFINE f == [k \in Consumers |-> Got(k)]
           g == [k \in Consumers |-> Got(k)']
<1>3. Got(i) = Head(outbox[i]).count /\ Got(i)' = 0
  <2>1. ~Warm(i)
    BY DEF Warm, At, InPhase
  <2>2. QED
    BY <1>2, <2>1 DEF Got
<1>4. \A k \in Consumers \ {i} : Got(k)' = Got(k)
  <2>1. ASSUME NEW k \in Consumers \ {i}
        PROVE  Got(k)' = Got(k)
    <3>1. k \in Workers \ {i}
      BY WorkerFacts
    <3>2. QED
      BY <1>2, <3>1 DEF Got, Holding, None
  <2>2. QED
    BY <2>1
<1>5. \A k \in Consumers : Got(k) \in Nat
  BY WorkerFacts, WorkerTypes
<1>6. f \in [Consumers -> Nat] /\ g \in [Consumers -> Nat]
  <2>1. \A k \in Consumers : Got(k)' \in Nat
    BY <1>3, <1>4, <1>5
  <2>2. QED
    BY <1>5, <2>1
<1>7. g[i] = 0 /\ f[i] = Head(outbox[i]).count /\ \A k \in Consumers \ {i} : g[k] = f[k]
  BY <1>1, <1>3, <1>4
<1>8. GotRegion = Region(Consumers, f) /\ GotRegion' = Region(Consumers, g)
  BY <1>2 DEF GotRegion, Region
<1> HIDE DEF f, g
<1>9. /\ IsFiniteSet(MadeRegion) /\ IsFiniteSet(GotRegion)
      /\ Cardinality(MadeRegion) = Cardinality(GotRegion) + Len(Queue) + warmTotal
  BY <1>1 DEF Count
<1>10. IsFiniteSet(GotRegion') /\ Cardinality(GotRegion) = Cardinality(GotRegion') + f[i]
  BY <1>1, <1>6, <1>7, <1>8, <1>9, RegionOut
<1>11. Cardinality(GotRegion') \in Nat /\ f[i] \in Nat /\ warmTotal \in Nat /\ Len(Queue) \in Nat
  BY <1>1, <1>6, <1>10, FS_CardinalityType DEF Sane, Types, Queue
<1>12. Cardinality(MadeRegion') = Cardinality(GotRegion') + Len(Queue') + warmTotal'
  <2>1. Cardinality(MadeRegion) = (Cardinality(GotRegion') + f[i]) + Len(Queue) + warmTotal
    BY <1>9, <1>10
  <2>2. warmTotal' = warmTotal + f[i]
    BY <1>7
  <2> DEFINE c == Cardinality(GotRegion')
             d == f[i]
             l == Len(Queue)
  <2>3. c \in Nat /\ d \in Nat /\ l \in Nat
    BY <1>11
  <2> HIDE DEF c, d, l
  <2>4. (c + d) + l + warmTotal = c + l + (warmTotal + d)
    BY <1>11, <2>3
  <2>5. QED
    BY <1>2, <2>1, <2>2, <2>4 DEF c, d, l
<1>13. QED
  BY <1>1, <1>2, <1>9, <1>10, <1>12 DEF Count

\* With the last report the workers have all finished the warm-up and wait for the
\* start, the ring is empty and the count is right.
LEMMA WarmUpAddsUp ==
  ASSUME cfg \in Configs, Sane, NEW i \in Workers, i = parent.i, i = N - 1, In("warmConsumers"),
         Heard(i) = 1, Wrote(i) = 2, ~InPhase(i)
  PROVE  /\ warmTotal + Head(outbox[i]).count = cfg.warmup
         /\ Queue = <<>> /\ \A k \in Workers : Fresh(k) /\ ~InPhase(k) /\ Wrote(k) = 2 /\ ~At(k, "unborn")
<1>1. WarmTime /\ Count /\ Drained
  BY DEF Sane, WarmTime, WarmLoops, In
<1>2. /\ Workers = 0 .. N - 1 /\ N \in Nat /\ i \in Nat /\ \A k \in Workers : k \in Nat
      /\ cfg.producers \in Nat \ {0} /\ cfg.consumers \in Nat \ {0} /\ N = cfg.producers + cfg.consumers
      /\ WarmShare \in Nat /\ WarmShare * cfg.producers = cfg.warmup
  BY ConfigFacts DEF Workers
<1>3. ASSUME NEW k \in Workers
      PROVE  /\ Fresh(k) /\ ~InPhase(k) /\ Wrote(k) = 2 /\ ~At(k, "unborn")
             /\ k # i => Heard(k) = 2
  <2>1. Pipes(k) /\ worker[k] \in WorkerType
    BY WorkerTypes DEF Sane
  <2>2. Wrote(k) \in 0 .. 4 /\ k \in Nat /\ k <= N - 1
    BY <1>2, WorkerTypes
  <2>3. k # i => Heard(k) = 2
    BY <1>2, <2>2 DEF Heard, Past, In
  <2>4. Told(k) = 2
    BY DEF Told, In
  <2>5. Wrote(k) = 2 /\ Read(k) = 2
    <3>1. CASE k = i
      BY <2>1, <2>4, <3>1 DEF Pipes, Read
    <3>2. CASE k # i
      BY <2>1, <2>2, <2>3, <2>4, <3>2 DEF Pipes, Read
    <3>3. QED
      BY <3>1, <3>2
  <2>6. QED
    BY <2>1, <2>3, <2>5 DEF Read, Wrote, InPhase, Fresh, WorkerType, At
<1>4. i \in Consumers
  BY <1>2 DEF Consumers, IsProducer
<1>5. Queue = <<>>
  BY <1>1, <1>3, <1>4, WorkerFacts DEF Drained, PhaseRecord
<1>6. Cardinality(MadeRegion) = cfg.warmup
  <2> DEFINE f == [k \in Producers |-> Made(k)]
             p == cfg.producers
  <2>1. \A k \in Producers : Made(k) = WarmShare
    BY <1>1, <1>3, WorkerFacts DEF Made
  <2>2. Producers = 0 .. p - 1 /\ p \in Nat
    BY <1>2, WorkerFacts
  <2>3. f \in [0 .. p - 1 -> Nat] /\ \A k \in 0 .. p - 1 : f[k] = WarmShare
    BY <1>2, <2>1, <2>2
  <2>4. MadeRegion = Region(0 .. p - 1, f)
    BY <2>2 DEF MadeRegion
  <2> HIDE DEF f, p
  <2>5. Cardinality(MadeRegion) = WarmShare * p
    BY <1>2, <2>2, <2>3, <2>4, RegionFull
  <2>6. QED
    BY <1>2, <2>5 DEF p
<1>7. Cardinality(GotRegion) = Head(outbox[i]).count /\ Head(outbox[i]).count \in Nat
  <2> DEFINE f == [k \in Consumers |-> Got(k)]
  <2>1. \A k \in Workers : ~Warm(k)
    BY <1>3 DEF Warm, At, InPhase
  <2>2. \A k \in Consumers \ {i} : Got(k) = 0
    BY <1>3, <2>1, WorkerFacts DEF Got
  <2>3. Got(i) = Head(outbox[i]).count
    BY <2>1 DEF Got
  <2>4. f \in [Consumers -> Nat]
    BY RegionTypes
  <2>5. f[i] = Head(outbox[i]).count /\ \A k \in Consumers \ {i} : f[k] = 0
    BY <1>4, <2>2, <2>3
  <2>6. GotRegion = Region(Consumers, f) /\ IsFiniteSet(GotRegion)
    BY <1>1 DEF GotRegion, Count
  <2> HIDE DEF f
  <2>7. Cardinality(GotRegion) = f[i] /\ f[i] \in Nat
    BY <1>4, <2>4, <2>5, <2>6, RegionOnly
  <2>8. QED
    BY <2>5, <2>7
<1>8. warmTotal + Head(outbox[i]).count = cfg.warmup
  <2>1. Cardinality(MadeRegion) = Cardinality(GotRegion) + Len(Queue) + warmTotal
    BY <1>1 DEF Count
  <2>2. Len(Queue) = 0 /\ warmTotal \in Nat
    BY <1>5 DEF Sane, Types
  <2>3. QED
    BY <1>6, <1>7, <2>1, <2>2
<1>9. QED
  BY <1>3, <1>5, <1>8

\* Then run() starts the phase that counts, from a clean slate.
LEMMA SwitchStep ==
  ASSUME cfg \in Configs, Sane, cfg' = cfg, worker' = worker, inbox' = inbox, ring' = ring, word' = word,
         exitcode' = exitcode, broken' = broken,
         NEW i \in Workers, i = parent.i, i = N - 1, In("warmConsumers"),
         Heard(i) = 1, Wrote(i) = 2, ~InPhase(i),
         parent' = [pc |-> "start", i |-> 0], outbox'[i] = <<>>,
         \A k \in Workers \ {i} : outbox'[k] = outbox[k],
         outbox' \in [Workers -> Seq([event : EventNames, count : Nat])],
         warmTotal' = warmTotal + Head(outbox[i]).count
  PROVE  Sane'
<1>1. /\ warmTotal' = cfg.warmup
      /\ Queue = <<>> /\ \A k \in Workers : Fresh(k) /\ ~InPhase(k) /\ Wrote(k) = 2 /\ ~At(k, "unborn")
  BY WarmUpAddsUp
<1>2. /\ Workers' = Workers /\ Producers' = Producers /\ Consumers' = Consumers
      /\ RunShare' = RunShare /\ WarmShare' = WarmShare
      /\ \A k \in Workers : IsProducer(k)' <=> IsProducer(k)
  BY SameConfig
<1>3. /\ Workers = 0 .. N - 1 /\ N \in Nat /\ \A k \in Workers : k \in Nat
      /\ 0 \in Workers /\ RunShare \in Nat /\ cfg.warmup \in Nat
  BY ConfigFacts DEF Workers
<1>4. WarmTime /\ ~WarmTime' /\ Share' = RunShare
  BY <1>2 DEF WarmTime, WarmLoops, Share, In
<1>5. Queue' = <<>>
  BY <1>1 DEF Queue
<1>6. ASSUME NEW k \in Workers
      PROVE  /\ Heard(k)' = 2 /\ Told(k) = 2 /\ Told(k)' = 2 /\ Wrote(k)' = 2 /\ Read(k)' = 2 /\ Read(k) = 2
             /\ Fresh(k)' /\ ~InPhase(k)' /\ ~Warm(k)' /\ ~At(k, "unborn")' /\ Lease(k)' = Lease(k)
  <2>1. k \in Nat
    BY <1>3
  <2>2. Heard(k)' = 2 /\ Told(k)' = 2 /\ Told(k) = 2
    BY <2>1 DEF Heard, Told, Past, In
  <2>3. /\ Wrote(k)' = 2 /\ Fresh(k)' /\ ~InPhase(k)' /\ ~Warm(k)' /\ ~At(k, "unborn")'
        /\ Lease(k)' = Lease(k)
    BY <1>1 DEF Wrote, Fresh, InPhase, Warm, At, Lease
  <2>4. Read(k)' = 2 /\ Read(k) = 2
    BY <1>1, <2>3 DEF Read
  <2>5. QED
    BY <2>2, <2>3, <2>4
<1>7. \A k \in Workers : /\ Lease(k) = None /\ worker[k].got = 0 /\ worker[k].bits = {}
                         /\ worker[k].look = "no"
  BY <1>1 DEF Sane, Works, Rests
<1>8. ASSUME NEW k \in Workers
      PROVE  Pipes(k)'
  <2>1. Pipes(k) /\ Heard(k) \in 0 .. 4
    BY WorkerTypes DEF Sane
  <2>2. k # i => Heard(k) = 2
    <3>1. k \in Nat /\ k <= N - 1
      BY <1>3
    <3>2. QED
      BY <1>3, <3>1 DEF Heard, Past, In
  <2>3. inbox[k] = <<>>
    BY <1>6, <2>1 DEF Pipes
  <2>4. outbox'[k] = <<>>
    <3>1. CASE k = i
      BY <3>1
    <3>2. CASE k # i
      BY <1>1, <2>1, <2>2, <3>2 DEF Pipes
    <3>3. QED
      BY <3>1, <3>2
  <2>5. QED
    BY <1>6, <2>3, <2>4 DEF Pipes
<1>9. ASSUME NEW k \in Workers
      PROVE  Works(k)'
  <2>1. Lease(k)' = None'
    BY <1>6, <1>7 DEF None
  <2>2. Rests(k)'
    BY <1>6, <1>7, <2>1 DEF Rests
  <2>3. Sends(k)' /\ Looks(k)'
    BY <1>6, <2>1 DEF Sends, Looks
  <2>4. QED
    BY <2>2, <2>3 DEF Works
<1>10. Types'
  <2>1. /\ parent' \in [pc : WarmLoops \cup RunLoops \cup LastSteps, i : Workers]
        /\ parent'.pc \notin {"warmProducers", "doneProducers", "warmConsumers", "doneConsumers"}
    BY <1>3 DEF RunLoops
  <2>2. QED
    BY <1>1, <1>2, <1>3, <2>1 DEF Sane, Types
<1>11. Words'
  <2>1. Words
    BY DEF Sane
  <2>2. QED
    BY <1>2, <2>1 DEF Words, In
<1>12. IdsMade' = {}
  <2>1. \A k \in Producers : Made(k)' = 0
    BY <1>4, <1>7, WorkerFacts DEF Made
  <2>2. QED
    BY <1>2, <2>1 DEF IdsMade
<1>13. Queued'
  BY <1>5 DEF Queued
<1>14. Received'
  <2>1. \A k \in Consumers : worker'[k].bits = {}
    BY <1>7, WorkerFacts
  <2>2. QED
    BY <1>2, <1>12, <2>1 DEF Received
<1>15. Drained'
  BY <1>2, <1>4, <1>6, WorkerFacts DEF Drained, PhaseRecord
<1>16. Room'
  <2>1. Leasing' = Leasing
    BY <1>2, <1>6 DEF Leasing, None
  <2>2. QED
    BY <1>1, <1>5, <2>1 DEF Sane, Room
<1>17. Count'
  BY <1>1, <1>4 DEF Count
<1>18. Codes'
  BY DEF Codes, LastSteps
<1>19. QED
  BY <1>2, <1>8, <1>9, <1>10, <1>11, <1>13, <1>14, <1>15, <1>16, <1>17, <1>18 DEF Sane

\* A record within a phase.
LEMMA HearStep ==
  ASSUME cfg \in Configs, Sane, cfg' = cfg, worker' = worker, inbox' = inbox, ring' = ring,
         exitcode' = exitcode, broken' = broken,
         NEW i \in Workers, i = parent.i, HearsHere, Heed, Awaited, outbox[i] # <<>>,
         outbox' = [outbox EXCEPT ![i] = Tail(outbox[i])],
         warmTotal' = IF In("warmConsumers") THEN warmTotal + Head(outbox[i]).count ELSE warmTotal
  PROVE  Sane'
<1>1. /\ Heard(i) = (IF In("ready") THEN 0
                     ELSE IF parent.pc \in {"warmProducers", "warmConsumers"} THEN 1
                     ELSE IF In("final") THEN 3 ELSE 2)
      /\ Wrote(i) = Heard(i) + 1 /\ ~InPhase(i)
      /\ Head(outbox[i]).count \in Nat /\ Tail(outbox[i]) = <<>>
  BY LineFacts
<1>2. /\ outbox' \in [Workers -> Seq([event : EventNames, count : Nat])] /\ outbox'[i] = <<>>
      /\ \A k \in Workers \ {i} : outbox'[k] = outbox[k]
  BY <1>1, LineTypes
<1>3. /\ Heard(i)' = Heard(i) + 1 /\ \A k \in Workers \ {i} : Heard(k)' = Heard(k)
      /\ \A k \in Workers : Told(k)' = Told(k) /\ ~At(k, "unborn")
      /\ WarmTime' <=> WarmTime
      /\ parent' \in [pc : WarmLoops \cup RunLoops \cup LastSteps, i : Workers]
      /\ parent'.pc \in {"warmProducers", "doneProducers"} => parent'.i < cfg.producers
      /\ parent'.pc \in {"warmConsumers", "doneConsumers"} => parent'.i >= cfg.producers
  BY HearsMoves
<1>4. /\ Words' /\ Codes' /\ word' \in [Workers -> Nat]
      /\ \A k \in Workers : \/ IsProducer(k) \/ word'[k] = word[k]
                            \/ ~InPhase(k) \/ worker[k].look # "last"
  BY HearsWords
<1>5. /\ Queued' /\ Received' /\ Room' /\ Drained' /\ Workers' = Workers
      /\ \A k \in Workers : Wrote(k)' = Wrote(k) /\ Read(k)' = Read(k)
  BY <1>3, ParentData
<1>6. \A k \in Workers : Works(k)'
  <2>1. \A k \in Workers : (Heard(k)' = Heard(k) /\ outbox'[k] = outbox[k]) \/ Heard(k)' = Wrote(k)
    BY <1>1, <1>2, <1>3
  <2>2. QED
    BY <1>3, <1>4, <2>1, ParentWorks
<1>7. Count'
  <2>1. CASE In("warmConsumers")
    <3>1. Heard(i) = 1 /\ Wrote(i) = 2 /\ Heard(i)' = 2
      BY <1>1, <1>3, <2>1 DEF In
    <3>2. warmTotal' = warmTotal + Head(outbox[i]).count
      BY <2>1
    <3>3. QED
      BY <1>1, <1>2, <1>3, <2>1, <3>1, <3>2, WarmReport
  <2>2. CASE ~In("warmConsumers")
    <3>1. ASSUME WarmTime, NEW k \in Consumers
          PROVE  (Heard(k)' = Heard(k) /\ outbox'[k] = outbox[k]) \/ Wrote(k) # 2
      <4>1. k \in Workers /\ ~IsProducer(k)
        BY WorkerFacts
      <4>2. CASE k # i
        BY <1>2, <1>3, <4>1, <4>2
      <4>3. CASE k = i
        <5>1. ~In("warmProducers")
          BY <4>1, <4>3 DEF Sane, Types, In, IsProducer
        <5>2. In("ready")
          BY <2>2, <3>1, <5>1, AwaitedStages DEF Stages, WarmTime, WarmLoops, In
        <5>3. QED
          BY <1>1, <4>3, <5>2
      <4>4. QED
        BY <4>2, <4>3
    <3>2. warmTotal' = warmTotal
      BY <2>2
    <3>3. QED
      BY <1>3, <3>1, <3>2, ParentCount
  <2>3. QED
    BY <2>1, <2>2
<1>8. warmTotal' \in Nat
  <2>1. warmTotal \in Nat
    BY DEF Sane, Types
  <2>2. QED
    BY <1>1, <2>1
<1>9. Types'
  BY <1>2, <1>3, <1>4, <1>5, <1>8 DEF Sane, Types
<1>10. ASSUME NEW k \in Workers
       PROVE  Pipes(k)'
  <2>1. Pipes(k)
    BY DEF Sane
  <2>2. /\ Told(k)' = Told(k) /\ Wrote(k)' = Wrote(k) /\ Read(k)' = Read(k) /\ ~At(k, "unborn")'
    BY <1>3, <1>5 DEF At
  <2>3. CASE k = i
    <3>1. /\ Heard(k)' = Heard(k) + 1 /\ Wrote(k) = Heard(k) + 1 /\ outbox'[k] = <<>>
          /\ Heard(k) \in 0 .. 4 /\ Told(k) \in 0 .. 4
      BY <1>1, <1>2, <1>3, <2>3, WorkerTypes
    <3>2. ~InPhase(k)
      BY <1>1, <2>3
    <3>3. Read(k) = Wrote(k)
      BY <3>2 DEF Read
    <3>4. QED
      BY <2>1, <2>2, <3>1, <3>3 DEF Pipes
  <2>4. CASE k # i
    <3>1. Heard(k)' = Heard(k) /\ outbox'[k] = outbox[k]
      BY <1>2, <1>3, <2>4
    <3>2. QED
      BY <2>1, <2>2, <3>1 DEF Pipes
  <2>5. QED
    BY <2>3, <2>4
<1>11. QED
  BY <1>4, <1>5, <1>6, <1>7, <1>9, <1>10 DEF Sane

\* line() never gives up on a record.
LEMMA LineStep ==
  ASSUME cfg \in Configs, Sane, Line
  PROVE  Sane'
<1>1. PICK i \in Workers : i = parent.i
  BY DEF Sane, Types
<1>2. /\ cfg' = cfg /\ worker' = worker /\ inbox' = inbox /\ ring' = ring
      /\ exitcode' = exitcode /\ broken' = broken /\ Awaited /\ outbox[i] # <<>>
      /\ outbox' = [outbox EXCEPT ![i] = Tail(outbox[i])]
      /\ warmTotal' = IF In("warmConsumers") THEN warmTotal + Head(outbox[i]).count ELSE warmTotal
  BY <1>1 DEF Line
<1>3. /\ Heard(i) = (IF In("ready") THEN 0
                     ELSE IF parent.pc \in {"warmProducers", "warmConsumers"} THEN 1
                     ELSE IF In("final") THEN 3 ELSE 2)
      /\ Wrote(i) = Heard(i) + 1 /\ ~InPhase(i) /\ Tail(outbox[i]) = <<>>
      /\ Head(outbox[i]).event = Wanted
      /\ In("warmProducers") => Head(outbox[i]).count = WarmShare
  BY <1>1, <1>2, LineFacts
<1>4. In("warmConsumers") => Heard(i) = 1 /\ Wrote(i) = 2
  BY <1>3 DEF In
<1>5. In("warmConsumers") /\ i = N - 1 => warmTotal + Head(outbox[i]).count = cfg.warmup
  BY <1>1, <1>3, <1>4, WarmUpAddsUp
<1> DEFINE bad == \/ Head(outbox[i]).event # Wanted
                  \/ In("warmProducers") /\ Head(outbox[i]).count # Quota(TRUE)
                  \/ In("warmConsumers") /\ i = N - 1 /\ warmTotal + Head(outbox[i]).count # cfg.warmup
<1>6. ~bad
  BY <1>3, <1>5 DEF WarmShare
<1>7. /\ bad \/ CASE In("ready")         -> Onward(N - 1, "warm", 0)
                  [] In("warmProducers") -> Onward(P - 1, "warmConsumers", P)
                  [] In("warmConsumers") -> Onward(N - 1, "start", 0)
                  [] In("doneProducers") -> Onward(P - 1, "doneConsumers", P)
                  [] In("doneConsumers") -> Onward(N - 1, "end", 0)
                  [] In("final")         -> To("reap", i)
      /\ IF ~bad /\ i = P - 1 /\ In("warmProducers") THEN SetWords(1)
         ELSE IF ~bad /\ i = P - 1 /\ In("doneProducers") THEN SetWords(2)
         ELSE UNCHANGED word
  BY <1>1 DEF Line
<1> HIDE DEF bad
<1>8. Heed
  BY <1>1, <1>6, <1>7 DEF Heed
<1>9. CASE In("warmConsumers") /\ i = N - 1
  <2>1. parent' = [pc |-> "start", i |-> 0]
    BY <1>1, <1>6, <1>7, <1>9 DEF Onward, To, In
  <2>2. word' = word
    BY <1>8, <1>9 DEF Heed, In
  <2>3. /\ outbox' \in [Workers -> Seq([event : EventNames, count : Nat])] /\ outbox'[i] = <<>>
        /\ \A k \in Workers \ {i} : outbox'[k] = outbox[k]
    BY <1>2, <1>3, LineTypes
  <2>4. warmTotal' = warmTotal + Head(outbox[i]).count
    BY <1>2, <1>9
  <2>5. QED
    BY <1>1, <1>2, <1>3, <1>4, <1>9, <2>1, <2>2, <2>3, <2>4, SwitchStep
<1>10. CASE ~(In("warmConsumers") /\ i = N - 1)
  <2>1. HearsHere
    <3>1. parent.pc \in Stages
      BY <1>2, AwaitedStages
    <3>2. QED
      BY <1>1, <1>6, <1>7, <1>10, <3>1 DEF HearsHere, Stages, In, Onward
  <2>2. QED
    BY <1>1, <1>2, <1>8, <2>1, HearStep
<1>11. QED
  BY <1>9, <1>10

\* The last loops change nothing but where run() is and the exit codes.
Closing == {"end", "final", "reap"} \cup LastSteps
LEMMA CloseStep ==
  ASSUME cfg \in Configs, Sane, cfg' = cfg, worker' = worker, inbox' = inbox, outbox' = outbox,
         word' = word, ring' = ring, warmTotal' = warmTotal, broken' = broken,
         parent.pc \in Closing \ {"end"}, NEW to \in Closing \ {"end"}, NEW h \in Workers,
         parent' = [pc |-> to, i |-> h], DOMAIN exitcode' = Workers, Codes',
         \A k \in Workers : Heard(k)' = Heard(k)
  PROVE  Sane'
<1>1. ~WarmTime /\ ~WarmTime'
  BY DEF WarmTime, WarmLoops, Closing, RunLoops, LastSteps
<1>2. /\ Queued' /\ Received' /\ Room' /\ Drained' /\ Workers' = Workers /\ Consumers' = Consumers
      /\ \A k \in Workers : Wrote(k)' = Wrote(k) /\ Read(k)' = Read(k)
  BY <1>1, ParentData
<1>3. \A k \in Workers : Works(k)'
  BY <1>1, ParentWorks
<1>4. Count'
  BY <1>1, ParentCount
<1>5. Types'
  <2>1. /\ parent' \in [pc : WarmLoops \cup RunLoops \cup LastSteps, i : Workers]
        /\ parent'.pc \notin {"warmProducers", "doneProducers", "warmConsumers", "doneConsumers"}
    BY DEF Closing, RunLoops, LastSteps
  <2>2. QED
    BY <1>2, <2>1 DEF Sane, Types
<1>6. Words'
  <2>1. Words
    BY DEF Sane
  <2>2. QED
    BY <1>2, <2>1 DEF Words, Closing, RunLoops, LastSteps
<1>7. ASSUME NEW k \in Workers
      PROVE  Pipes(k)'
  <2>1. Pipes(k) /\ ~In("spawn")
    BY DEF Sane, Closing, RunLoops, LastSteps, In
  <2>2. Told(k)' = Told(k)
    BY DEF Told, In, Closing, RunLoops, LastSteps
  <2>3. At(k, "unborn")' <=> At(k, "unborn")
    BY DEF At
  <2>4. QED
    BY <1>2, <2>1, <2>2, <2>3 DEF Pipes
<1>8. QED
  BY <1>2, <1>3, <1>4, <1>5, <1>6, <1>7 DEF Sane

\* A worker that is waited for has a record in its pipe when it ends.
LEMMA NoEndOfPipe ==
  ASSUME cfg \in Configs, Sane
  PROVE  ~EndOfPipe
<1>1. PICK i \in Workers : i = parent.i
  BY DEF Sane, Types
<1>2. SUFFICES ASSUME Awaited, outbox[i] = <<>>, Ended(i)
               PROVE  FALSE
  BY <1>1 DEF EndOfPipe
<1>3. Wrote(i) = 4
  BY <1>2, WorkerTypes DEF Ended, Wrote, WorkerType
<1>4. parent.pc \in Stages
  BY <1>2, AwaitedStages
<1>5. Heard(i) < 4
  <2>1. i \in Nat
    BY WorkerFacts
  <2>2. QED
    BY <1>1, <1>4, <2>1 DEF Heard, Past, In, Stages
<1>6. Len(outbox[i]) = 1
  BY <1>3, <1>5 DEF Sane, Pipes
<1>7. QED
  BY <1>2, <1>6

\* Every worker that is collected has exited well.
LEMMA ReapStep ==
  ASSUME cfg \in Configs, Sane, Reap
  PROVE  Sane'
<1>1. PICK i \in Workers : i = parent.i
  BY DEF Sane, Types
<1>2. /\ cfg' = cfg /\ worker' = worker /\ inbox' = inbox /\ outbox' = outbox
      /\ word' = word /\ ring' = ring /\ warmTotal' = warmTotal /\ broken' = broken
      /\ In("reap") /\ Ended(i) /\ exitcode' = [exitcode EXCEPT ![i] = Code(i)]
  BY <1>1 DEF Reap, workerVars
<1>3. Code(i) = 0
  BY <1>2, WorkerTypes DEF Ended, Code, At, WorkerType
<1>4. /\ Workers = 0 .. N - 1 /\ N \in Nat /\ i \in Nat /\ \A k \in Workers : k \in Nat
      /\ 0 \in Workers /\ Workers' = Workers
  BY <1>2, ConfigFacts, SameConfig DEF Workers
<1>5. Codes /\ DOMAIN exitcode = Workers
  BY DEF Sane, Types
<1>6. DOMAIN exitcode' = Workers /\ \A k \in Workers : k <= i => exitcode'[k] = 0
  <2>1. DOMAIN exitcode' = Workers /\ exitcode'[i] = 0 /\ \A k \in Workers \ {i} : exitcode'[k] = exitcode[k]
    BY <1>2, <1>3, <1>5
  <2>2. \A k \in Workers : k < i => exitcode[k] = 0
    BY <1>1, <1>2, <1>5 DEF Codes, In
  <2>3. QED
    BY <1>4, <2>1, <2>2
<1>7. PICK to \in {"reconcile", "final"}, h \in Workers :
        /\ parent' = [pc |-> to, i |-> h]
        /\ \/ to = "reconcile" /\ i = N - 1
           \/ to = "final" /\ h = i + 1
  <2>1. CASE i = N - 1
    <3>1. parent' = [pc |-> "reconcile", i |-> 0]
      BY <1>1, <1>3, <2>1 DEF Reap, To
    <3>2. QED
      BY <1>4, <2>1, <3>1
  <2>2. CASE i # N - 1
    <3>1. i + 1 \in Workers
      BY <1>4, <2>2
    <3>2. QED
      BY <1>1, <1>3, <2>2, <3>1 DEF Reap, To
  <2>3. QED
    BY <2>1, <2>2
<1>8. Codes'
  <2>1. \A k \in Workers : k < i + 1 => k <= i
    BY <1>4
  <2>2. \A k \in Workers : k <= N - 1
    BY <1>4
  <2>3. QED
    BY <1>4, <1>6, <1>7, <2>1, <2>2 DEF Codes, LastSteps
<1>9. \A k \in Workers : Heard(k)' = Heard(k)
  BY <1>1, <1>2, <1>4, <1>7 DEF Heard, Past, In
<1>10. parent.pc \in Closing \ {"end"} /\ to \in Closing \ {"end"}
  BY <1>2, <1>7 DEF Closing, RunLoops, LastSteps, In
<1>11. QED
  BY <1>2, <1>6, <1>7, <1>8, <1>9, <1>10, CloseStep

\* After the last worker everything has been received and nothing is held.
LEMMA AllDone ==
  ASSUME cfg \in Configs, Sane, parent.pc \in LastSteps
  PROVE  /\ Queue = <<>> /\ ring.free = Capacity /\ warmTotal = cfg.warmup
         /\ \A k \in Workers : exitcode[k] = 0 /\ ~At(k, "unborn")
         /\ Exact
<1>1. ~WarmTime
  BY DEF WarmTime, WarmLoops, LastSteps
<1>2. ASSUME NEW k \in Workers
      PROVE  Wrote(k) = 4 /\ ~InPhase(k) /\ ~Fresh(k) /\ ~At(k, "unborn")
  <2>1. Pipes(k) /\ Wrote(k) \in 0 .. 4
    BY WorkerTypes DEF Sane
  <2>2. Heard(k) = 4
    BY DEF Heard, In, LastSteps
  <2>3. Wrote(k) = 4
    BY <2>1, <2>2 DEF Pipes
  <2>4. QED
    BY <2>3 DEF Wrote, InPhase, Fresh, At
<1>3. /\ cfg.producers \in Nat \ {0} /\ cfg.consumers \in Nat \ {0}
      /\ RunShare \in Nat /\ RunShare * cfg.producers = cfg.messages
      /\ Producers = 0 .. cfg.producers - 1 /\ Producers \subseteq Workers /\ Consumers \subseteq Workers
      /\ cfg.producers \in Workers /\ cfg.producers \in Consumers
  <2>1. /\ cfg.producers \in Nat \ {0} /\ cfg.consumers \in Nat \ {0}
        /\ RunShare \in Nat /\ RunShare * cfg.producers = cfg.messages
    BY ConfigFacts
  <2>2. /\ Producers = 0 .. cfg.producers - 1 /\ Producers \subseteq Workers /\ Consumers \subseteq Workers
        /\ Consumers = cfg.producers .. cfg.producers + cfg.consumers - 1
    BY WorkerFacts
  <2>3. cfg.producers \in Consumers
    BY <2>1, <2>2
  <2>4. QED
    BY <2>1, <2>2, <2>3
<1>4. Queue = <<>>
  BY <1>1, <1>2, <1>3 DEF Sane, Drained, PhaseRecord
<1>5. ring.free = Capacity
  <2>1. \A k \in Workers : Lease(k) = None
    BY <1>2 DEF Sane, Works, Rests
  <2>2. Leasing = {}
    BY <2>1 DEF Leasing
  <2>3. Cardinality(Leasing) = 0 /\ Len(Queue) = 0
    BY <1>4, <2>2, FS_EmptySet
  <2>4. ring.free \in Nat /\ ring.free + Len(Queue) + Cardinality(Leasing) = Capacity
    BY DEF Sane, Types, Room
  <2>5. QED
    BY <2>3, <2>4
<1>6. warmTotal = cfg.warmup /\ \A k \in Workers : exitcode[k] = 0
  BY <1>1 DEF Sane, Count, Codes
<1>7. \A i \in Producers : Made(i) = RunShare /\ Share = RunShare
  <2>1. ASSUME NEW i \in Producers
        PROVE  Made(i) = RunShare
    <3>1. i \in Workers /\ IsProducer(i)
      BY WorkerFacts
    <3>2. worker[i].got = RunShare
      BY <1>2, <3>1 DEF Sane, Works, Sends
    <3>3. QED
      BY <1>1, <3>2 DEF Made
  <2>2. QED
    BY <1>1, <2>1 DEF Share
<1>8. IdsMade = 0 .. cfg.messages - 1
  <2> DEFINE q == RunShare
             p == cfg.producers
  <2>1. IdsMade = {n \in Nat : \E i \in 0 .. p - 1, g \in Nat : g < q /\ n = i * q + g}
    BY <1>3, <1>7 DEF IdsMade
  <2>2. q \in Nat /\ p \in Nat /\ q * p = cfg.messages
    BY <1>3
  <2> HIDE DEF p, q
  <2>3. IdsMade = 0 .. q * p - 1
    BY <2>1, <2>2, Places
  <2>4. QED
    BY <2>2, <2>3
<1>9. Exact
  <2>1. Received
    BY DEF Sane
  <2>2. \A n \in IdsMade : \E j \in Consumers : n \in worker[j].bits
    BY <1>1, <1>4, <2>1 DEF Received
  <2>3. UNION {worker[i].bits : i \in Consumers} = IdsMade
    BY <2>1, <2>2 DEF Received
  <2>4. QED
    BY <1>8, <2>1, <2>3 DEF Exact, Received
<1>10. QED
  BY <1>2, <1>4, <1>5, <1>6, <1>9

\* So there is nothing to reconcile, nobody to kill and no failure.
LEMMA LastStep ==
  ASSUME cfg \in Configs, Sane, ~expired, Reconcile \/ Finally \/ Collect
  PROVE  Sane' /\ expired' = expired /\ deaths' = deaths /\ cfg' = cfg
<1>1. PICK i \in Workers : i = parent.i
  BY DEF Sane, Types
<1>2. parent.pc \in LastSteps
  BY DEF Reconcile, Finally, Collect, In, LastSteps
<1>3. /\ Queue = <<>> /\ ring.free = Capacity /\ warmTotal = cfg.warmup
      /\ \A k \in Workers : exitcode[k] = 0 /\ ~At(k, "unborn")
      /\ Exact
  BY <1>2, AllDone
<1>4. broken = {} /\ ring \in [queue : Seq([id : Nat, warm : BOOLEAN]), free : Nat]
      /\ DOMAIN exitcode = Workers
  BY DEF Sane, Types
<1>5. ~Failed
  <2>1. ring = [queue |-> <<>>, free |-> Capacity]
    BY <1>3, <1>4 DEF Queue
  <2>2. QED
    BY <1>3, <1>4, <2>1 DEF Failed
<1>6. exitcode[i] # Running
  BY <1>3 DEF Running
<1>7. /\ cfg' = cfg /\ inbox' = inbox /\ outbox' = outbox /\ word' = word /\ ring' = ring
      /\ warmTotal' = warmTotal /\ broken' = broken /\ expired' = expired /\ deaths' = deaths
      /\ worker' = worker /\ exitcode' = exitcode
  BY <1>1, <1>6 DEF Reconcile, Finally, Collect, workerVars
<1>8. /\ Workers = 0 .. N - 1 /\ N \in Nat /\ i \in Nat /\ 0 \in Workers
      /\ Workers' = Workers
  BY <1>7, ConfigFacts, SameConfig DEF Workers
<1>9. PICK to \in LastSteps, h \in Workers : parent' = [pc |-> to, i |-> h]
  <2>1. CASE Reconcile
    BY <1>8, <2>1 DEF Reconcile, GiveUp, To, LastSteps
  <2>2. CASE Finally /\ i = N - 1
    BY <1>1, <1>5, <1>8, <2>2 DEF Finally, To, LastSteps
  <2>3. CASE Finally /\ i # N - 1
    <3>1. i + 1 \in Workers
      BY <1>8, <2>3
    <3>2. QED
      BY <1>1, <1>4, <2>3, <3>1 DEF Finally, To, LastSteps
  <2>4. CASE Collect
    BY <1>3, <1>8, <2>4 DEF Collect, To, LastSteps
  <2>5. QED
    BY <2>1, <2>2, <2>3, <2>4
<1>10. Codes'
  BY <1>3, <1>7, <1>8 DEF Codes
<1>11. \A k \in Workers : Heard(k)' = Heard(k)
  BY <1>2, <1>9 DEF Heard, In, LastSteps
<1>12. parent.pc \in Closing \ {"end"} /\ to \in Closing \ {"end"}
  BY <1>2 DEF Closing, LastSteps
<1>13. Sane'
  BY <1>4, <1>7, <1>9, <1>10, <1>11, <1>12, CloseStep
<1>14. QED
  BY <1>7, <1>13
-----------------------------------------------------------------------------
(***************************************************************************)
(* The trial.                                                              *)
(***************************************************************************)

\* Nothing is counted, sent or held at the start.
LEMMA InitInv ==
  ASSUME Init
  PROVE  IInv
<1>1. cfg \in Configs /\ deaths = 0
  BY DEF Init
<1>2. /\ Workers = 0 .. N - 1 /\ N \in Nat /\ 0 \in Workers /\ Capacity \in Nat
      /\ \A k \in Workers : k \in Nat
      /\ WarmShare \in Nat /\ Producers \subseteq Workers /\ Consumers \subseteq Workers
  <2>1. N \in Nat /\ N > 0 /\ WarmShare \in Nat
    BY <1>1, ConfigFacts
  <2>2. Capacity \in Nat
    BY MatrixAssumption
  <2>3. Producers \subseteq Workers /\ Consumers \subseteq Workers
    BY <1>1, WorkerFacts
  <2>4. QED
    BY <2>1, <2>2, <2>3 DEF Workers
<1>3. /\ parent = [pc |-> "spawn", i |-> 0] /\ broken = {} /\ warmTotal = 0
      /\ exitcode = [i \in Workers |-> Running]
      /\ inbox = [i \in Workers |-> <<>>] /\ outbox = [i \in Workers |-> <<>>]
      /\ word = [i \in Workers |-> 0]
      /\ ring = [queue |-> <<>>, free |-> Capacity]
  BY DEF Init
<1>4. /\ worker \in [Workers -> WorkerType]
      /\ \A k \in Workers : /\ worker[k].pc = "unborn" /\ worker[k].got = 0 /\ worker[k].lease = None
                            /\ worker[k].look = "no" /\ worker[k].bits = {}
  <2> DEFINE w == [pc |-> "unborn", got |-> 0, lease |-> None, look |-> "no", bits |-> {}]
  <2>1. w \in WorkerType /\ w.pc = "unborn" /\ w.got = 0 /\ w.lease = None /\ w.look = "no" /\ w.bits = {}
    BY DEF WorkerType, None
  <2>2. worker = [i \in Workers |-> w]
    BY DEF Init
  <2> HIDE DEF w
  <2>3. QED
    BY <2>1, <2>2
<1>5. ASSUME NEW k \in Workers
      PROVE  /\ Wrote(k) = 0 /\ Read(k) = 0 /\ Told(k) = 0 /\ Heard(k) = 0 /\ Fresh(k) /\ ~InPhase(k)
             /\ Lease(k) = None /\ Made(k) = 0 /\ Got(k) = 0
  <2>1. Wrote(k) = 0 /\ Fresh(k) /\ ~InPhase(k) /\ Lease(k) = None /\ ~Warm(k)
    BY <1>4 DEF Wrote, Fresh, InPhase, Lease, Warm, At
  <2>2. Told(k) = 0 /\ Heard(k) = 0
    BY <1>2, <1>3 DEF Told, Heard, Past, In
  <2>3. QED
    BY <1>4, <2>1, <2>2 DEF Read, Made, Got
<1>6. Queue = <<>> /\ WarmTime
  BY <1>3 DEF Queue, WarmTime, WarmLoops
<1>7. IdsMade = {}
  BY <1>2, <1>5 DEF IdsMade
<1>8. Types
  <2>1. parent \in [pc : WarmLoops \cup RunLoops \cup LastSteps, i : Workers]
    BY <1>2, <1>3 DEF WarmLoops
  <2>2. inbox \in [Workers -> Seq(CommandNames)] /\ word \in [Workers -> Nat] /\ DOMAIN exitcode = Workers
    BY <1>3
  <2>3. outbox \in [Workers -> Seq([event : EventNames, count : Nat])]
    BY <1>3
  <2>4. ring \in [queue : Seq([id : Nat, warm : BOOLEAN]), free : Nat]
    BY <1>2, <1>3
  <2>5. parent.pc = "spawn" /\ broken = {} /\ warmTotal \in Nat
    BY <1>3
  <2>6. QED
    BY <1>4, <2>1, <2>2, <2>3, <2>4, <2>5 DEF Types
<1>9. Words
  BY <1>2, <1>3 DEF Words
<1>10. Queued /\ Received /\ Drained
  BY <1>2, <1>4, <1>5, <1>6 DEF Queued, Received, Drained, PhaseRecord
<1>11. Room
  <2>1. Leasing = {}
    BY <1>5 DEF Leasing
  <2>2. QED
    BY <1>2, <1>3, <1>6, <2>1, FS_EmptySet DEF Room
<1>12. Count
  <2> DEFINE f == [i \in Producers |-> Made(i)]
             g == [i \in Consumers |-> Got(i)]
  <2>1. f \in [Producers -> Nat] /\ g \in [Consumers -> Nat]
        /\ (\A i \in Producers : f[i] = 0) /\ (\A i \in Consumers : g[i] = 0)
    BY <1>2, <1>5
  <2>2. MadeRegion = Region(Producers, f) /\ GotRegion = Region(Consumers, g)
    BY DEF MadeRegion, GotRegion
  <2> HIDE DEF f, g
  <2>3. /\ IsFiniteSet(MadeRegion) /\ Cardinality(MadeRegion) = 0
        /\ IsFiniteSet(GotRegion) /\ Cardinality(GotRegion) = 0
    BY <2>1, <2>2, RegionEmpty
  <2>4. QED
    BY <1>3, <1>6, <2>3 DEF Count
<1>13. Codes
  BY <1>2, <1>3 DEF Codes, LastSteps
<1>14. ASSUME NEW k \in Workers
       PROVE  Pipes(k) /\ Works(k)
  <2>1. Pipes(k)
    BY <1>2, <1>3, <1>5 DEF Pipes, In
  <2>2. Works(k)
    BY <1>4, <1>5 DEF Works, Rests, Sends, Looks
  <2>3. QED
    BY <2>1, <2>2
<1>15. QED
  BY <1>1, <1>8, <1>9, <1>10, <1>11, <1>12, <1>13, <1>14 DEF IInv, Sane

\* A death or the deadline ends the promise; every other step keeps it.
LEMMA NextInv ==
  ASSUME IInv, [Next]_vars
  PROVE  IInv'
<1>1. CASE UNCHANGED vars
  <2>1. /\ parent' = parent /\ cfg' = cfg /\ exitcode' = exitcode /\ worker' = worker /\ deaths' = deaths
        /\ inbox' = inbox /\ outbox' = outbox /\ word' = word /\ ring' = ring /\ expired' = expired
        /\ broken' = broken /\ warmTotal' = warmTotal
    BY <1>1 DEF vars
  <2>2. cfg' \in Configs /\ deaths' \in Nat
    BY <2>1 DEF IInv
  <2>3. ASSUME Healthy'
        PROVE  Sane'
    <3>1. Sane /\ cfg \in Configs
      BY <2>1, <2>3 DEF IInv, Healthy
    <3>2. 0 \in Workers
      BY <3>1, WorkerFacts, ConfigFacts
    <3>3. Local(0)
      BY <2>1 DEF Local, Steady
    <3>4. Workers' = Workers
      BY <2>1, SameConfig
    <3>5. Types'
      BY <2>1, <3>1, <3>4 DEF Sane, Types
    <3>6. /\ WarmTime' <=> WarmTime
          /\ Told(0)' = Told(0) /\ Heard(0)' = Heard(0) /\ In("spawn")' = In("spawn")
      BY <2>1, <3>2, SameStage DEF In
    <3>7. /\ Queued' /\ Received' /\ Room' /\ Drained'
          /\ Wrote(0)' = Wrote(0) /\ Read(0)' = Read(0)
      BY <2>1, <3>1, <3>2, <3>6, ParentData
    <3>8. Works(0)'
      BY <2>1, <3>1, <3>2, <3>6, ParentWorks
    <3>9. Pipes(0)'
      <4>1. Pipes(0) /\ (At(0, "unborn")' <=> At(0, "unborn"))
        BY <2>1, <3>1, <3>2 DEF Sane, At
      <4>2. QED
        BY <2>1, <3>6, <3>7, <4>1 DEF Pipes, In
    <3>10. Count'
      <4>1. \A k \in Consumers : Heard(k)' = Heard(k) /\ outbox'[k] = outbox[k]
        BY <2>1, <3>1, SameStage, WorkerFacts
      <4>2. QED
        BY <2>1, <3>1, <3>6, <4>1, ParentCount
    <3>11. QED
      BY <3>1, <3>2, <3>3, <3>5, <3>7, <3>8, <3>9, <3>10, WorkerStep
  <2>4. QED
    BY <2>2, <2>3 DEF IInv
<1>2. CASE Next
  <2>1. /\ cfg' = cfg /\ deaths' \in Nat
        /\ Healthy' => Healthy
    <3>1. CASE Dies
      BY <3>1 DEF Dies, Die, parentVars, IInv, Healthy
    <3>2. CASE Deadline
      BY <3>2 DEF Deadline, workerVars, IInv, Healthy
    <3>3. CASE \E i \in Workers : WorkerRuns(i)
      BY <3>3 DEF WorkerRuns, parentVars, IInv, Healthy
    <3>4. CASE ParentRuns
      <4>1. cfg' = cfg /\ deaths' = deaths /\ expired' = expired
        <5>1. CASE Popen
          BY <5>1 DEF Popen, parentVars
        <5>2. CASE Tell \/ Finally
          BY <5>2 DEF Tell, Finally
        <5>3. CASE Line
          BY <5>3 DEF Line
        <5>4. CASE EndOfPipe \/ Reap \/ Reconcile \/ Collect
          BY <5>4 DEF EndOfPipe, Reap, Reconcile, Collect, workerVars
        <5>5. QED
          BY <3>4, <5>1, <5>2, <5>3, <5>4 DEF ParentRuns
      <4>2. QED
        BY <4>1 DEF IInv, Healthy
    <3>5. QED
      BY <1>2, <3>1, <3>2, <3>3, <3>4 DEF Next
  <2>2. ASSUME Healthy'
        PROVE  Sane'
    <3>1. Sane /\ cfg \in Configs /\ Healthy
      BY <2>1, <2>2 DEF IInv
    <3>2. CASE Dies
      BY <2>2, <3>1, <3>2 DEF Dies, Die, Healthy
    <3>3. CASE Deadline
      BY <2>2, <3>3 DEF Deadline, Healthy
    <3>4. CASE \E i \in Workers : WorkerRuns(i)
      BY <3>1, <3>4, WorkersKeep
    <3>5. CASE ParentRuns
      BY <3>1, <3>5, PopenStep, TellStep, LineStep, NoEndOfPipe, ReapStep, LastStep DEF ParentRuns, Healthy
    <3>6. QED
      BY <1>2, <3>2, <3>3, <3>4, <3>5 DEF Next
  <2>3. QED
    BY <2>1, <2>2 DEF IInv
<1>3. QED
  BY <1>1, <1>2

\* The pipes, the control words, the messages and the counts agree as long as nobody dies
\* and the deadline is not met (matrix_worker.py, run and phase).
THEOREM Invariance == Spec => []IInv
<1>1. Init => IInv
  BY InitInv
<1>2. IInv /\ [Next]_vars => IInv'
  BY NextInv
<1>3. QED
  BY <1>1, <1>2, PTL DEF Spec

\* A trial fails only when a worker died or the deadline was met: run() never gives up on
\* a record, the warm-up adds up, every message is received exactly once, and the ring is
\* left empty (run, phase).
THEOREM HealthyTrialsPass == Spec => []HealthyTrialPasses
<1>1. IInv => HealthyTrialPasses
  <2>1. SUFFICES ASSUME IInv, In("failed"), ~expired, ~(deaths > 0)
                 PROVE  FALSE
    BY DEF HealthyTrialPasses
  <2>2. Healthy
    BY <2>1 DEF IInv, Healthy
  <2>3. QED
    BY <2>1, <2>2 DEF IInv, Sane, Types, In, WarmLoops, RunLoops, LastSteps
<1>2. QED
  BY <1>1, Invariance, PTL
=============================================================================
