------------------------------- MODULE MCTools -------------------------------
(***************************************************************************)
(* The repository's own checkers and evidence tools for TLC, and the one   *)
(* algorithm of the library that shares no state, the layout of a segment. *)
(* No two of them run together, so one run checks them all: an initial     *)
(* state chooses the program, and its variables are the first of the       *)
(* cells.  A cell the program does not use holds 0.                        *)
(***************************************************************************)
EXTENDS Integers, FiniteSets

VARIABLES program, c1, c2, c3, c4, c5, c6, c7, c8, c9, c10

cells == <<c1, c2, c3, c4, c5, c6, c7, c8, c9, c10>>
vars  == <<program, cells>>

NCQ == INSTANCE ExplorerNcq WITH
  N <- 4, P <- 2, C <- 1, M <- 1, AllowAbort <- TRUE,
  queue <- c1, block <- c2, actor <- c3

SPSC == INSTANCE ExplorerSpsc WITH
  SlotCount <- 2, Reservations <- 4, MayAbort <- TRUE,
  published <- c1, reclaimed <- c2, writer <- c3, reader <- c4, slot <- c5

Search == INSTANCE Explore WITH
  Nodes <- 0 .. 2, Degree <- [n \in 0 .. 2 |-> IF n = 2 THEN 1 ELSE 2], Budgets <- {2, 4},
  graph <- c1, phase <- c2, states <- c3, parent <- c4, bfs <- c5, current <- c6,
  edges <- c7, remaining <- c8, status <- c9, witness <- c10

Axioms == INSTANCE Handoff WITH
  Capacities <- {1, 2}, MessageCounts <- 1 .. 3, StoreOrders <- {"release", "relaxed"},
  skeleton <- c1, rf <- c2

\* One plan for each outcome the monitor distinguishes.
Plan(s, m, p, c) == [scenario |-> s, messages |-> m, producers |-> p, consumers |-> c]
Chaos == INSTANCE ChaosOracle WITH
  Plans <- {Plan("storm", 2, 2, 1), Plan("random_abort_kill", 1, 2, 1),
            Plan("write_published", 1, 2, 2), Plan("resume_write", 1, 2, 1),
            Plan("async_resume_write", 1, 2, 1)},
  Blocks <- {1, 2},
  plan <- c1, gens <- c2, worker <- c3, marks <- c4, cohorts <- c5, pending <- c6,
  missing <- c7, destroyed <- c8, complete <- c9

Live == INSTANCE LiveReceipt WITH
  MaxWindows <- 2, MaxBatch <- 3, MaxTick <- 3, AllowCancelled <- TRUE,
  plan <- c1, completed <- c2, total <- c3, previousEnd <- c4, window <- c5, data <- c6,
  status <- c7, log <- c8

Sizes == 0 .. 9 \cup 14 .. 34 \cup 60 .. 66 \cup 124 .. 127
Layout == INSTANCE Format WITH
  WordBits <- 7, Quantum <- 8, ParticipantSize <- 4, CellSize <- 2, MaxCapacity <- 64,
  Capacities <- {0, 1, 2, 3, 4, 8, 16, 64, 128}, Endpoints <- 0 .. 2,
  Payloads <- Sizes, Backings <- {47, 48, 60, 127},
  config <- c1, todo <- c2, place <- c3, end <- c4, verdict <- c5

Bits == INSTANCE Membership WITH
  Consumers <- 2, MaxCount <- 5, ByteBits <- 2, ChunkBytes <- 2,
  form <- c1, count <- c2, at <- c3, bitmap <- c4, seen <- c5, union <- c6, verdict <- c7

Runs == INSTANCE Campaign WITH
  Tools <- {"chaos", "matrix", "formal", "bench", "cache", "lane"},
  CaseCount <- 2, Native <- {1}, MaxFaults <- 2,
  tool <- c1, step <- c2, at <- c3, known <- c4, disk <- c5, world <- c6, source <- c7, workload <- c8, faults <- c9

Archive == INSTANCE Release WITH
  FileCount <- 2, Sources <- {1}, Required <- {1}, MaxEdits <- 3, MaxKills <- 1,
  tree <- c1, listed <- c2, policy <- c3, job <- c4, archive <- c5, capsule <- c6,
  past <- c7, kills <- c8

Folder == INSTANCE Deposit WITH
  Publishers <- {"p1", "p2"}, Bundles <- {"b1", "b2"}, NameCount <- 2, MaxKills <- 2,
  pub <- c1, folder <- c2, temp <- c3, kills <- c4

\* The cells from the k-th on are not used.
From10 == c10 = 0
From9  == c9 = 0 /\ From10
From8  == c8 = 0 /\ From9
From6  == c6 = 0 /\ c7 = 0 /\ From8
From5  == c5 = 0 /\ From6
From4  == c4 = 0 /\ From5
From3  == c3 = 0 /\ From4

Init ==
  \/ program = "explorer of NCQ"  /\ NCQ!Init /\ From4
  \/ program = "explorer of SPSC" /\ SPSC!Init /\ From6
  \/ program = "search"           /\ Search!Init
  \/ program = "handoff"          /\ Axioms!Init /\ From3
  \/ program = "chaos"            /\ Chaos!Init /\ From10
  \/ program = "live demo"        /\ Live!Init /\ From9
  \/ program = "geometry"         /\ Layout!Init /\ From6
  \/ program = "membership"       /\ Bits!Init /\ From8
  \/ program = "campaign"         /\ Runs!Init /\ From10
  \/ program = "release"          /\ Archive!Init /\ From9
  \/ program = "deposit"          /\ Folder!Init /\ From5

Next ==
  /\ UNCHANGED program
  /\ \/ program = "explorer of NCQ"  /\ NCQ!Next /\ UNCHANGED <<c4, c5, c6, c7, c8, c9, c10>>
     \/ program = "explorer of SPSC" /\ SPSC!Next /\ UNCHANGED <<c6, c7, c8, c9, c10>>
     \/ program = "search"           /\ Search!Next
     \/ program = "handoff"          /\ Axioms!Next /\ UNCHANGED <<c3, c4, c5, c6, c7, c8, c9, c10>>
     \/ program = "chaos"            /\ Chaos!Next /\ UNCHANGED c10
     \/ program = "live demo"        /\ Live!Next /\ UNCHANGED <<c9, c10>>
     \/ program = "geometry"         /\ Layout!Next /\ UNCHANGED <<c6, c7, c8, c9, c10>>
     \/ program = "membership"       /\ Bits!Next /\ UNCHANGED <<c8, c9, c10>>
     \/ program = "campaign"         /\ Runs!Next /\ UNCHANGED c10
     \/ program = "release"          /\ Archive!Next /\ UNCHANGED <<c9, c10>>
     \/ program = "deposit"          /\ Folder!Next /\ UNCHANGED <<c5, c6, c7, c8, c9, c10>>

Spec == Init /\ [][Next]_vars

(***************************************************************************)
(* Properties.  Each is explained where its program is modelled.           *)
(***************************************************************************)
\* The transition systems that stand for the two queues in the repository's
\* formal campaign: their invariants hold and no access of theirs goes wrong
\* (Model.invariant and Model.successors of formal/models).
ModelsSafe ==
  /\ program = "explorer of NCQ" => NCQ!Invariant /\ \A i \in NCQ!Actors : ~NCQ!Fault(i)
  /\ program = "explorer of SPSC" =>
       SPSC!Invariant /\ \A side \in {"P", "C"} : ~SPSC!Wrong(side)

\* What the repository's checkers say is exact: the verdict of explore.py is true
\* of the graph it explored, and the release/acquire checker finds an execution
\* wrong when, and only when, one side does not synchronize (explore, analyze).
CheckersExact ==
  /\ program = "search" => Search!VerdictSound
  /\ program = "handoff" => Axioms!HandoffExact

\* A segment is laid out without overlap or overflow, or refused with reason
\* (el_geometry).
GeometrySound == program = "geometry" => Layout!GeometryExact

\* What the replay of a snapshot makes of the raw words of the queues, wherever
\* the workers stopped: it takes them, and finds the publication frontier and the
\* members that the states keep beside them; the two queues share no block, and
\* the blocks in neither are those that somebody owned (queue_members, snapshot).
SnapshotReads ==
  LET Members(q) == Chaos!QueueMembers(c1[q].head, c1[q].tail, c1[q].entries, 4) IN
  /\ \A q \in NCQ!Queues : LET s == c1[q] IN
       /\ Chaos!QueueReads(s.head, s.tail, s.entries, 4)
       /\ Chaos!FrontierOf(s.tail, s.entries, 4) = s.frontier
       /\ \A b \in Members(q) : c2[b].owner = NCQ!Member(q)
  /\ Members(NCQ!QF) \cap Members(NCQ!QR) = {}
  /\ \A b \in NCQ!Blocks \ (Members(NCQ!QF) \cup Members(NCQ!QR)) : c2[b].owner \in NCQ!Actors

\* The replays accept only logs of the chaos harness, bitmaps and receipts in which
\* every message was sent by one and received by one, and read a snapshot as what
\* it is (run_cohort and verify_events, verify_membership, verify_record, verify).
OraclesSound == /\ [][program = "chaos" => Chaos!Accepting]_vars
                /\ [](program = "membership" => Bits!MembershipExact)
                /\ [](program = "live demo" => Live!ReceiptExact)
                /\ [](program = "explorer of NCQ" => SnapshotReads)

\* Evidence that is accepted was produced as planned, whatever was killed, edited
\* or lost meanwhile (verify_campaign, verify, run_lane).
EvidenceSound == program = "campaign" => Runs!EvidenceSound

\* What is released is one state of the author's tree, and what is deposited is
\* whole and stays (inspect_archive, copy_checked).
ReleaseSound == /\ program = "release" => Archive!ReleaseIsSnapshot
                /\ program = "deposit" => Folder!DepositStands
=============================================================================
