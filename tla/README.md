# TLA+ models of elite-ringbuffer

elite-ringbuffer is a C library (with Python bindings) that moves messages
between processes through a shared memory object without copying them.  A
message is built in a block of the object, published, read in place and
returned.  There are two layouts: SPSC, a ring with one producer and one
consumer, and NCQ-SC64, two lock-free queues of block indices for several
producers and consumers.  An authority creates the objects, hands out the
endpoints, and destroys an object once nobody can use it any more.

Around the library the repository keeps its own verification: explorers of two
finite models, a release/acquire checker, a chaos harness, a throughput matrix,
verifiers that replay the evidence all of them leave, and the tools that turn a
source tree into a released archive.

This directory models that program from its source (`src/src`, below `C:`, and
`src/bindings/python`, `src/formal`, `src/tools`), checks the models with TLC on
small instances, and proves the most important ones with TLAPS for all instances.

## 1. The system

| component | source | state | operations | interacts with | where |
|---|---|---|---|---|---|
| entry points | C: `elite_core.c` | gate, failure word, flags of the connection, its token | reserve, commit, abort, borrow, release, retire, enable drain, abandon | calls the layout; notifies waiters | `Ncq`, `Spsc` (view counts in `Lease`) |
| NCQ layout | C: `elite_mpmc_ncq.c` | heads, tails and entries of QF and QR, descriptors | enqueue, dequeue, block phases | endpoints of several processes meet in the queues | `Ncq`, proofs in `NcqProofs`, `NcqSafety` |
| SPSC layout | C: `elite_spsc.c` | two cursors, cached cursors, descriptors | reserve, commit, borrow, release, abort | the two endpoints meet in the cursors | `Spsc`, proofs in `SpscProofs` |
| parking | C: `elite_wait.c` | two wait words | notify, wait | after each publication, reclamation and retirement; the futex | `SpscPark`, proofs in `SpscParkProofs` |
| authority | C: `elite_shm.c` | ledger, holders, gate with attachment count, attachment words | create, activate, register, grant, acknowledge, reap, retire, quarantine, destroy, attach, detach | processes meet it in the gate; OS calls that fail | `Lifecycle`, proofs in `LifecycleProofs` |
| format | C: `elite_format.c` | none | geometry, checks of a header, checksums | used by create and attach | `Format` (geometry) |
| Python leases, buffer exporter | `elite_ringbuffer/__init__.py`, `elite_buffer.c` | lease states, view pins, exports, close flags | the C operations, export, transfer, finalizers, signals | wraps the C interface; the garbage collector | `Lease`, proofs in `LeaseProofs` |
| Python managers | `elite_ringbuffer/__init__.py` | locks, owners of an object, obligations after a failed cleanup | grant, acknowledge, reap, retire, close, finalizers | wraps the authority; every thread and collection | `Manager`, proofs in `ManagerProofs` |
| matrix trial | `bindings/python/matrix_worker.py` | processes, pipes, control words | spawn, ready, warm-up, run, collect, kill | workers meet in a ring | `MatrixTrial`, proofs in `MatrixTrialProofs` |
| explorers | `formal/models`, `formal/explore.py`, `formal/handoff.py` | the explored graph | expand, visit, eliminate cycles; enumerate executions | - | `ExplorerNcq`, `ExplorerSpsc`, `Explore`, `Handoff` |
| drivers and verifiers | `tools/run_*.py`, `tools/verify_*.py`, `ci/run_lane.py` | a directory of evidence | plan, run, record, judge, finish, accept | children, the source tree, whoever edits either | `Campaign`, `ChaosOracle`, `Membership`, `LiveReceipt` |
| release tools | `tools/regenerate_manifests.py`, `verify_release.py`, `build_release_archive.py`, `verify_trust_capsule.py`, `deposit_turn12.py` | manifests, archive, capsule, a shared folder | inventory, hash, copy, inspect, link | an author who edits; other publishers | `Release`, `Deposit` |
| probes, tests, C benchmarks | `elite_topology.c`, `elite_pmc.c`, ... | - | I/O and measurement | - | not modelled |

What is hard in it:

- *Concurrency without locks.*  Every step of an NCQ call can interleave with
  every step of every other call; a call acts on values it loaded long ago.
  The SPSC layout uses acquire and release only, so a load may be stale.
- *Death.*  A process may die between any two instructions.  Blocks it holds
  are never recovered inside the generation, but nobody else may get stuck.
- *Retirement.*  A generation is closed by one of several actors while calls
  are in flight; consumers may drain it, the manager may quarantine it.
- *Lost wake-ups and time.*  Waiters sleep on a futex in slices.
- *Destruction.*  The object goes only when every process that may have mapped
  it has given it back or is dead, whatever failed on the way.
- *A garbage collector.*  Finalizers of leases, endpoints and managers run in
  any thread, in any order, under any lock, and an interrupt may come between a
  native effect and the assignment of its result.
- *Evidence.*  It is judged long after it was produced, by another program, and
  may have been interrupted, edited, lost or mixed up in between.
- *Limits.*  Cursors stop at a ceiling one lap below 2^64; epochs stop too.

What makes each component correct:

- NCQ: every block is at exactly one place; no live entry is overwritten; an
  empty answer is true; messages are intact; calls return; a drain completes.
- SPSC: no slot is shared by both endpoints, no message lost or repeated, and
  the consumer obtains all of them.
- both: retirement goes only forward and no healthy generation is condemned;
  a generation behaves like one abstract channel of blocks.
- parking: no lost wake-up; a wait returns after its deadline.
- authority: counts are exact, holders are resolved only when they are gone,
  one generation is in service, and what is retired is destroyed in the end.

- Python: no view outlives its payload, no native call is repeated whose effect
  is unknown, no token is forgotten; threads never wait for each other in a
  circle, and an object is destroyed exactly when its last owner is gone.
- checkers and tools: a verdict is true of what was explored, harness and
  replay together accept only chaos runs in which every message went from one
  sender to one receiver, the other replays only such bitmaps and receipts, and
  what is accepted or released is what was run or written.

`PROJECT.json` lists the hazards one by one, at their lines, with the
properties that cover them.

## 2. Modules

`Channel` is the abstract specification: blocks are free, owned, published in
a sequence, or retained; only the owner for writing changes a message.

`Ncq` has one action for each access to a word that others may change: the
loop of `el_ncq_dequeue` is `DequeueHead` (load of the head), `DequeueEntry`
(load of the entry and its comparison) and `DequeueClaim` (CAS of the head);
`el_ncq_enqueue` is `EnqueueTail`, `EnqueueEntry`, `EnqueueHelp`,
`EnqueueInstall` (the CAS that publishes) and `EnqueueAdvance`.  `call[p]` is
the stack of the running call: its label, queue, loaded ticket and entry.  The
atomics are sequentially consistent, hence interleaving.  `RetireFailure`,
`RetireLoad` and `RetireGate` are the exchange of the failure word, the load of
the gate and its CAS in `el_retire_raw`, which starts over when the CAS fails.  Descriptors are only
accessed by the owner of a token, which is `Partition`, so what a call does to
one is a single action.  `MCNcq` adds the symmetry of the producers.

`Spsc` has one action per cursor access.  An acquire load returns any value
between the last one its reader is known to have seen (`view`) and the current
one.  A message is named by the ticket it is published at.  The two exchanges
of a retirement are one step (Ncq takes them apart).

`SpscPark` extends `Spsc` with `el_wait` and `el_notify`.  `carried` is what an
exchange of the wait word acquires from the exchanges before it: that, and not
the value of the word, is what makes the second look of a waiter see a
publication.  `aware` is the same for retirement.

`Lifecycle` models the ledger and the attachments.  `ledger[g]` is the set of
flags of the manager's record of generation g; `gate[g]` its state and count;
`conn[c]` the handle made from one delivery of a grant.  Calls of the
authority are serialized by its owner, so the ones no other process can see
half way are one action; destruction is split where it may fail.  Each OS call
that can fail does so when it is in `Faults`.  `MCLifecycle` adds symmetry.

`Lease` models the leases of one Python endpoint and the exporters of their
payloads.  A ctypes call lets other threads run, so it is a call action, where
the effect takes place, and a return action; a KeyboardInterrupt may replace the
return before or after the effect.  `app` is what the application still refers
to; what it drops may be finalized at any later time by any thread.

`Manager` models the other half of the binding: grants, reaping, retirement,
closing and the finalizers, with every lock.  Each thread is a stack of frames
and a garbage collection lies on top of whatever runs, with the locks that
holds.  At most one collection runs at a time, as in CPython: if a second thread
could start one, `NoCircularWait` would not hold.

`MatrixTrial` models a trial of the throughput matrix: the worker's phases and
`run()`, whose loops are a label and an index.

`ExplorerNcq` and `ExplorerSpsc` are the two transition systems of the
repository's own campaign, and `Explore` the search over such a system, for every
small graph: breadth first, with witnesses, budgets and the elimination that
finds cycles without progress.  `Handoff` is the release/acquire checker; each
step decides one more read.  The explorer modules reach exactly as many states
and transitions as the Python program: 18314 and 50648 with 4 blocks, 2
producers, 1 consumer, 1 message and aborts; 3350 and 6857 for SPSC with 2 slots
and 4 reservations.  The progress flags of edges are only in `Explore`.

`ChaosOracle` is the monitor of a chaos log and as much of the harness as decides
what goes into it.  The log is the input: any record may come next and the
monitor takes it or stops - but the commands to workers and the creation of the
successor come when `run_cohort`, `finish_worker` and `main` of the harness
would send them (`Sends`, `Creates`).  That is a real restriction.  The verifier
keeps only the last command to a producer, so what is checked of these logs is
not guaranteed by the verifier alone (section 5).  In `LiveReceipt`, for the
receipt of a live demonstration, and in `Membership`, for bitmaps and traces, the
input is not restricted.

`Campaign` has the six drivers and their verifiers: a driver plans, runs,
records, judges and finishes, may be killed between any two writes, the sources
may be edited and edited back, and a file lost, garbled or replaced by that of
another case.  A verifier does not look at everything in which two cases differ:
`workload` is chosen at the start among the ways in which the cases of the tool may
look alike to it, and `Fits` compares no more than that.  For run_chaos those are
storms that differ in their populations, trials of one scenario with the same
hold, and resource cases.  `Release` and `Deposit` read and write a tree and a folder that
others change meanwhile.  `Format` is `el_geometry` in words of a small width.

`MCTools` composes these last ten as a sum: an initial state chooses one
program, and its variables are cells that the programs share.  They have nothing
to do with each other at run time, and one run checks them all.

`NcqProofs` and `NcqSafety` hold the theorems about `Ncq`, the second built on
the first; `SpscProofs` those about `Spsc`, `SpscParkProofs` those about
`SpscPark`, `LifecycleProofs` those about `Lifecycle`, `LeaseProofs` those about
`Lease`, `ManagerProofs` those about `Manager`, `MatrixTrialProofs` those about
`MatrixTrial`.

Left out everywhere: wording, logging, checksums and payload bytes; stale or
foreign lease bytes (refused before anything changes); the test hooks; errors
of the clock and the futex, which only end a call.  A failed allocation in
`elite_create` is one of its faults.  The authority itself does not die: the
documents exclude a takeover.

`TypeOK` of Lease and Lifecycle documents the shape of their state and is not in
a configuration: every other invariant of theirs is about the same variables.
Those of Ncq and Spsc are conjuncts of their `IInv`.  Coarser than the code are: in
Spsc, the check of the gate in a return (there is no quarantine there, so it never
refuses one); in Lease, a borrow that `enable_drain` would allow in a retired
generation, which fails as any other there; in MatrixTrial, the release of a lease and
the update of the producer's control word after it, which are one step.

## 3. Runs

| run | instance | question | properties |
|---|---|---|---|
| ncq_producers | 2 producers, 1 consumer, 4 blocks, two messages and one block returned | do racing calls keep blocks apart, and are the queues a channel? | Partition, EmptyIsExact, ImplementsChannel |
| ncq_retire | 1 + 1, 2 blocks, ceiling 5 | what may retirement, quarantine, drain and abandonment meet over several laps? also the invariant that is proved | IInv, FrontierOrder, MessageIntact, NoFalseAlarm, RetirementIsForward |
| ncq_live | 1 + 1, 2 blocks, the producer may die | do calls return, does a drain complete? | CallsReturn, DrainCompletes |
| spsc | 2 slots, two laps, epoch ceiling 3, either may die, both retire | are slots and messages safe under stale loads, up to both ceilings, whatever stops? is everything delivered? also the invariant that is proved | IInv, RaceFree, MessageIntact, NoFalseAlarm, ImplementsChannel, Delivered |
| spsc_park | 2 slots, both endpoints park, the producer may die | can a wake-up be lost, does a wait return? | WakeupsExact, WaitReturns |
| lifecycle_holders | 1 object, 2 endpoints, each grant delivered twice, 3 of the deliveries attached, a child and the manager's process; unlink, munmap and close fail | may anything be sealed under a living holder? | CountExact, ResolvedMeansGone, FencedBeforeSeal |
| lifecycle_reclaim | 2 generations, 2 ledger slots, one quarantined, a child that may die; create and attach fail | is one generation in service, is everything destroyed in the end? | SingleService, Reclaimed |
| lease | 2 threads, 2 leases, 2 views each, 2 interrupts, native failures | may finalizers, views and interrupts meet in a bad order? | ViewsPinned, TokenTracked, HealthyNeverRetained, NeverRetried, DroppedIsDetached |
| lease_serialized | the same with 1 interrupt | are native calls of an endpoint serialized, as the README of the binding says? (no) | CallsSerialized |
| manager | 2 threads, 2 local endpoints and one in a child, 2 of them granted, 1 interrupt (of the main thread), collections anywhere | can threads wait in a circle? is every object accounted for? | NoCircularWait, ObligationsTracked, DestroyedWhenGone, HealthyNeverRetained |
| matrix_trial | 1 + 2, 2 + 1 (closed loop), 1 + 1 (closed loop), capacity 2, 1 death | does a healthy trial pass, and every trial end? | HealthyTrialPasses, WorkersEnd |
| tools | one small instance of each program in `MCTools` | are the verdicts of the checkers, oracles and release tools right, and segments laid out soundly? | ModelsSafe, CheckersExact, OraclesSound, EvidenceSound, ReleaseSound, GeometrySound |

*Bounds.*  Word sizes are constants: `WordMax` stands for 2^64 - 1 and is a few
laps of the ring, so that wrapping around the entries, the check against the
ceiling and the last lap before it all happen.  Two blocks make every cursor
wrap quickly; four blocks let two producers and a consumer hold tokens at once
(the code admits no more endpoints than blocks).  `OneReturned` of `MCNcq` stops
that instance where a second block would follow the first one back into QF.
Endpoints of one role are alike, so two of them show any race between a pair, and
producer and consumer use both queues alike, so the death of one of them shows
what the other meets.  The proofs remove these bounds for everything but
liveness.  In Lifecycle two deliveries of one grant, two
endpoints and two generations suffice for a duplicate, a race on the count, and
one active and one quarantined object together (`ThreeAttached`: a duplicate
beside another endpoint); the budget of quarantined
objects is 1 instead of 2, the ledger has 2 slots instead of 4.  Two leases and
two threads show a lease of each thread, and a lease beside the finalizer of the
one before it; `MaxInterrupts` allows an interrupt of the undoing of an
interrupt.  In Manager a circle needs two threads and two endpoints, or one and
the manager; what a child does with its endpoint is checked beside one local one
(`TwoGranted`).  In MatrixTrial a ring of 2 is full and empty; one death is met at
every step of every worker.  In the tools run there are two or three of
everything that is counted - cases, files, publishers, messages, windows - and
two faults, so that a fault can be followed by its reverse.  Geometry uses words
of 7 bits with the strides scaled down, so that every sum and product overflows.

The log of a chaos run is restricted to what its harness sends: each worker is
told to work once, in the order of the workers, and to exit once after its cohort
was reconciled and the workers before it have exited; only worker 33 is told to
hold; generation 1 follows the exits of generation 0 but the victim's.  READY
records follow their generation in the order of the workers, which makes no
difference to the monitor.  Populations are 2 + 1 and 2 + 2 instead of 3 + 2.

`CHECK_DEADLOCK FALSE` is stated because every instance may stop: at its
ceilings, after retirement, when processes are dead, or when all is destroyed.

*Fairness.*  A live process that is inside a call is scheduled
(`WF_vars(Step(e))`, and the like in Spsc and SpscPark).  Nothing is assumed of
a dead process, and never that anyone starts a call - except where a property
speaks of a consumer that keeps polling (`Delivered`, `DrainCompletes`).  The
strong fairness on `LoadPublished` says that a poller's acquire loads do not
miss a store for ever, which coherent memory gives.  In SpscPark the clock
advances and slices end.  In Lifecycle the authority keeps taking receipts,
reaping and retrying a destruction, and a live process leaves in the end
(`SF_vars(Detach(c))`: it may use its handle as long as it likes first).
In Lease a thread inside a method goes on - strongly, since others may hold the
lock meanwhile - and the collector runs in the end; that the application drops a
lease is never assumed.  In MatrixTrial processes run on, and `line()` and reap
look at the clock, so that a deadline is met if nothing else happens.
Manager, the finite explorations and the tools have no liveness property.
`CallsReturn` holds on an instance whose counters are bounded; NCQ is
lock-free and not wait-free, so a caller that loses every race returns only
because the others reach the ceiling or leave.

## 4. Proofs

### NCQ (`NcqProofs`, `NcqSafety`)

For every capacity, ceiling, epoch ceiling and set of producers and consumers
that `NcqAssumption` and `GeometryAssumption` admit (what `el_geometry`
accepts):

- `Invariance`: `Spec => []IInv`
- `TypeCorrect`, `FrontierOrdered`, `TokensPartitioned`: `TypeOK`,
  `FrontierOrder` and `Partition` are invariants
- `EmptyExact`: `Spec => EmptyIsExact`
- `Soundness`: `Spec => [](IInv /\ Sound)`; from it `MessagesIntact` and
  `NeverFalselyAlarmed`: `MessageIntact` and `NoFalseAlarm` are invariants
- `RetiresForward`: `Spec => RetirementIsForward`
- `Implementation`: `Spec => ImplementsChannel`, the refinement of `Channel`

The difficulty is one step.  `EnqueueInstall` succeeds if an entry has not
changed since it was loaded, and nothing in the code compares the tail again.
That it nevertheless installs only the next ticket needs `LastLap`: the entry
at each index holds a ticket of the last lap below the frontier, so an entry
that is vacant for ticket t is the one of ticket t - N, and t is the frontier.
That it does not overwrite a block that is still in the queue needs a count:
the installing endpoint holds a block that by `Partition` is in neither queue,
so the queue has fewer than N blocks (the counting lemma uses
`FiniteSetTheorems`).  Partition in turn needs that installs happen only at
the frontier and claims only at the head, so the three are proved together:
`IInv` is `TypeOK`, `Window`, `LastLap`, `CallCoherent` (what a call may still
conclude from what it loaded) and `Partition`.  `NcqProofs` first shows that
every step has one of four effects on the queues (nothing, a tail step, a
claim, an installation) and then proves each conjunct by effect.  TLC checks
`IInv` itself in ncq_retire.

Messages need one invariant more.  Descriptors are written with ordinary stores,
and a call checks the phase it expects before it writes the next one; nothing but
ownership keeps two calls apart.  `Filed` says what the descriptor of a block in QF
and of one in QR holds, `Kept` what that of a block in an endpoint's hands holds at
each label: as the queue it was claimed from left it, in the phase of its token, or
as the queue it is going to prescribes.  `Sided` ties tokens and queues to roles, so
that a reader's block is never on its way to QR.  By `Local` a step writes only the
descriptor of the block its own process holds, which by `Partition` is in neither
queue and not another one's; hence `Filed` and the other endpoints' `Kept` survive,
a claim turns the one into the other (`ClaimContents`), and an installation turns it
back (`InstallContents`).  Then no phase check can fail, which is `NoFalseAlarm`,
itself a conjunct of `Sound` because a condemned generation would leave a block
in a phase that `Kept` does not name.  TLC checked `Filed`, `Sided` and `Kept`
on the instances of ncq_retire and ncq_producers before they were proved.

The refinement maps the free blocks to `Contents("QF")`, the published sequence to
`ReadySeq`, the blocks between the head and the frontier of QR, and the tokens to
`Holders`.  The head CAS of QF is the reservation, that of QR the borrowing; the CAS
of an entry of QR is the publication, that of QF the return.  The stamp of a
reservation and the metadata store of a commit write an owned message.  Everything
else - loads, helping, tails, failures, retirement, death - is invisible
(`QuietSimulated`), in particular the tail an installer has not advanced yet: the
sequence ends at the frontier, not at the tail.

### SPSC (`SpscProofs`)

For every capacity, word size and epoch ceiling that `SpscAssumption` admits,
whoever retires the generation and whoever may die:

- `Invariance`: `Spec => []IInv`
- `NeverRacing`, `MessagesIntact`, `NeverFalselyAlarmed`: `RaceFree`,
  `MessageIntact` and `NoFalseAlarm` are invariants
- `Implementation`: `Spec => ImplementsChannel`, the refinement of `Channel`

An acquire load may return an old value, so neither side knows where the other
one is; the invariant says what it knows nevertheless.  From the check of the
cached cursor to the publication (`ProducerCoherent`) the published cursor is
below the ceiling and less than a lap ahead of the reclaimed one: this survives
because the consumer only reclaims more.  While the consumer holds a token
(`ConsumerCoherent`), its view is past the block it borrows, so the block is
published, and its epoch is the lease's because the producer, less than a lap
ahead, stamps no published slot (`OneSlot`: two tickets less than a lap apart
have different slots).  `Intact` is what was committed.  `Safe` is the
conjunction of these with the types; it is inductive by itself, and `NextSafe`
has one step per action under each side.  `Abandonment` is about a retired
generation: a poisoned connection calls nothing any more, so that a block it
abandoned stays the one of its cursor.  TLC checks `IInv` in spsc.

For the refinement the published sequence is `Run(FirstReady, published)`, the
slots of consecutive tickets, where `FirstReady` is past the block that the
consumer holds or has abandoned.  One lemma for each step of the channel
(`Reserving`, `Publishing`, ...) says which change of `Writing`, `Reading`, the
sequence and the descriptors is that step; the steps of the code then have to
be shown to make such a change.  A reservation takes effect at the check that
finds room, before the stamp.  The case that needs care is a producer that has
abandoned the slot the reclaimed cursor arrives at: `FirstReady` jumps over it,
but only when nothing is published (`Retired`).

### Parking (`SpscParkProofs`)

For every instance of SpscPark, that is of SPSC whose endpoints also wait and wake:

- `ParkInvariance`: `ParkSpec => []ParkInv`
- `NoWakeupLost`: `WakeupsExact` is an invariant
- `NeverRacingParked`, `MessagesIntactParked`, `NeverFalselyAlarmedParked`,
  `ParkImplementation`: what holds of a polling ring holds of a parking one

Since a load may be stale, the argument cannot be that a waiter looks again after it
has armed its word.  It is about what the exchanges of the word carry.  `Carries`:
whatever the last notification has not released is still to be notified, by the peer
or, for a retirement, by somebody who knows of it.  A waiter that arms its word
acquires what was carried, so what its second look may miss (`Guarded`) is still to be
notified, while its word stays armed; it goes to sleep only on what it has seen
(`Resting`).  A notifier that finds the word armed takes it back and wakes the waiter.
So if something is due for a sleeper, either its word is armed and by `Guarded` a
notification is on its way, or somebody is waking it.  `Armed` is the converse: every
way out of the wait takes the word back.  The steps of `Spsc` are lifted once
(`Deed`: a cursor that moves leaves its notification to be delivered), so the proofs
of the ring are reused unchanged.  TLC checked `ParkInv` on the instance of
spsc_park.

### Lifecycle (`LifecycleProofs`)

For any number of generations, children, endpoints and deliveries of a grant,
any budget of the ledger and any set of failing calls:

- `Invariance`: `Spec => []IInv`, and `TypeCorrect`
- `CountsExact`, `ResolvedGone`, `Fenced`, `OneInService`: `CountExact`,
  `ResolvedMeansGone`, `FencedBeforeSeal` and `SingleService` are invariants

`HandleCoherent` says what a handle has at each stage and that whoever claimed an
endpoint was issued it and has taken its record out of NEW, which is why no second
delivery can claim it.  `Sealable` carries the check of a destruction over to the
swap of the gate: nothing in between can issue an endpoint, because the authority
is busy.  `FencedBeforeSeal` follows: the living owner of a claim in a sealed
object is resolved, so some delivery of its grant has given back everything, and
that is the one with the claim.  `Serving` ties an open gate to the active flag,
from which `SingleService` follows with the budget.  The proof has three parts: a
step of a handle (`HandleStep`) keeps everything once the gate moves lawfully and
the count with it; a step on one object (`ObjectStep`) keeps everything once flags
and gate word agree; a step on the holders (`HolderStep`) issues only in the active
object and resolves only the dead or those with a receipt.

### Leases (`LeaseProofs`)

For any set of threads, any subset of them that an interrupt may reach, any number
of leases, of exports of each and of interrupts, with or without a failing
native layer (`LeaseAssumption`):

- `Invariance`: `Spec => []IInv`, and `TypeCorrect`
- `ViewsKeepTheSlot`, `TokensTracked`, `HealthyRetainsNothing`: `ViewsPinned`,
  `TokenTracked` and `HealthyNeverRetained` are invariants
- `UncertainStaysPut`: `Spec => NeverRetried`, an action property

The endpoint has an RLock, but the flags of an exporter are moved by threads that
do not hold it: views are closed, exports rolled back, garbage cleared and closes
begun anywhere.  The invariant says what makes that safe.  `Counted`: the exports
of an exporter are its views and the threads about to make one.  `Exports`: while
there are any the exporter is open and keeps its pin, and while it is being closed
some thread is the one who closes it.  `Life` and `Works`: only a finalizer comes to
a lease that the application has dropped, and it is alone there - so what it leaves
behind nobody can ask for again.  What a method that holds the lock believes after a
call of the native layer is in the other parts: `Pins` (the pin the endpoint believes
in is the native one, except at the few steps of `Unpinned`), `Token` (the owner of
the native token is the lease of the endpoint, and active, or is just being acquired;
an uncertain one is on record as failed) and, per label of the thread, `Closes`,
`Retains` and `Relies`.  `Reports` is needed for `HealthyNeverRetained`: in a healthy
process no cleanup can meet an error.

A step touches the task of one thread and what belongs to one lease (`Local`), and if
another thread holds the lock it leaves alone what the lock protects (`Kept`), except
the flags of an exporter on which that thread does not rely.  From this `LocalStep`
gives the invariant of every other thread and lease once and for all; each action
then has a lemma for its own thread and lease.  An interrupt is what makes this long:
every native call may also end in one, before or after its effect.

The theorems then read off what they state.  A view that can be touched is an
export, so its exporter is open, nobody is at a step of `Unpinned` with its lease, and
the pin is native.  No step moves the token of an uncertain lease: those that move one
are reached only with a lease that is not uncertain (`Relies`, `Live`).  TLC
checked `IInv` with 2 threads, 2 leases, 2 views and 2 interrupts (130639 states) and
with 3 threads, 1 lease and 1 interrupt (19076 states) before it was proved.

### Manager (`ManagerProofs`)

For any number of threads, endpoints here and in a child, and interrupts
(`ManagerAssumption`: the two sets of endpoints are disjoint and the lock of
the authority is none of theirs):

- `Invariance`: `Spec => []IInv`
- `NoDeadlock`, `NothingForgotten`, `NobodyCutOff`, `NothingRetained`:
  `NoCircularWait`, `ObligationsTracked`, `DestroyedWhenGone` and
  `HealthyNeverRetained` are invariants

`Shapes` says which frame may lie on which (`Formed`, `Over`), and so what locks
a thread has: one endpoint's, the authority's, or the authority's inside the
endpoint's.  A collection breaks that order, because it lies over a call with the
call's locks and closes other endpoints.  Two parts of `IInv` make it harmless:
`Mutex` has at most one collection over a call at any time, and `Garbage` with
`InService` keeps apart what is in a batch and what a call uses, so the endpoint
that a finalizer waits for is held by nobody who waits.  In a circle of threads
then nobody has the authority's lock, all wait at endpoints, and of those who
wait at endpoints only one, the collection over a call, holds anything.

The other parts follow an endpoint from its grant to its receipt: `Informed` is
what a call may rely on between taking its locks, `Attended` who acknowledges a
connection that is gone, `Requested` and `Pursued` that the request a finalizer
leaves behind is met before its batch is freed, or else its failure is on record.
`Statuses` is `DestroyedWhenGone` together with what links an endpoint to its
wrapper.  TLC checked every part of `IInv` first, on the
endpoints and threads of manager without its bound.

### Matrix trial (`MatrixTrialProofs`)

For any number of producers and consumers, any capacity, in open and closed loops, for
every number of messages that the producers share equally (`MatrixAssumption`: the plan
makes it so, `run_matrix.py:57`):

- `Invariance`: `Spec => []IInv`
- `HealthyTrialsPass`: `HealthyTrialPasses` is an invariant

`IInv` speaks of a trial in which nobody has died and the deadline was not met; a death
and the deadline are never taken back, so only those two actions have to break it.

- `Told` and `Heard` say, from the loop `run()` is in and its index, what each worker
  has been told and what was read from it; `Wrote` and `Read` say the same of the
  worker from its step.  `Pipes` relates the four, and so knows the content of each
  pipe.  No record is ever the wrong one, and the records of a loop mean that all
  producers, or all workers, have come that far (`WordIsTrue`).
- Messages are numbered by producer and place.  `Queued` and `Received` keep apart what
  the ring and the bitmaps hold; in the phase that counts, nothing made is in neither.
- `Drained`: a consumer that has left a phase saw the control word and then an empty
  ring.  This is why it looks twice: at the word the producers were done, so the ring
  stays empty.  With it `AllDone` reads off what the parent checks at the end.
- `Count` adds up the warm-up.  A sum over workers is the size of a set of pairs
  (`Region`), so that one more message is one more pair and no induction is needed.
- `Room`: free slots, messages and leases make the capacity.

A step of a worker leaves the others alone (`Local`, `OtherWorker`), a step of `run()`
leaves the data alone (`ParentData`), except at the last report of the warm-up, where
`WarmUpAddsUp` shows the sum right and `SwitchStep` starts from a clean slate.  TLC
checked the parts of `IInv` on seven configurations with up to 2 + 2 workers, 4
messages and capacity 2 (159653 states).

### What is not proved

Checked with TLC only: liveness under fairness (out of the prover's reach:
`CallsReturn`, `DrainCompletes`, `Delivered`, `WaitReturns`, `Reclaimed`,
`WorkersEnd`, `DroppedIsDetached`), and the tools.  Every safety property of Ncq,
Spsc, SpscPark, Lifecycle, Lease, Manager and MatrixTrial that a run expects to hold
is proved.  The programs in `MCTools` are searches and
replays of finite data, some of them recursive; what they compute would take an
induction over data.

## 5. What the models showed

*A divergence* (run lease_serialized).  `cleanup()` in
`elite_ringbuffer/__init__.py:567` retires the generation outside the endpoint's
lock, so two threads may be inside the native layer of one endpoint; the
binding's README says the locks serialize calls.

Remarks that no run refutes:

- `explore.py` never evaluates the invariant on the initial state.
- `matrix_worker.py:224`: closing the pipe of a worker that had refused a line
  raises inside the loop that kills and collects the workers.  The workers after
  it are not killed there; they end because their pipes close (`WorkersEnd`).
- `run_matrix.py:115` leaves cleanup to the coordinator's SIGTERM handler, and
  `matrix_worker.py` installs none.
- `run_chaos.py:70` compares the sources before and after; an edit that is taken
  back meanwhile is not seen, nor could it be by comparing digests.  The total
  of messages in COMPLETE.json is never compared.
- `verify_chaos_results.py:208` lets every command but a drain replace the one that
  told a producer its range, and joins the cohort with the range it holds then: two
  producers told to send the same message pass when a later command makes their
  ranges tile.  Line 178 would let the victim work, too.  `OraclesSound` is about
  the logs of the harness, which sends no such command before it reconciles.
- `verify_chaos_results.py:433` compares scenario, mode, messages and hold of a trace
  with its case, not the populations, in which the NCQ storms of a campaign differ,
  and nothing of a resource case.  When the trace of one storm is put in the place
  of another's before `run_chaos.py` hashes it, the campaign is accepted.
  `EvidenceSound` claims of a trace only that a case of the same workload left it.
- `verify_results.py` reads no plan and needs neither provenance nor manifest: a
  result lost before the manifest was written is not missed.  `EvidenceSound`
  claims no more of it than what its completion file implies.
- A publisher of `deposit_turn12.py` that loses the race for a name against an
  identical file fails and has to be run again.

## 6. Plan, and what is not modelled

Done, in this order: `Channel`, `Ncq` and `Spsc` with their invariants and proofs,
`SpscPark`, `Lifecycle`, `Lease`, `Manager`, `MatrixTrial`, the explorers, the
oracles, drivers and release tools, `Format`.

Not modelled, and why:

- `elite_version.c`, topology probing, performance counters: constant tables,
  or text and I/O of one thread without a protocol.
- checksums and the byte-level checks of a header or grant: data only; a trusted
  grant passes them, and a changed one is refused before any state changes.
- the Promela models and C11 litmus tests: specifications of the same program.
- the C benchmarks and `bench_python.py`: measurement over the same interface;
  the latter is a shorter form of the protocol in MatrixTrial.
- `verify_cache_provenance.py`, `verify_release.py`'s report, the Homebrew formula
  generator, packaging, CI files: formats and text.
- in the Python binding: the encoding of grants and receipts, the creation of a
  successor beside the old generation, and the exit callback.
- an interrupt between `elite_detach` and the assignment of its receipt
  (`__init__.py:210`), which the documents exclude.

## 7. Running

`tlc -workers 2 -config NcqRetire.cfg MCNcq.tla`, and so on (the module of each
configuration is in `PROJECT.json`); `tlapm NcqProofs.tla` for the proofs.  The
operators marked "Mutant" are plausible bugs: put in place of the definition
that follows them, each makes TLC find a property violated.
