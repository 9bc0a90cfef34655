---------------------------- MODULE LeaseProofs ----------------------------
(***************************************************************************)
(* The leases of one endpoint of the Python binding, for every set of      *)
(* threads, every subset of them that a KeyboardInterrupt may reach, and   *)
(* every number of leases, of exports and of interrupts: a view that can   *)
(* still be touched keeps its slot, a token is never forgotten nor moved   *)
(* after an interrupted call, and a healthy process reports no failed      *)
(* cleanup.                                                                *)
(***************************************************************************)
EXTENDS Lease, FiniteSetTheorems, TLAPS

(***************************************************************************)
(* The inductive invariant.  What a method of the endpoint relies on is    *)
(* only moved by the thread that holds the RLock; the exporters are moved  *)
(* by threads that do not hold it, and there the count of the exports and  *)
(* the flags of the close decide who may do what.                          *)
(***************************************************************************)
LockSteps == {"acquire", "acquired", "retain", "retained", "export", "end_view", "view_ended",
              "transfer", "transferred", "detach", "detached", "drain", "drained"}

\* t is inside a method that holds the RLock.
InLock(t) == \/ task[t].pc \in LockSteps
             \/ task[t].pc = "drop" /\ task[t].by # "exporter"
             \/ task[t].pc \in {"finish", "cleanup", "retire", "retired"} /\ task[t].by # "pin"

Begins   == {"acquire", "acquired", "retain", "retained", "export", "reexport"}
Drops    == {"drop", "end_view", "view_ended"}
Ends     == {"finish", "transfer", "transferred"}
Cleans   == {"cleanup", "retire", "retired"}
Detaches == {"detach", "detached"}
Answered == {"retained", "view_ended", "transferred", "retired", "detached"}

\* On whose behalf a task may be at a step, and what it works on.
Shape(t) ==
  /\ At(t, "idle") => task[t] = NoTask
  /\ task[t].pc \in Begins => task[t].by = "app" /\ task[t].lease # 0
  /\ task[t].pc \in Drops => task[t].by \in {"app", "undo", "exporter"} /\ task[t].lease # 0
  /\ task[t].pc \in Ends => task[t].by \in {"app", "exporter", "pin"} /\ task[t].lease # 0
  /\ task[t].pc \in Cleans => task[t].by \in {"exporter", "pin"} /\ task[t].lease # 0
  /\ task[t].pc \in {"drain", "drained"} => task[t].by = "app" /\ task[t].lease = 0
  /\ At(t, "close") => task[t].by = "endpoint" /\ task[t].lease = 0
  /\ task[t].pc \in Detaches => \/ task[t].by = "endpoint" /\ task[t].lease = 0
                                \/ task[t].by = "app"
                                \/ task[t].by \in {"exporter", "pin"} /\ task[t].lease # 0
  /\ task[t].pc \in Ends \/ (task[t].pc \in Drops /\ task[t].by = "app") => task[t].act \in Acts
  /\ At(t, "acquire") => task[t].res = "none"
  /\ task[t].pc \in Answered => task[t].res \in {"ok", "error"}

Locked(t) == InLock(t) <=> lock = t

\* t runs the close of an exporter or the cleanup of a _Pin.
Finalizer(t) == task[t].by \in {"exporter", "pin"}

\* Nobody but finalizers can come to l any more.
Gone(l) == /\ state[l].made /\ l \notin app.leases /\ app.views[l] = 0
           /\ \A t \in Threads : task[t].lease = l => Finalizer(t)

Life(l) ==
  /\ state[l].cleanupRequested = state[l].finalized
  /\ state[l].finalized \/ exporter[l].closeRequested => Gone(l)
  /\ ~state[l].made => /\ state[l] = NewState /\ exporter[l] = NoExporter
                       /\ l \notin app.leases /\ app.views[l] = 0 /\ app.stale[l] = 0

\* A finalizer works alone.
Works(t) == task[t].lease # 0 =>
  /\ state[task[t].lease].made
  /\ Finalizer(t) => /\ Gone(task[t].lease)
                     /\ \A u \in Threads \ {t} : task[u].lease # task[t].lease

\* The exports of an exporter are the views and those about to become one.
Exporting(l) == {t \in Threads : task[t].pc \in {"export", "reexport"} /\ task[t].lease = l}
Counted(l) ==
  /\ IsFiniteSet(Exporting(l))
  /\ exporter[l].exports = app.views[l] + app.stale[l] + Cardinality(Exporting(l))

\* t is closing the exporter of l; t is taking a pin for a new exporter, or
\* dropping it because the exporter could not be made.
Closer(t, l)  == /\ task[t].lease = l
                 /\ \/ task[t].by = "exporter"
                    \/ task[t].by = "app" /\ task[t].pc \in Drops
Pinning(t, l) == /\ task[t].lease = l
                 /\ \/ task[t].pc \in {"retain", "retained"}
                    \/ task[t].by = "undo" /\ task[t].pc \in Drops

Exports(l) ==
  /\ exporter[l].exports > 0 => ~exporter[l].closed /\ ~state[l].uncertain
  /\ ~exporter[l].closed => exporter[l].rooted /\ state[l].viewPin /\ ~exporter[l].closing
  /\ exporter[l].rooted /\ exporter[l].closed => exporter[l].closing
  /\ exporter[l].closing => exporter[l].rooted /\ \E t \in Threads : Closer(t, l)
  /\ exporter[l].closeRequested /\ ~exporter[l].closed /\ exporter[l].exports = 0 => l \in failed
  /\ state[l].viewPin => \/ exporter[l].rooted \/ l \in failed
                         \/ lock \in Threads /\ Pinning(lock, l)
Closes(t) ==
  /\ task[t].lease # 0 /\ Closer(t, task[t].lease) =>
       /\ exporter[task[t].lease].closing
       /\ state[task[t].lease].viewPin <=> task[t].pc \in Drops
  /\ task[t].lease # 0 /\ Pinning(t, task[t].lease) =>
       /\ state[task[t].lease].viewPin
       /\ exporter[task[t].lease].closed /\ ~exporter[task[t].lease].rooted
  /\ At(t, "finish") /\ Finalizer(t) /\ task[t].act = "return" =>
       /\ state[task[t].lease].active /\ ~state[task[t].lease].uncertain
       /\ ~state[task[t].lease].viewPin

\* The native pin of a view, and the steps at which the endpoint believes in
\* one that is not there yet, or any more.
Pinned(l)   == native.owner = l /\ native.views = 1
Unpinned(t) == \/ At(t, "retain")
               \/ At(t, "retained") /\ task[t].res = "error"
               \/ At(t, "view_ended") /\ task[t].res = "ok"
Pins(l) ==
  /\ Pinned(l) => state[l].viewPin
  /\ state[l].viewPin /\ ~state[l].uncertain =>
       Pinned(l) \/ (lock \in Threads /\ task[lock].lease = l /\ Unpinned(lock))
Retains(t) == Unpinned(t) => ~Pinned(task[t].lease)

LiveSteps    == {"retain", "retained", "end_view", "view_ended", "transfer", "transferred"}
Obtaining(t) == task[t].pc \in {"acquire", "acquired"}
Token(l) ==
  /\ state[l].acquiring => lock \in Threads /\ task[lock].lease = l /\ Obtaining(lock)
  /\ state[l].uncertain => l \in failed
  /\ native.owner = l =>
       /\ life.poisoned \/ life.pin = l
       /\ state[l].active \/ (lock \in Threads /\ task[lock].lease = l /\ Obtaining(lock))
       /\ \/ ~state[l].finalized \/ exporter[l].rooted \/ l \in failed
          \/ \E t \in Threads : task[t].lease = l
  /\ state[l].active /\ ~state[l].uncertain =>
       \/ native.owner = l
       \/ lock \in Threads /\ task[lock].lease = l /\ At(lock, "transferred") /\ task[lock].res = "ok"
Relies(t) ==
  /\ Obtaining(t) =>
       /\ state[task[t].lease].acquiring /\ ~state[task[t].lease].active
       /\ ~state[task[t].lease].uncertain /\ ~state[task[t].lease].viewPin
       /\ life.pin = task[t].lease /\ native.attached
       /\ native.owner = IF Owning(t) THEN task[t].lease ELSE 0
  /\ task[t].pc \in LiveSteps \/ (At(t, "drop") /\ task[t].by = "undo") => Live(task[t].lease)
  /\ task[t].pc \in {"transfer", "transferred"} => ~state[task[t].lease].viewPin
  /\ At(t, "transferred") /\ task[t].res = "ok" => native.owner = 0
  /\ task[t].pc \in Detaches => native.owner = 0

Native ==
  /\ native.owner = 0 => native.views = 0
  /\ native.owner # 0 => native.attached

Healthy == interrupts = 0 /\ native.gate # "FAILED" /\ ~native.poisoned
Health  == Healthy => failed = {} /\ ~life.poisoned
Reports(t) == Healthy =>
  /\ task[t].pc \notin {"retire", "retired"}
  /\ At(t, "view_ended") => task[t].res = "ok"
  /\ task[t].pc \in Ends /\ Finalizer(t) => task[t].act = "return"
  /\ At(t, "transferred") /\ task[t].res = "error" => task[t].by = "app"
  /\ At(t, "detached") /\ task[t].res = "error" => task[t].by = "app" /\ task[t].lease = 0
  /\ At(t, "close") =>
       ~app.endpoint /\ (life.pin # 0 => ~state[life.pin].active /\ ~state[life.pin].acquiring)

\* The types, with the counts unbounded: their bounds follow.
NativeType == [attached : BOOLEAN, owner : {0} \cup Leases, views : 0 .. 1,
               gate : {"READY", "RETIRED", "FAILED"}, poisoned : BOOLEAN]
LifeType   == [pin : {0} \cup Leases, poisoned : BOOLEAN, closeRequested : BOOLEAN,
               receipt : {"none", "saved"}]
StateType  == [made : BOOLEAN, active : BOOLEAN, acquiring : BOOLEAN, uncertain : BOOLEAN,
               viewPin : BOOLEAN, cleanupRequested : BOOLEAN, finalized : BOOLEAN]
ExportType == [rooted : BOOLEAN, closed : BOOLEAN, closing : BOOLEAN,
               closeRequested : BOOLEAN, exports : 0 .. MaxViews]
AppType    == [endpoint : BOOLEAN, leases : SUBSET Leases,
               views : [Leases -> Nat], stale : [Leases -> Nat]]
TaskType   == [pc : Steps, lease : {0} \cup Leases, act : Acts \cup {"none"},
               res : {"none", "ok", "error", "kept"},
               by : {"app", "undo", "exporter", "pin", "endpoint"}]
Types ==
  /\ native \in NativeType /\ life \in LifeType
  /\ lock \in Threads \cup {NoThread}
  /\ state \in [Leases -> StateType] /\ exporter \in [Leases -> ExportType]
  /\ app \in AppType
  /\ failed \subseteq {0} \cup Leases
  /\ task \in [Threads -> TaskType]
  /\ interrupts \in 0 .. MaxInterrupts

LeaseInv(l) == Life(l) /\ Counted(l) /\ Exports(l) /\ Pins(l) /\ Token(l)
TaskInv(t)  == /\ Shape(t) /\ Locked(t) /\ Works(t) /\ Closes(t) /\ Retains(t)
               /\ Relies(t) /\ Reports(t)
IInv == /\ Types /\ Native /\ Health
        /\ \A l \in Leases : LeaseInv(l)
        /\ \A t \in Threads : TaskInv(t)
-----------------------------------------------------------------------------
(***************************************************************************)
(* What a step may touch: the task of one thread and what belongs to one   *)
(* lease, or no thread (NoThread) or no lease (0).                         *)
(***************************************************************************)
Same(k) == /\ state'[k] = state[k] /\ exporter'[k] = exporter[k]
           /\ app'.views[k] = app.views[k] /\ app'.stale[k] = app.stale[k]
           /\ k \in app'.leases <=> k \in app.leases
           /\ k \in failed' <=> k \in failed
           /\ native'.owner = k <=> native.owner = k
           /\ native.owner = k => native'.views = native.views /\ life'.pin = life.pin

\* What the lock protects.
Kept(l) == /\ native'.attached = native.attached /\ native'.owner = native.owner
           /\ native'.views = native.views
           /\ life'.pin = life.pin /\ life'.poisoned = life.poisoned
           /\ l # 0 => /\ state'[l].active = state[l].active
                       /\ state'[l].acquiring = state[l].acquiring
                       /\ state'[l].uncertain = state[l].uncertain
                       /\ state'[l].viewPin = state[l].viewPin
                       /\ \/ exporter[l].exports > 0
                          \/ \A u \in Threads : task[u].lease # l
                          \/ /\ exporter'[l].closed = exporter[l].closed
                             /\ exporter'[l].closing = exporter[l].closing
                             /\ exporter'[l].rooted = exporter[l].rooted

Local(t, l) ==
  /\ \A u \in Threads \ {t} : task'[u] = task[u]
  /\ t \in Threads => task[t].lease \in {0, l} /\ task'[t].lease \in {0, l}
  /\ \A k \in Leases \ {l} : Same(k)
  /\ lock' = lock \/ (lock \in {NoThread, t} /\ lock' \in {NoThread, t})
  /\ lock \notin {NoThread, t} => Kept(l)
  /\ l # 0 => /\ state[l].made => state'[l].made
              /\ state'[l].active => state[l].active \/ state[l].acquiring
              /\ state'[l].acquiring => state[l].acquiring \/ app.endpoint
              /\ \A u \in Threads \ {t} : task[u].lease = l => ~Finalizer(u)
  /\ life.poisoned => life'.poisoned
  /\ life'.pin \in {0, life.pin} \/ app.endpoint
  /\ app'.endpoint => app.endpoint
  /\ Healthy' => Healthy

\* The other threads keep their tasks, and the one that holds the lock what the lock
\* protects.
LEMMA BystanderLocked ==
  ASSUME IInv, NEW t \in Threads \cup {NoThread}, NEW l \in {0} \cup Leases, Local(t, l),
         NEW u \in Threads \ {t}
  PROVE  /\ task'[u] = task[u] /\ TaskInv(u)
         /\ InLock(u) => lock = u /\ lock' = u /\ Kept(l)
         /\ Locked(u)'
BY LeaseAssumption DEF IInv, TaskInv, Locked, InLock, Local

\* A step leaves a lease it does not work on as it was.
LEMMA OtherLease ==
  ASSUME IInv, NEW t \in Threads \cup {NoThread}, NEW l \in {0} \cup Leases, Local(t, l), Types',
         NEW k \in Leases \ {l}
  PROVE  LeaseInv(k)'
<1> USE DEF Same
<1>1. k # 0 /\ k # l /\ LeaseInv(k) /\ Same(k)
  BY LeaseAssumption DEF IInv, Local, Leases
<1>2. \A u \in Threads : \/ task[u].lease = k /\ u # t
                         \/ task[u].lease # k
  BY <1>1 DEF Local
<1>3. \A u \in Threads : task'[u].lease = k <=> task[u].lease = k
  BY <1>1 DEF Local
<1>4. \A u \in Threads : task[u].lease = k => task'[u] = task[u]
  BY <1>2 DEF Local
<1>5. ASSUME lock \in Threads, task[lock].lease = k
      PROVE  lock' = lock /\ task'[lock] = task[lock] /\ lock' \in Threads
  BY <1>4, <1>5, <1>2, LeaseAssumption DEF Local
<1>6. Gone(k) => Gone(k)'
  BY <1>1, <1>3, <1>4 DEF Gone, Finalizer
<1>7. Life(k)'
  BY <1>1, <1>6 DEF Life, LeaseInv
<1>8. Counted(k)'
  <2>1. Exporting(k)' = Exporting(k)
    BY <1>3, <1>4 DEF Exporting
  <2>2. QED
    BY <2>1, <1>1 DEF Counted, LeaseInv
<1>9. Exports(k)'
  <2>1. \A u \in Threads : Closer(u, k) => Closer(u, k)'
    BY <1>3, <1>4 DEF Closer
  <2>2. lock \in Threads /\ Pinning(lock, k) => lock' \in Threads /\ Pinning(lock, k)'
    BY <1>3, <1>4, <1>5 DEF Pinning
  <2>3. QED
    BY <2>1, <2>2, <1>1 DEF Exports, LeaseInv
<1>10. Pins(k)'
  BY <1>1, <1>5 DEF Pins, LeaseInv, Pinned, Unpinned, At
<1>11. Token(k)'
  <2>1. (\E u \in Threads : task[u].lease = k) => \E u \in Threads : task'[u].lease = k
    BY <1>3
  <2>2. life.poisoned => life'.poisoned
    BY DEF Local
  <2>3. QED
    BY <2>1, <2>2, <1>1, <1>5 DEF Token, LeaseInv, Obtaining, At
<1>12. QED
  BY <1>7, <1>8, <1>9, <1>10, <1>11 DEF LeaseInv

\* A step of t leaves the other threads what their tasks rely on.
LEMMA OtherThread ==
  ASSUME IInv, NEW t \in Threads \cup {NoThread}, NEW l \in {0} \cup Leases, Local(t, l), Types',
         NEW u \in Threads \ {t}
  PROVE  TaskInv(u)'
<1>1. /\ task'[u] = task[u] /\ TaskInv(u) /\ Locked(u)'
      /\ InLock(u) => lock = u /\ lock' = u /\ Kept(l)
  BY BystanderLocked
<1>2. Shape(u)'
  BY <1>1 DEF TaskInv, Shape, At
<1>3. ASSUME task[u].lease # 0, task[u].lease # l
      PROVE  task[u].lease \in Leases /\ Same(task[u].lease)
  BY <1>3 DEF IInv, Types, TaskType, Local
<1>4. ASSUME task[u].lease # 0, task[u].lease = l
      PROVE  ~Finalizer(u) /\ l \in Leases /\ (state[l].made => state'[l].made)
  BY <1>4 DEF Local
<1>5. Works(u)'
  <2>1. SUFFICES ASSUME task[u].lease # 0
                 PROVE  Works(u)'
    BY <1>1 DEF Works
  <2>2. CASE task[u].lease = l
    BY <2>1, <2>2, <1>1, <1>4 DEF Works, TaskInv, Finalizer
  <2>3. CASE task[u].lease # l
    <3> DEFINE k == task[u].lease
    <3>1. k \in Leases /\ Same(k) /\ k # l /\ k # 0
      BY <2>1, <2>3, <1>3
    <3>2. \A v \in Threads : task'[v].lease = k <=> task[v].lease = k
      BY <3>1 DEF Local
    <3>3. \A v \in Threads : task[v].lease = k => task'[v] = task[v]
      BY <3>1 DEF Local
    <3>4. Gone(k) => Gone(k)'
      BY <3>1, <3>2, <3>3 DEF Gone, Finalizer, Same
    <3>5. state[k].made /\ (Finalizer(u) => Gone(k) /\ \A v \in Threads \ {u} : task[v].lease # k)
      BY <1>1, <2>1 DEF Works, TaskInv
    <3>6. state'[k].made /\ (Finalizer(u)' => Gone(k)' /\ \A v \in Threads \ {u} : task'[v].lease # k)
      BY <1>1, <3>1, <3>2, <3>4, <3>5 DEF Same, Finalizer
    <3>7. Gone(k)' <=> Gone(task[u].lease)'
      BY <1>1 DEF Gone
    <3>8. QED
      BY <1>1, <3>6, <3>7 DEF Works
  <2>4. QED
    BY <2>2, <2>3
<1>6. Closes(u)' /\ Retains(u)' /\ Relies(u)'
  <2>1. CASE task[u].lease = 0
    <3>1. task[u].pc \in {"idle", "drain", "drained", "close", "detach", "detached"}
      BY <1>1, <2>1 DEF TaskInv, Shape, Begins, Drops, Ends, Cleans, Detaches, IInv, Types,
         TaskType, Steps, InCall, Calls
    <3>2. Closes(u)' /\ Retains(u)'
      BY <3>1, <1>1, <2>1 DEF Closes, Retains, Unpinned, At
    <3>3. task[u].pc \in Detaches => native'.owner = native.owner
      BY <1>1 DEF InLock, LockSteps, Detaches, Kept
    <3>4. Relies(u)'
      BY <3>1, <3>3, <1>1 DEF Relies, TaskInv, Obtaining, LiveSteps, Detaches, At
    <3>5. QED
      BY <3>2, <3>4
  <2>2. CASE task[u].lease # 0 /\ task[u].lease # l
    <3>1. Same(task[u].lease) /\ Closes(u) /\ Retains(u) /\ Relies(u)
      BY <1>1, <1>3, <2>2 DEF TaskInv
    <3>2. Closes(u)'
      BY <1>1, <3>1 DEF Closes, Same, Closer, Pinning, Finalizer, At
    <3>3. Retains(u)'
      BY <1>1, <3>1 DEF Retains, Same, Unpinned, Pinned, At
    <3>4. CASE InLock(u)
      <4>1. Kept(l)
        BY <1>1, <3>4
      <4>2. QED
        BY <1>1, <3>1, <3>2, <3>3, <4>1
           DEF Relies, Same, Kept, Live, Owning, Obtaining, LiveSteps, Detaches, At
    <3>5. CASE ~InLock(u)
      <4>1. /\ ~Obtaining(u) /\ task[u].pc \notin LiveSteps \cup Detaches
            /\ ~(At(u, "drop") /\ task[u].by = "undo")
        BY <3>5 DEF InLock, Obtaining, LiveSteps, LockSteps, Detaches, At
      <4>2. Relies(u)'
        BY <1>1, <4>1 DEF Relies, Obtaining, LiveSteps, Detaches, At
      <4>3. QED
        BY <3>2, <3>3, <4>2
    <3>6. QED
      BY <3>4, <3>5
  <2>3. CASE task[u].lease # 0 /\ task[u].lease = l
    <3>1. l \in Leases /\ ~Finalizer(u) /\ LeaseInv(l)
      BY <1>4, <2>3 DEF IInv
    <3>2. CASE InLock(u)
      <4>1. Kept(l) /\ Closes(u) /\ Retains(u) /\ Relies(u) /\ Exports(l)
        BY <1>1, <3>1, <3>2 DEF TaskInv, LeaseInv
      <4>2. Closes(u)'
        BY <1>1, <2>3, <3>1, <4>1 DEF Closes, Kept, Closer, Pinning, Finalizer, Exports, At
      <4>3. Retains(u)'
        BY <1>1, <2>3, <4>1 DEF Retains, Kept, Unpinned, Pinned, At
      <4>4. Relies(u)'
        BY <1>1, <2>3, <4>1 DEF Relies, Kept, Live, Owning, Obtaining, LiveSteps, Detaches, At
      <4>5. QED
        BY <4>2, <4>3, <4>4
    <3>3. CASE ~InLock(u)
      <4>1. At(u, "reexport") /\ task[u].by = "app"
        BY <1>1, <2>3, <3>1, <3>3 DEF TaskInv, Shape, Finalizer, InLock, LockSteps, Begins,
           Drops, Ends, Cleans, Detaches, At, NoTask, IInv, Types, TaskType, Steps, InCall,
           Calls
      <4>2. QED
        BY <4>1, <1>1 DEF Closes, Retains, Relies, Closer, Pinning, Unpinned, Obtaining, LiveSteps,
                          Detaches, Drops, At
    <3>4. QED
      BY <3>2, <3>3
  <2>4. QED
    BY <2>1, <2>2, <2>3
<1>9. Reports(u)'
  <2>1. Healthy' => Healthy
    BY DEF Local
  <2>2. ASSUME At(u, "close"), ~app.endpoint, life.pin # 0 => ~state[life.pin].active /\ ~state[life.pin].acquiring
        PROVE  /\ ~app'.endpoint
               /\ life'.pin # 0 => ~state'[life'.pin].active /\ ~state'[life'.pin].acquiring
    <3>1. ~app'.endpoint /\ life'.pin \in {0, life.pin}
      BY <2>2 DEF Local
    <3>2. CASE life.pin = l
      BY <2>2, <3>1, <3>2 DEF Local, IInv, Types, LifeType
    <3>3. CASE life.pin # l
      BY <2>2, <3>1, <3>3 DEF Local, Same, IInv, Types, LifeType
    <3>4. QED
      BY <3>2, <3>3
  <2>3. QED
    BY <2>1, <2>2, <1>1 DEF Reports, TaskInv, Finalizer, At
<1>10. QED
  BY <1>1, <1>2, <1>5, <1>6, <1>9 DEF TaskInv

\* So a step that touches one task and one lease is right as soon as these
\* are.
LEMMA LocalStep ==
  ASSUME IInv, NEW t \in Threads \cup {NoThread}, NEW l \in {0} \cup Leases, Local(t, l),
         Types', Native', Health',
         t \in Threads => TaskInv(t)',
         l \in Leases => LeaseInv(l)'
  PROVE  IInv'
<1>1. \A u \in Threads : TaskInv(u)'
  BY OtherThread
<1>2. \A k \in Leases : LeaseInv(k)'
  BY OtherLease
<1>3. QED
  BY <1>1, <1>2 DEF IInv
-----------------------------------------------------------------------------
(***************************************************************************)
(* How a task goes on.                                                     *)
(***************************************************************************)

\* The record of a task with another step.
LEMMA TaskStep ==
  ASSUME NEW x \in TaskType, NEW p \in Steps
  PROVE  /\ [x EXCEPT !.pc = p] \in TaskType
         /\ [x EXCEPT !.pc = p].pc = p
         /\ [x EXCEPT !.pc = p].lease = x.lease /\ [x EXCEPT !.pc = p].act = x.act
         /\ [x EXCEPT !.pc = p].res = x.res /\ [x EXCEPT !.pc = p].by = x.by
BY DEF TaskType

\* Only the task of t becomes another.
LEMMA Becomes ==
  ASSUME Types, NEW t \in Threads, NEW r \in TaskType, Become(t, r)
  PROVE  /\ task' \in [Threads -> TaskType] /\ task'[t] = r
         /\ \A u \in Threads \ {t} : task'[u] = task[u]
BY DEF Types, Become

\* t goes on at p.
LEMMA Moves ==
  ASSUME Types, NEW t \in Threads, NEW p \in Steps, Move(t, p)
  PROVE  /\ task' \in [Threads -> TaskType]
         /\ \A u \in Threads \ {t} : task'[u] = task[u]
         /\ task'[t].pc = p /\ task'[t].lease = task[t].lease /\ task'[t].act = task[t].act
         /\ task'[t].res = task[t].res /\ task'[t].by = task[t].by
<1>1. task[t] \in TaskType
  BY DEF Types
<1>2. [task[t] EXCEPT !.pc = p] \in TaskType
  BY <1>1, TaskStep
<1>3. Become(t, [task[t] EXCEPT !.pc = p])
  BY DEF Move
<1>4. /\ task' \in [Threads -> TaskType] /\ task'[t] = [task[t] EXCEPT !.pc = p]
      /\ \A u \in Threads \ {t} : task'[u] = task[u]
  BY <1>2, <1>3, Becomes
<1>5. QED
  BY <1>1, <1>4, TaskStep

\* The native call of t answers q, and t goes on at p.
LEMMA Returns ==
  ASSUME Types, NEW t \in Threads, NEW p \in Steps, NEW q \in {"none", "ok", "error", "kept"},
         Return(t, p, q)
  PROVE  /\ task' \in [Threads -> TaskType]
         /\ \A u \in Threads \ {t} : task'[u] = task[u]
         /\ task'[t].pc = p /\ task'[t].lease = task[t].lease /\ task'[t].act = task[t].act
         /\ task'[t].res = q /\ task'[t].by = task[t].by
<1>1. task[t] \in TaskType
  BY DEF Types
<1>2. [task[t] EXCEPT !.pc = p, !.res = q] \in TaskType
  BY <1>1 DEF TaskType
<1>3. Become(t, [task[t] EXCEPT !.pc = p, !.res = q])
  BY DEF Return
<1>4. /\ task' \in [Threads -> TaskType] /\ task'[t] = [task[t] EXCEPT !.pc = p, !.res = q]
      /\ \A u \in Threads \ {t} : task'[u] = task[u]
  BY <1>2, <1>3, Becomes
<1>5. LET r == [task[t] EXCEPT !.pc = p, !.res = q] IN
        /\ r.pc = p /\ r.lease = task[t].lease /\ r.act = task[t].act
        /\ r.res = q /\ r.by = task[t].by
  BY <1>1 DEF TaskType
<1>6. QED
  BY <1>4, <1>5

\* t is done.
LEMMA Stops ==
  ASSUME Types, NEW t \in Threads, Stop(t)
  PROVE  /\ task' \in [Threads -> TaskType] /\ task'[t] = NoTask
         /\ \A u \in Threads \ {t} : task'[u] = task[u]
         /\ task'[t].pc = "idle" /\ task'[t].lease = 0 /\ task'[t].act = "none"
         /\ task'[t].res = "none" /\ task'[t].by = "app"
<1>1. NoTask \in TaskType
  BY DEF NoTask, TaskType, Steps
<1>2. QED
  BY <1>1, Becomes DEF Stop, NoTask

\* What the invariant says of the thread that moves and of its lease.
LEMMA Mover ==
  ASSUME IInv, NEW t \in Threads, NEW l \in {0} \cup Leases, task[t].lease = l
  PROVE  /\ TaskInv(t) /\ Types /\ task[t] \in TaskType /\ (l # 0 => l \in Leases /\ LeaseInv(l))
         /\ \A k \in Leases : k # 0
         /\ \A u \in Threads \ {t} : l # 0 /\ task[u].lease = l => ~Finalizer(u) /\ ~Finalizer(t)
BY LeaseAssumption DEF IInv, TaskInv, Works, Leases, Types

\* A step that starts or ends no export leaves their count as it was; one
\* that does changes it by one.
LEMMA KeepsCount ==
  ASSUME NEW l \in Leases, Counted(l), exporter'[l].exports = exporter[l].exports,
         app'.views[l] + app'.stale[l] = app.views[l] + app.stale[l],
         \A u \in Threads : \/ task'[u] = task[u]
                            \/ /\ task[u].pc \notin {"export", "reexport"} \/ task[u].lease # l
                               /\ task'[u].pc \notin {"export", "reexport"} \/ task'[u].lease # l
  PROVE  Counted(l)'
<1>1. Exporting(l)' = Exporting(l)
  BY DEF Exporting
<1>2. QED
  BY <1>1 DEF Counted

\* An export that starts counts one more.
LEMMA ExportBegins ==
  ASSUME NEW l \in Leases, NEW t \in Threads, Counted(l), IInv,
         \A u \in Threads \ {t} : task'[u] = task[u],
         task[t].pc \notin {"export", "reexport"},
         task'[t].pc \in {"export", "reexport"}, task'[t].lease = l,
         exporter'[l].exports = exporter[l].exports + 1,
         app'.views[l] = app.views[l], app'.stale[l] = app.stale[l]
  PROVE  Counted(l)'
<1>1. t \notin Exporting(l) /\ Exporting(l)' = Exporting(l) \cup {t}
  BY DEF Exporting
<1>2. IsFiniteSet(Exporting(l)) /\ Cardinality(Exporting(l)) \in Nat
  BY FS_CardinalityType DEF Counted
<1>3. /\ IsFiniteSet(Exporting(l)')
      /\ Cardinality(Exporting(l)') = Cardinality(Exporting(l)) + 1
  BY <1>1, <1>2, FS_AddElement
<1>4. app.views[l] \in Nat /\ app.stale[l] \in Nat
  BY DEF IInv, Types, AppType
<1>5. QED
  BY <1>2, <1>3, <1>4 DEF Counted

\* An export that becomes a view, or fails, is counted as one no more.
LEMMA ExportEnds ==
  ASSUME NEW l \in Leases, NEW t \in Threads, Counted(l), IInv,
         \A u \in Threads \ {t} : task'[u] = task[u],
         task[t].pc \in {"export", "reexport"}, task[t].lease = l,
         task'[t].pc \notin {"export", "reexport"},
         app' \in AppType, exporter'[l].exports \in Nat,
         exporter'[l].exports - (app'.views[l] + app'.stale[l])
           = exporter[l].exports - (app.views[l] + app.stale[l]) - 1
  PROVE  Counted(l)'
<1>1. t \in Exporting(l) /\ Exporting(l)' = Exporting(l) \ {t}
  BY DEF Exporting
<1>2. IsFiniteSet(Exporting(l)) /\ Cardinality(Exporting(l)) \in Nat
  BY FS_CardinalityType DEF Counted
<1>3. /\ IsFiniteSet(Exporting(l)')
      /\ Cardinality(Exporting(l)') = Cardinality(Exporting(l)) - 1
  BY <1>1, <1>2, FS_RemoveElement
<1>4. /\ app.views[l] \in Nat /\ app.stale[l] \in Nat
      /\ app'.views[l] \in Nat /\ app'.stale[l] \in Nat
      /\ exporter[l].exports \in Nat
  BY DEF IInv, Types, AppType, ExportType
<1>5. QED
  BY <1>2, <1>3, <1>4 DEF Counted
-----------------------------------------------------------------------------
(***************************************************************************)
(* The native calls: between the call and its return only the connection   *)
(* and the task change.                                                    *)
(***************************************************************************)
CallPairs == {<<"acquire", "acquired">>, <<"retain", "retained">>, <<"end_view", "view_ended">>,
              <<"transfer", "transferred">>, <<"retire", "retired">>, <<"detach", "detached">>,
              <<"drain", "drained">>}

\* What such a step has to show: what the task and the lease rely on the
\* connection for.
LEMMA CallStep ==
  ASSUME IInv, NEW t \in Threads, NEW l \in {0} \cup Leases, task[t].lease = l,
         UNCHANGED <<life, lock, state, exporter, app, failed, interrupts>>,
         NEW p, NEW q \in {"none", "ok", "error", "kept"}, Return(t, p, q),
         <<task[t].pc, p>> \in CallPairs, p \in Answered => q \in {"ok", "error"},
         native' \in NativeType, Native', Healthy' => Healthy,
         lock # t => Kept(0),
         native'.owner # native.owner => {native.owner, native'.owner} = {0, l},
         native'.views # native.views => native.owner = l,
         Retains(t)', Relies(t)', Reports(t)',
         l # 0 => Pins(l)' /\ Token(l)'
  PROVE  IInv'
<1>1. /\ TaskInv(t) /\ Types /\ (l # 0 => l \in Leases /\ LeaseInv(l))
      /\ \A k \in Leases : k # 0
      /\ \A u \in Threads \ {t} : l # 0 /\ task[u].lease = l => ~Finalizer(u)
  BY Mover
<1>2. p \in Steps
  BY DEF CallPairs, Steps, InCall
<1>3. /\ task' \in [Threads -> TaskType]
      /\ \A u \in Threads \ {t} : task'[u] = task[u]
      /\ task'[t].pc = p /\ task'[t].lease = l /\ task'[t].act = task[t].act
      /\ task'[t].res = q /\ task'[t].by = task[t].by
  BY <1>1, <1>2, Returns
<1>4. Types'
  BY <1>1, <1>3 DEF Types
<1>5. Local(t, l)
  BY <1>1, <1>3 DEF Local, Same, Kept
<1>6. Shape(t)'
  BY <1>1, <1>3 DEF TaskInv, Shape, CallPairs, Begins, Drops, Ends, Cleans, Detaches, Answered, At
<1>7. Locked(t)'
  BY <1>1, <1>3 DEF TaskInv, Locked, InLock, CallPairs, LockSteps
<1>8. \A k \in {0} \cup Leases : Gone(k) => Gone(k)'
  BY <1>3 DEF Gone, Finalizer
<1>9. Works(t)'
  BY <1>1, <1>3, <1>8 DEF TaskInv, Works, Finalizer
<1>10. Closes(t)'
  BY <1>1, <1>3 DEF TaskInv, Closes, Closer, Pinning, CallPairs, Drops, Finalizer, At
<1>11. ASSUME l # 0
       PROVE  LeaseInv(l)'
  <2>1. l \in Leases /\ LeaseInv(l)
    BY <1>1, <1>11
  <2>2. Life(l)'
    BY <2>1, <1>8 DEF LeaseInv, Life
  <2>3. Counted(l)'
    BY <2>1, <1>3, KeepsCount DEF LeaseInv, CallPairs
  <2>4. Exports(l)'
    <3>1. \A u \in Threads : Closer(u, l) => Closer(u, l)'
      BY <1>3 DEF Closer, Drops, CallPairs
    <3>2. lock \in Threads /\ Pinning(lock, l) => Pinning(lock, l)'
      BY <1>3 DEF Pinning, Drops, CallPairs
    <3>3. QED
      BY <2>1, <3>1, <3>2 DEF LeaseInv, Exports
  <2>5. QED
    BY <2>2, <2>3, <2>4, <1>11 DEF LeaseInv
<1>12. Health'
  BY DEF IInv, Health
<1>13. QED
  BY <1>1, <1>4, <1>5, <1>6, <1>7, <1>9, <1>10, <1>11, <1>12, LocalStep DEF TaskInv

\* elite_write_reserve and elite_read_borrow: the slot was free, and only a token
\* changes that.
LEMMA AcquireStep ==
  ASSUME IInv, NEW t \in Threads, NEW l \in {0} \cup Leases, task[t].lease = l, Acquire(t)
  PROVE  IInv'
<1>1. /\ TaskInv(t) /\ Types /\ (l # 0 => l \in Leases /\ LeaseInv(l))
  BY Mover
<1>2. /\ At(t, "acquire") /\ task[t].by = "app" /\ task[t].res = "none" /\ lock = t
      /\ l # 0 /\ l \in Leases /\ native.owner = 0
      /\ UNCHANGED <<life, lock, state, exporter, app, failed, interrupts>>
  BY <1>1 DEF TaskInv, Locked, InLock, LockSteps, Relies, Shape, Obtaining, Owning, At, Acquire,
     Begins
<1>3. PICK q \in {"none", "ok", "error", "kept"} :
        /\ Return(t, "acquired", q)
        /\ q \in {"none", "error"} => native' = native
        /\ q = "ok" => native' = [native EXCEPT !.owner = l]
        /\ q = "kept" => native' = [native EXCEPT !.owner = l, !.poisoned = TRUE, !.gate = "FAILED"]
  BY DEF Acquire
<1>4. /\ \A u \in Threads \ {t} : task'[u] = task[u]
      /\ task'[t].pc = "acquired" /\ task'[t].lease = l /\ task'[t].act = task[t].act
      /\ task'[t].res = q /\ task'[t].by = "app"
  BY <1>1, <1>2, <1>3, Returns DEF Steps, InCall
<1>5. /\ native' \in NativeType
      /\ native'.attached = native.attached /\ native'.views = native.views
      /\ native'.owner = IF q \in {"ok", "kept"} THEN l ELSE 0
      /\ Healthy' => Healthy
  BY <1>1, <1>2, <1>3 DEF Types, NativeType, Healthy
<1>6. Native' /\ native.views = 0
  BY <1>1, <1>2, <1>5 DEF IInv, Native, TaskInv, Relies, Obtaining, At
<1>7. Retains(t)' /\ Relies(t)' /\ Reports(t)'
  BY <1>1, <1>2, <1>4, <1>5 DEF TaskInv, Retains, Relies, Reports, Unpinned, Obtaining, Owning,
     LiveSteps, Detaches, Ends, At
<1>8. Pins(l)'
  BY <1>1, <1>2, <1>4, <1>5, <1>6 DEF LeaseInv, Pins, Pinned, Unpinned, At
<1>9. Token(l)'
  BY <1>1, <1>2, <1>4, <1>5 DEF TaskInv, LeaseInv, Token, Relies, Obtaining, At
<1>10. QED
  BY <1>2, <1>3, <1>5, <1>6, <1>7, <1>8, <1>9, CallStep DEF CallPairs, Answered, At

\* With the lock held, a healthy endpoint never answers BUSY.
LEMMA NeverBusy ==
  ASSUME IInv, Healthy, NEW t \in Threads, InLock(t)
  PROVE  Answers(t) = {"entered"}
<1>1. SUFFICES ASSUME NEW u \in Threads \ {t}, task[u].pc \in InCall
               PROVE  FALSE
  BY DEF Answers
<1>2. lock = t /\ lock # u /\ ~InLock(u)
  BY DEF IInv, TaskInv, Locked
<1>3. task[u].pc \in {"retire", "retired"}
  BY <1>1, <1>2 DEF InLock, InCall, Calls, LockSteps
<1>4. QED
  BY <1>3 DEF IInv, TaskInv, Reports

\* elite_view_retain: the slot cannot have a pin yet.
LEMMA ViewRetainStep ==
  ASSUME IInv, NEW t \in Threads, NEW l \in {0} \cup Leases, task[t].lease = l, ViewRetain(t)
  PROVE  IInv'
<1>1. /\ TaskInv(t) /\ Types /\ (l # 0 => l \in Leases /\ LeaseInv(l))
  BY Mover
<1>2. /\ At(t, "retain") /\ task[t].by = "app" /\ lock = t /\ l # 0 /\ l \in Leases
      /\ Live(l) /\ ~Pinned(l)
      /\ UNCHANGED <<life, lock, state, exporter, app, failed, interrupts>>
  BY <1>1 DEF TaskInv, Locked, InLock, LockSteps, Relies, LiveSteps, Retains, Unpinned, Shape,
     Begins, At, ViewRetain
<1>3. PICK q \in {"ok", "error"} :
        /\ Return(t, "retained", q)
        /\ q = "error" => native' = native
        /\ q = "ok" => native.owner = l /\ native' = [native EXCEPT !.views = @ + 1]
  BY <1>2 DEF ViewRetain
<1>4. /\ \A u \in Threads \ {t} : task'[u] = task[u]
      /\ task'[t].pc = "retained" /\ task'[t].lease = l /\ task'[t].res = q /\ task'[t].by = "app"
  BY <1>1, <1>2, <1>3, Returns DEF Steps, InCall
<1>5. /\ native' \in NativeType
      /\ native'.attached = native.attached /\ native'.owner = native.owner
      /\ q = "ok" => native'.views = 1 /\ native.owner = l
      /\ q = "error" => native'.views = native.views
      /\ Healthy' => Healthy
  BY <1>1, <1>2, <1>3 DEF Types, NativeType, Healthy, Pinned
<1>6. Native'
  BY <1>2, <1>5 DEF IInv, Native
<1>7. Retains(t)' /\ Relies(t)' /\ Reports(t)'
  BY <1>2, <1>4, <1>5 DEF Retains, Relies, Reports, Unpinned, Pinned, Obtaining, LiveSteps, Live,
     Detaches, Ends, At
<1>8. Pins(l)'
  BY <1>1, <1>2, <1>4, <1>5 DEF TaskInv, LeaseInv, Closes, Pinning, Pins, Pinned, Unpinned, At
<1>9. Token(l)'
  BY <1>1, <1>2, <1>4, <1>5 DEF LeaseInv, Token, Obtaining, At
<1>10. QED
  BY <1>2, <1>3, <1>5, <1>6, <1>7, <1>8, <1>9, CallStep DEF CallPairs, Answered, At

\* elite_view_end: the pin is there, so a healthy endpoint answers ok.
LEMMA ViewEndStep ==
  ASSUME IInv, NEW t \in Threads, NEW l \in {0} \cup Leases, task[t].lease = l, ViewEnd(t)
  PROVE  IInv'
<1>1. /\ TaskInv(t) /\ Types /\ (l # 0 => l \in Leases /\ LeaseInv(l))
  BY Mover
<1>2. /\ At(t, "end_view") /\ InLock(t) /\ lock = t /\ l # 0 /\ l \in Leases
      /\ Live(l) /\ state[l].viewPin
      /\ UNCHANGED <<life, lock, state, exporter, app, failed, interrupts>>
  BY <1>1 DEF TaskInv, Locked, InLock, LockSteps, Relies, LiveSteps, Closes, Closer, Pinning,
     Shape, Drops, At, ViewEnd
<1>3. PICK q \in {"ok", "error"} :
        /\ Return(t, "view_ended", q)
        /\ q = "error" => native' = native
        /\ q = "ok" => /\ native.owner = l /\ native.views # 0
                       /\ native' = [native EXCEPT !.views = @ - 1]
        /\ q = "error" /\ native.owner = l /\ native.views # 0 => Answers(t) # {"entered"}
  BY <1>2 DEF ViewEnd
<1>4. /\ \A u \in Threads \ {t} : task'[u] = task[u]
      /\ task'[t].pc = "view_ended" /\ task'[t].lease = l /\ task'[t].res = q
      /\ task'[t].by = task[t].by
  BY <1>1, <1>2, <1>3, Returns DEF Steps, InCall
<1>5. Pinned(l)
  BY <1>1, <1>2 DEF LeaseInv, Pins, Unpinned, Live, At
<1>6. /\ native' \in NativeType
      /\ native'.attached = native.attached /\ native'.owner = native.owner
      /\ q = "ok" => native'.views = 0
      /\ q = "error" => native'.views = native.views
      /\ Healthy' => Healthy
  BY <1>1, <1>2, <1>3, <1>5 DEF Types, NativeType, Healthy, Pinned
<1>7. Native'
  BY <1>2, <1>5, <1>6 DEF IInv, Native, Pinned
<1>8. Retains(t)' /\ Relies(t)'
  BY <1>2, <1>4, <1>6 DEF Retains, Relies, Unpinned, Pinned, Obtaining, LiveSteps, Live,
     Detaches, At
<1>9. Reports(t)'
  <2>1. Healthy => q = "ok"
    BY <1>2, <1>3, <1>5, NeverBusy DEF Pinned
  <2>2. QED
    BY <2>1, <1>4, <1>6 DEF Reports, Ends, At
<1>10. Pins(l)'
  BY <1>1, <1>2, <1>4, <1>6 DEF LeaseInv, Pins, Pinned, Unpinned, At
<1>11. Token(l)'
  BY <1>1, <1>2, <1>4, <1>6 DEF LeaseInv, Token, Obtaining, At
<1>12. QED
  BY <1>2, <1>3, <1>5, <1>6, <1>7, <1>8, <1>9, <1>10, <1>11, CallStep
     DEF CallPairs, Answered, Pinned, At

\* elite_write_commit, el_release_public, elite_abandon_retained: the token is the
\* lease's and has no view left; a cleanup is only refused one that is damaged.
LEMMA TransferStep ==
  ASSUME IInv, NEW t \in Threads, NEW l \in {0} \cup Leases, task[t].lease = l, Transfer(t)
  PROVE  IInv'
<1>1. /\ TaskInv(t) /\ Types /\ (l # 0 => l \in Leases /\ LeaseInv(l))
  BY Mover
<1>2. /\ At(t, "transfer") /\ InLock(t) /\ lock = t /\ l # 0 /\ l \in Leases
      /\ Live(l) /\ ~state[l].viewPin
      /\ UNCHANGED <<life, lock, state, exporter, app, failed, interrupts>>
  BY <1>1 DEF TaskInv, Locked, InLock, LockSteps, Relies, LiveSteps, Shape, Ends, At, Transfer
<1>3. native.owner = l /\ native.views = 0
  BY <1>1, <1>2 DEF LeaseInv, Token, Pins, Pinned, Live, At, Types, NativeType
<1>4. PICK q \in {"ok", "error"} :
        /\ Return(t, "transferred", q)
        /\ q = "ok" => native' = [native EXCEPT !.owner = 0, !.poisoned = @ \/ task[t].act = "abandon"]
        /\ q = "error" => \/ /\ native' = native
                             /\ Answers(t) # {"entered"} \/ ~Admitted(l, task[t].act)
                          \/ native' = [native EXCEPT !.poisoned = TRUE, !.gate = "FAILED"]
  BY <1>2 DEF Transfer
<1>5. /\ \A u \in Threads \ {t} : task'[u] = task[u]
      /\ task'[t].pc = "transferred" /\ task'[t].lease = l /\ task'[t].res = q
      /\ task'[t].by = task[t].by /\ task'[t].act = task[t].act
  BY <1>1, <1>2, <1>4, Returns DEF Steps, InCall
<1>6. /\ native' \in NativeType
      /\ native'.attached = native.attached /\ native'.views = 0
      /\ native'.owner = IF q = "ok" THEN 0 ELSE l
      /\ Healthy' => Healthy
      /\ Healthy' /\ q = "error" => Answers(t) # {"entered"} \/ ~Admitted(l, task[t].act)
  BY <1>1, <1>2, <1>3, <1>4 DEF Types, NativeType, Healthy
<1>7. Native'
  BY <1>2, <1>3, <1>6 DEF IInv, Native
<1>8. Retains(t)' /\ Relies(t)'
  BY <1>2, <1>5, <1>6 DEF Retains, Relies, Unpinned, Pinned, Obtaining, LiveSteps, Live,
     Detaches, At
<1>9. Reports(t)'
  <2>1. ASSUME Healthy', Finalizer(t)
        PROVE  q = "ok" /\ task[t].act = "return"
    <3>1. task[t].act = "return"
      BY <1>1, <1>2, <1>6, <2>1 DEF TaskInv, Reports, Ends, At
    <3>2. Answers(t) = {"entered"}
      BY <1>2, <1>6, <2>1, NeverBusy
    <3>3. Admitted(l, "return")
      BY <1>3, <1>6, <2>1 DEF Admitted, Healthy
    <3>4. QED
      BY <1>6, <2>1, <3>1, <3>2, <3>3
  <2>2. task[t].by = "app" \/ Finalizer(t)
    BY <1>1, <1>2 DEF TaskInv, Shape, Ends, At, Finalizer
  <2>3. QED
    BY <2>1, <2>2, <1>5 DEF Reports, Finalizer, Ends, At
<1>10. Pins(l)'
  BY <1>2, <1>6 DEF Pins, Pinned
<1>11. Token(l)'
  BY <1>1, <1>2, <1>3, <1>5, <1>6 DEF LeaseInv, Token, Obtaining, At
<1>12. QED
  BY <1>2, <1>3, <1>4, <1>6, <1>7, <1>8, <1>9, <1>10, <1>11, CallStep DEF CallPairs, Answered, At

\* elite_retire, which a _Pin's finalizer calls without the lock: it moves neither
\* token nor pin.
LEMMA RetireStep ==
  ASSUME IInv, NEW t \in Threads, NEW l \in {0} \cup Leases, task[t].lease = l, Retire(t)
  PROVE  IInv'
<1>1. /\ TaskInv(t) /\ Types /\ (l # 0 => l \in Leases /\ LeaseInv(l))
  BY Mover
<1>2. /\ At(t, "retire") /\ l # 0 /\ l \in Leases
      /\ UNCHANGED <<life, lock, state, exporter, app, failed, interrupts>>
  BY <1>1 DEF TaskInv, Shape, Cleans, At, Retire
<1>3. PICK q \in {"ok", "error"} :
        /\ Return(t, "retired", q)
        /\ native' \in {native, [native EXCEPT !.gate = IF @ = "READY" THEN "RETIRED" ELSE @]}
  BY <1>2 DEF Retire
<1>4. /\ \A u \in Threads \ {t} : task'[u] = task[u]
      /\ task'[t].pc = "retired" /\ task'[t].lease = l /\ task'[t].res = q
      /\ task'[t].by = task[t].by
  BY <1>1, <1>2, <1>3, Returns DEF Steps, InCall
<1>5. /\ native' \in NativeType
      /\ native'.attached = native.attached /\ native'.owner = native.owner
      /\ native'.views = native.views
      /\ Healthy' => Healthy
  BY <1>1, <1>2, <1>3 DEF Types, NativeType, Healthy
<1>6. Native'
  BY <1>5 DEF IInv, Native
<1>7. Retains(t)' /\ Relies(t)'
  BY <1>4 DEF Retains, Relies, Unpinned, Obtaining, LiveSteps, Detaches, At
<1>8. Reports(t)'
  BY <1>1, <1>2, <1>4, <1>5 DEF TaskInv, Reports, At
<1>9. Pins(l)'
  BY <1>1, <1>2, <1>4, <1>5 DEF LeaseInv, Pins, Pinned, Unpinned, At
<1>10. Token(l)'
  BY <1>1, <1>2, <1>4, <1>5 DEF LeaseInv, Token, Obtaining, At
<1>11. Kept(0)
  BY <1>2, <1>5 DEF Kept
<1>12. QED
  BY <1>2, <1>3, <1>5, <1>6, <1>7, <1>8, <1>9, <1>10, <1>11, CallStep DEF CallPairs, Answered, At

\* elite_detach: the slot was given back before.
LEMMA DetachStep ==
  ASSUME IInv, NEW t \in Threads, NEW l \in {0} \cup Leases, task[t].lease = l, Detach(t)
  PROVE  IInv'
<1>1. /\ TaskInv(t) /\ Types /\ (l # 0 => l \in Leases /\ LeaseInv(l))
      /\ \A k \in Leases : k # 0
  BY Mover
<1>2. /\ At(t, "detach") /\ InLock(t) /\ lock = t /\ native.owner = 0 /\ native.views = 0
      /\ UNCHANGED <<life, lock, state, exporter, app, failed, interrupts>>
  BY <1>1 DEF IInv, Native, TaskInv, Locked, InLock, LockSteps, Relies, Detaches, At, Detach
<1>3. PICK q \in {"ok", "error"} :
        /\ Return(t, "detached", q)
        /\ native' \in {native, [native EXCEPT !.attached = FALSE]}
        /\ q = "error" => Answers(t) # {"entered"}
  BY <1>2 DEF Detach
<1>4. /\ \A u \in Threads \ {t} : task'[u] = task[u]
      /\ task'[t].pc = "detached" /\ task'[t].lease = l /\ task'[t].res = q
      /\ task'[t].by = task[t].by
  BY <1>1, <1>2, <1>3, Returns DEF Steps, InCall
<1>5. /\ native' \in NativeType
      /\ native'.owner = 0 /\ native'.views = 0
      /\ Healthy' => Healthy
  BY <1>1, <1>2, <1>3 DEF Types, NativeType, Healthy
<1>6. Native'
  BY <1>5 DEF Native
<1>7. Retains(t)' /\ Relies(t)'
  BY <1>4, <1>5 DEF Retains, Relies, Unpinned, Obtaining, LiveSteps, Detaches, At
<1>8. Reports(t)'
  BY <1>2, <1>3, <1>4, <1>5, NeverBusy DEF Reports, Ends, At
<1>9. l # 0 => Pins(l)'
  BY <1>1, <1>2, <1>4, <1>5 DEF LeaseInv, Pins, Pinned, Unpinned, At
<1>10. l # 0 => Token(l)'
  BY <1>1, <1>2, <1>4, <1>5 DEF LeaseInv, Token, Obtaining, At
<1>11. QED
  BY <1>2, <1>3, <1>5, <1>6, <1>7, <1>8, <1>9, <1>10, CallStep DEF CallPairs, Answered, At

\* enable_drain changes nothing of what leases rely on.
LEMMA DrainStep ==
  ASSUME IInv, NEW t \in Threads, NEW l \in {0} \cup Leases, task[t].lease = l, Drain(t)
  PROVE  IInv'
<1>1. /\ TaskInv(t) /\ Types /\ task[t] \in TaskType
  BY Mover
<1>2. /\ At(t, "drain") /\ lock = t /\ l = 0 /\ native' = native
      /\ UNCHANGED <<life, lock, state, exporter, app, failed, interrupts>>
  BY <1>1 DEF TaskInv, Locked, InLock, LockSteps, Shape, At, Drain
<1>3. Return(t, "drained", task[t].res)
  <2>1. [task[t] EXCEPT !.pc = "drained", !.res = task[t].res] = [task[t] EXCEPT !.pc = "drained"]
    BY <1>1 DEF TaskType
  <2>2. QED
    BY <2>1 DEF Drain, Move, Return, Become
<1>4. task[t].res \in {"none", "ok", "error", "kept"}
  BY <1>1 DEF TaskType
<1>5. task'[t].pc = "drained"
  BY <1>1, <1>3, <1>4, Returns DEF Steps, InCall
<1>6. Retains(t)' /\ Relies(t)' /\ Reports(t)'
  BY <1>5 DEF Retains, Relies, Reports, Unpinned, Obtaining, LiveSteps, Detaches, Ends, At
<1>7. Native' /\ native' \in NativeType /\ (Healthy' => Healthy)
  BY <1>1, <1>2 DEF IInv, Native, Types, Healthy
<1>8. QED
  BY <1>2, <1>3, <1>4, <1>6, <1>7, CallStep DEF CallPairs, Answered, At
-----------------------------------------------------------------------------
(***************************************************************************)
(* Steps that work on no lease.                                            *)
(***************************************************************************)

\* An idle thread relies on nothing.
LEMMA Idle ==
  ASSUME NEW t \in Threads, task'[t] = NoTask, lock' # t
  PROVE  TaskInv(t)'
BY DEF TaskInv, Shape, Locked, Works, Closes, Retains, Relies, Reports, NoTask, InLock,
   LockSteps, Begins, Drops, Ends, Cleans, Detaches, Answered, Unpinned, Obtaining, LiveSteps,
   Finalizer, At

\* An endpoint whose lock is free and that is not busy owns no slot.
LEMMA NotBusy ==
  ASSUME IInv, lock = NoThread, ~Busy
  PROVE  native.owner = 0 /\ native.views = 0
<1>1. SUFFICES ASSUME NEW k \in Leases, native.owner = k
               PROVE  FALSE
  BY DEF IInv, Types, NativeType, Native
<1>2. LeaseInv(k) /\ k # 0
  BY LeaseAssumption DEF IInv, Leases
<1>3. life.pin = k /\ state[k].active
  BY <1>1, <1>2, LeaseAssumption DEF LeaseInv, Token, Busy
<1>4. state[k].made
  BY <1>2, <1>3 DEF LeaseInv, Life, NewState
<1>5. (\E u \in Threads : task[u].lease = k) => WorkedOn(k)
  BY <1>2 DEF WorkedOn, IInv, TaskInv, Shape, NoTask
<1>6. Alive(k)
  BY <1>1, <1>2, <1>4, <1>5 DEF LeaseInv, Token, Alive
<1>7. QED
  BY <1>2, <1>3, <1>6 DEF Busy

\* In a healthy process an endpoint that is not busy has no lease in use.
LEMMA NotActive ==
  ASSUME IInv, Healthy, ~Busy, life.pin # 0
  PROVE  ~state[life.pin].active /\ ~state[life.pin].acquiring
<1>1. SUFFICES ASSUME NEW k \in Leases, life.pin = k, state[k].active \/ state[k].acquiring
               PROVE  FALSE
  BY DEF IInv, Types, LifeType
<1>2. LeaseInv(k) /\ k # 0 /\ failed = {}
  BY LeaseAssumption DEF IInv, Leases, Health
<1>3. state[k].made
  BY <1>1, <1>2 DEF LeaseInv, Life, NewState
<1>4. (\E u \in Threads : task[u].lease = k) => WorkedOn(k)
  BY <1>2 DEF WorkedOn, IInv, TaskInv, Shape, NoTask
<1>5. Alive(k)
  <2>1. CASE native.owner = k
    BY <1>2, <1>3, <1>4, <2>1 DEF LeaseInv, Token, Alive
  <2>2. CASE native.owner # k
    <3>1. lock \in Threads /\ task[lock].lease = k
      BY <1>1, <1>2, <2>2 DEF LeaseInv, Token
    <3>2. QED
      BY <1>3, <1>4, <3>1 DEF Alive
  <2>3. QED
    BY <2>1, <2>2
<1>6. QED
  BY <1>1, <1>2, <1>5 DEF Busy

\* enable_drain and an explicit close take the lock with nothing owned.
LEMMA EnableDrainStep ==
  ASSUME IInv, NEW t \in Threads, EnableDrain(t)
  PROVE  IInv'
<1>1. TaskInv(t) /\ Types /\ (\A k \in Leases : k # 0)
  BY LeaseAssumption DEF IInv, Leases
<1>2. /\ task[t] = NoTask /\ task[t].lease = 0 /\ lock = NoThread /\ lock' = t
      /\ UNCHANGED <<native, life, state, exporter, app, failed, interrupts>>
  BY <1>1 DEF TaskInv, Shape, NoTask, EnableDrain
<1>3. [NoTask EXCEPT !.pc = "drain"] \in TaskType
  BY DEF NoTask, TaskType, Steps, InCall, Calls
<1>4. /\ task' \in [Threads -> TaskType] /\ task'[t] = [NoTask EXCEPT !.pc = "drain"]
      /\ \A u \in Threads \ {t} : task'[u] = task[u]
  BY <1>1, <1>3, Becomes DEF EnableDrain
<1>5. task'[t].pc = "drain" /\ task'[t].lease = 0 /\ task'[t].by = "app"
  BY <1>4 DEF NoTask
<1>6. Types'
  BY <1>1, <1>2, <1>4 DEF Types
<1>7. Local(t, 0)
  BY <1>1, <1>2, <1>4, <1>5 DEF Local, Same, Healthy
<1>8. TaskInv(t)'
  BY <1>2, <1>5 DEF TaskInv, Shape, Locked, Works, Closes, Retains, Relies, Reports, InLock,
     LockSteps, Begins, Drops, Ends, Cleans, Detaches, Answered, Unpinned, Obtaining, LiveSteps,
     Finalizer, At
<1>9. Native' /\ Health'
  BY <1>2 DEF IInv, Native, Health, Healthy
<1>10. QED
  BY <1>1, <1>6, <1>7, <1>8, <1>9, LocalStep

\* The drain is over, and so is the task.
LEMMA DrainReturnsStep ==
  ASSUME IInv, NEW t \in Threads, DrainReturns(t)
  PROVE  IInv'
<1>1. TaskInv(t) /\ Types /\ (\A k \in Leases : k # 0)
  BY LeaseAssumption DEF IInv, Leases
<1>2. /\ task[t].lease = 0 /\ lock = t /\ lock' = NoThread /\ NoThread # t
      /\ UNCHANGED <<native, life, state, exporter, app, failed, interrupts>>
  BY <1>1, LeaseAssumption DEF TaskInv, Shape, Locked, InLock, LockSteps, At, DrainReturns, Unlock
<1>3. /\ task' \in [Threads -> TaskType] /\ task'[t] = NoTask /\ task'[t].lease = 0
      /\ \A u \in Threads \ {t} : task'[u] = task[u]
  BY <1>1, Stops DEF DrainReturns
<1>4. Types'
  BY <1>1, <1>2, <1>3 DEF Types
<1>5. Local(t, 0)
  BY <1>1, <1>2, <1>3 DEF Local, Same, Healthy
<1>6. TaskInv(t)'
  BY <1>2, <1>3, Idle
<1>7. Native' /\ Health'
  BY <1>2 DEF IInv, Native, Health, Healthy
<1>8. QED
  BY <1>1, <1>4, <1>5, <1>6, <1>7, LocalStep

\* close, which the application calls: not busy, so nothing is owned.
LEMMA CloseStep ==
  ASSUME IInv, NEW t \in Threads, Close(t)
  PROVE  IInv'
<1>1. TaskInv(t) /\ Types /\ (\A k \in Leases : k # 0)
  BY LeaseAssumption DEF IInv, Leases
<1>2. /\ task[t] = NoTask /\ task[t].lease = 0 /\ lock = NoThread /\ lock' = t /\ native.owner = 0
      /\ UNCHANGED <<native, life, state, exporter, app, failed, interrupts>>
  BY <1>1, NotBusy DEF TaskInv, Shape, NoTask, Close
<1>3. [NoTask EXCEPT !.pc = "detach"] \in TaskType
  BY DEF NoTask, TaskType, Steps, InCall, Calls
<1>4. /\ task' \in [Threads -> TaskType] /\ task'[t] = [NoTask EXCEPT !.pc = "detach"]
      /\ \A u \in Threads \ {t} : task'[u] = task[u]
  BY <1>1, <1>3, Becomes DEF Close
<1>5. task'[t].pc = "detach" /\ task'[t].lease = 0 /\ task'[t].by = "app"
  BY <1>4 DEF NoTask
<1>6. Types'
  BY <1>1, <1>2, <1>4 DEF Types
<1>7. Local(t, 0)
  BY <1>1, <1>2, <1>4, <1>5 DEF Local, Same, Healthy
<1>8. TaskInv(t)'
  BY <1>2, <1>5 DEF TaskInv, Shape, Locked, Works, Closes, Retains, Relies, Reports, InLock,
     LockSteps, Begins, Drops, Ends, Cleans, Detaches, Answered, Unpinned, Obtaining, LiveSteps,
     Finalizer, At
<1>9. Native' /\ Health'
  BY <1>2 DEF IInv, Native, Health, Healthy
<1>10. QED
  BY <1>1, <1>6, <1>7, <1>8, <1>9, LocalStep

\* The finalizer of the endpoint looks at busy twice; in between nothing can
\* become busy in a healthy process.
LEMMA FinalizeEndpointStep ==
  ASSUME IInv, NEW t \in Threads, FinalizeEndpoint(t)
  PROVE  IInv'
<1>1. TaskInv(t) /\ Types /\ (\A k \in Leases : k # 0)
  BY LeaseAssumption DEF IInv, Leases
<1>2. /\ task[t] = NoTask /\ task[t].lease = 0 /\ ~app.endpoint
      /\ lock # t
      /\ life' = [life EXCEPT !.closeRequested = TRUE]
      /\ UNCHANGED <<native, lock, state, exporter, app, failed, interrupts>>
  BY <1>1 DEF TaskInv, Shape, Locked, InLock, LockSteps, NoTask, FinalizeEndpoint,
     EndpointReachable, At
<1>3. life' \in LifeType /\ life'.pin = life.pin /\ life'.poisoned = life.poisoned
  BY <1>1, <1>2 DEF Types, LifeType
<1>4. [NoTask EXCEPT !.pc = "close", !.by = "endpoint"] \in TaskType
  BY DEF NoTask, TaskType, Steps
<1>5. CASE task' = task
  <2>1. Types'
    BY <1>1, <1>2, <1>3, <1>5 DEF Types
  <2>2. Local(t, 0)
    BY <1>1, <1>2, <1>3, <1>5 DEF Local, Same, Kept, Healthy
  <2>3. TaskInv(t)'
    BY <1>2, <1>5, Idle
  <2>4. Native' /\ Health'
    BY <1>2, <1>3 DEF IInv, Native, Health, Healthy
  <2>5. QED
    BY <1>1, <2>1, <2>2, <2>3, <2>4, LocalStep
<1>6. CASE ~Busy /\ Become(t, [NoTask EXCEPT !.pc = "close", !.by = "endpoint"])
  <2>1. /\ task' \in [Threads -> TaskType]
        /\ task'[t] = [NoTask EXCEPT !.pc = "close", !.by = "endpoint"]
        /\ \A u \in Threads \ {t} : task'[u] = task[u]
    BY <1>1, <1>4, <1>6, Becomes
  <2>2. task'[t].pc = "close" /\ task'[t].lease = 0 /\ task'[t].by = "endpoint"
    BY <2>1 DEF NoTask
  <2>3. Types'
    BY <1>1, <1>2, <1>3, <2>1 DEF Types
  <2>4. Local(t, 0)
    BY <1>1, <1>2, <1>3, <2>1, <2>2 DEF Local, Same, Kept, Healthy
  <2>5. Reports(t)'
    <3>1. Healthy' => Healthy
      BY <1>2 DEF Healthy
    <3>2. QED
      BY <1>2, <1>3, <1>6, <2>2, <3>1, NotActive DEF Reports, Ends, At
  <2>6. TaskInv(t)'
    BY <1>2, <2>2, <2>5 DEF TaskInv, Shape, Locked, Works, Closes, Retains, Relies, InLock,
       LockSteps, Begins, Drops, Ends, Cleans, Detaches, Answered, Unpinned, Obtaining,
       LiveSteps, Finalizer, At
  <2>7. Native' /\ Health'
    BY <1>2, <1>3 DEF IInv, Native, Health, Healthy
  <2>8. QED
    BY <1>1, <2>3, <2>4, <2>6, <2>7, LocalStep
<1>7. QED
  BY <1>5, <1>6 DEF FinalizeEndpoint, Become

\* try_close, once it has the lock: it looks at busy again, and finds in a healthy
\* process what it found before.
LEMMA TryCloseStep ==
  ASSUME IInv, NEW t \in Threads, TryClose(t)
  PROVE  IInv'
<1>1. TaskInv(t) /\ Types /\ (\A k \in Leases : k # 0)
  BY LeaseAssumption DEF IInv, Leases
<1>2. /\ At(t, "close") /\ task[t].lease = 0 /\ task[t].by = "endpoint" /\ lock = NoThread /\ NoThread # t
      /\ UNCHANGED <<native, life, state, exporter, app, interrupts>>
  BY <1>1, LeaseAssumption DEF TaskInv, Shape, Locked, InLock, LockSteps, TryClose, Free, At
<1>3. CASE native.attached /\ ~Busy
  <2>1. Move(t, "detach") /\ lock' = t /\ UNCHANGED failed /\ native.owner = 0
    BY <1>2, <1>3, NotBusy DEF TryClose
  <2>2. /\ task' \in [Threads -> TaskType]
        /\ \A u \in Threads \ {t} : task'[u] = task[u]
        /\ task'[t].pc = "detach" /\ task'[t].lease = 0 /\ task'[t].by = "endpoint"
    BY <1>1, <1>2, <2>1, Moves DEF Steps, InCall, Calls
  <2>3. Types'
    BY <1>1, <1>2, <2>1, <2>2 DEF Types
  <2>4. Local(t, 0)
    BY <1>1, <1>2, <2>1, <2>2 DEF Local, Same, Healthy
  <2>5. TaskInv(t)'
    BY <1>2, <2>1, <2>2 DEF TaskInv, Shape, Locked, Works, Closes, Retains, Relies, Reports,
       InLock, LockSteps, Begins, Drops, Ends, Cleans, Detaches, Answered, Unpinned, Obtaining,
       LiveSteps, Finalizer, At
  <2>6. Native' /\ Health'
    BY <1>2, <2>1 DEF IInv, Native, Health, Healthy
  <2>7. QED
    BY <1>1, <2>3, <2>4, <2>5, <2>6, LocalStep
<1>4. CASE ~(native.attached /\ ~Busy)
  <2>1. /\ Stop(t) /\ lock' = NoThread
        /\ failed' = IF native.attached THEN failed \cup {0} ELSE failed
    BY <1>2, <1>4 DEF TryClose
  <2>2. /\ task' \in [Threads -> TaskType] /\ task'[t] = NoTask /\ task'[t].lease = 0
        /\ \A u \in Threads \ {t} : task'[u] = task[u]
    BY <1>1, <2>1, Stops
  <2>3. Types'
    BY <1>1, <1>2, <2>1, <2>2 DEF Types
  <2>4. Local(t, 0)
    BY <1>1, <1>2, <2>1, <2>2 DEF Local, Same, Healthy
  <2>5. TaskInv(t)'
    BY <1>2, <2>1, <2>2, Idle
  <2>6. Health'
    <3>1. ASSUME Healthy
          PROVE  ~Busy
      BY <1>1, <1>2, <3>1 DEF IInv, Health, TaskInv, Reports, Busy
    <3>2. QED
      BY <1>2, <1>4, <2>1, <3>1 DEF IInv, Health, Healthy
  <2>7. Native'
    BY <1>2 DEF IInv, Native
  <2>8. QED
    BY <1>1, <2>3, <2>4, <2>5, <2>6, <2>7, LocalStep
<1>5. QED
  BY <1>3, <1>4

\* The manager or a peer retires the generation.
LEMMA PeerRetiresStep ==
  ASSUME IInv, PeerRetires
  PROVE  IInv'
<1>1. Types /\ (\A k \in Leases : k # 0) /\ NoThread \notin Threads
  BY LeaseAssumption DEF IInv, Leases
<1>2. PICK g \in {"RETIRED", "FAILED"} : native' = [native EXCEPT !.gate = g]
  BY DEF PeerRetires
<1>3. /\ UNCHANGED <<life, lock, state, exporter, app, failed, task, interrupts>>
      /\ native.gate = "READY"
  BY DEF PeerRetires
<1>4. /\ native' \in NativeType /\ native'.attached = native.attached
      /\ native'.owner = native.owner /\ native'.views = native.views
      /\ native'.poisoned = native.poisoned
  BY <1>1, <1>2 DEF Types, NativeType
<1>5. Types'
  BY <1>1, <1>3, <1>4 DEF Types
<1>6. Healthy' => Healthy
  BY <1>3, <1>4 DEF Healthy
<1>7. Local(NoThread, 0)
  BY <1>1, <1>3, <1>4, <1>6 DEF Local, Same, Kept
<1>8. Native' /\ Health'
  BY <1>3, <1>4, <1>6 DEF IInv, Native, Health
<1>9. QED
  BY <1>1, <1>5, <1>7, <1>8, LocalStep
-----------------------------------------------------------------------------
(***************************************************************************)
(* How the state of a lease goes on: it keeps its type and the other       *)
(* fields.                                                                 *)
(***************************************************************************)

\* The lease of an interrupted call is uncertain.
LEMMA BecomesUncertain ==
  ASSUME Types, NEW l \in Leases, state' = [state EXCEPT ![l].uncertain = TRUE]
  PROVE  /\ state' \in [Leases -> StateType]
         /\ \A k \in Leases \ {l} : state'[k] = state[k]
         /\ state'[l].made = state[l].made /\ state'[l].acquiring = state[l].acquiring
         /\ state'[l].viewPin = state[l].viewPin /\ state'[l].finalized = state[l].finalized
         /\ state'[l].cleanupRequested = state[l].cleanupRequested
         /\ state'[l].active = state[l].active /\ state'[l].uncertain
<1>1. state \in [Leases -> StateType] /\ state[l] \in StateType
  BY DEF Types
<1>2. /\ state' \in [Leases -> StateType]
      /\ \A k \in Leases \ {l} : state'[k] = state[k]
      /\ state'[l] = [state[l] EXCEPT !.uncertain = TRUE]
  BY <1>1 DEF StateType
<1>3. QED
  BY <1>1, <1>2 DEF StateType

\* The pin of a lease is dropped.
LEMMA PinDropped ==
  ASSUME Types, NEW l \in Leases, state' = [state EXCEPT ![l].viewPin = FALSE]
  PROVE  /\ state' \in [Leases -> StateType]
         /\ \A k \in Leases \ {l} : state'[k] = state[k]
         /\ state'[l].made = state[l].made /\ state'[l].acquiring = state[l].acquiring
         /\ ~state'[l].viewPin /\ state'[l].finalized = state[l].finalized
         /\ state'[l].cleanupRequested = state[l].cleanupRequested
         /\ state'[l].active = state[l].active /\ state'[l].uncertain = state[l].uncertain
<1>1. state \in [Leases -> StateType] /\ state[l] \in StateType
  BY DEF Types
<1>2. /\ state' \in [Leases -> StateType]
      /\ \A k \in Leases \ {l} : state'[k] = state[k]
      /\ state'[l] = [state[l] EXCEPT !.viewPin = FALSE]
  BY <1>1 DEF StateType
<1>3. QED
  BY <1>1, <1>2 DEF StateType

\* The token of a lease is gone.
LEMMA TokenGone ==
  ASSUME Types, NEW l \in Leases, state' = [state EXCEPT ![l].active = FALSE]
  PROVE  /\ state' \in [Leases -> StateType]
         /\ \A k \in Leases \ {l} : state'[k] = state[k]
         /\ state'[l].made = state[l].made /\ state'[l].acquiring = state[l].acquiring
         /\ state'[l].viewPin = state[l].viewPin /\ state'[l].finalized = state[l].finalized
         /\ state'[l].cleanupRequested = state[l].cleanupRequested
         /\ ~state'[l].active /\ state'[l].uncertain = state[l].uncertain
<1>1. state \in [Leases -> StateType] /\ state[l] \in StateType
  BY DEF Types
<1>2. /\ state' \in [Leases -> StateType]
      /\ \A k \in Leases \ {l} : state'[k] = state[k]
      /\ state'[l] = [state[l] EXCEPT !.active = FALSE]
  BY <1>1 DEF StateType
<1>3. QED
  BY <1>1, <1>2 DEF StateType
-----------------------------------------------------------------------------
(***************************************************************************)
(* Taking a token.                                                         *)
(***************************************************************************)

\* _obtain takes the lock and a lease that nobody ever had.
LEMMA ObtainStep ==
  ASSUME IInv, NEW t \in Threads, Obtain(t)
  PROVE  IInv'
<1>1. TaskInv(t) /\ Types /\ (\A k \in Leases : k # 0)
  BY LeaseAssumption DEF IInv, Leases
<1>2. PICK l \in Leases :
        /\ ~state[l].made
        /\ state' = [state EXCEPT ![l].made = TRUE, ![l].acquiring = TRUE]
        /\ life' = [life EXCEPT !.pin = l]
        /\ Become(t, [NoTask EXCEPT !.pc = "acquire", !.lease = l])
  BY DEF Obtain
<1>3. /\ task[t] = NoTask /\ task[t].lease = 0 /\ lock = NoThread /\ lock' = t
      /\ app.endpoint /\ native.attached /\ native.owner = 0 /\ native.views = 0
      /\ UNCHANGED <<native, exporter, app, failed, interrupts>>
  BY <1>1, NotBusy DEF TaskInv, Shape, NoTask, Obtain
<1>4. [NoTask EXCEPT !.pc = "acquire", !.lease = l] \in TaskType
  BY DEF NoTask, TaskType, Steps, InCall, Calls
<1>5. /\ task' \in [Threads -> TaskType] /\ task'[t] = [NoTask EXCEPT !.pc = "acquire", !.lease = l]
      /\ \A u \in Threads \ {t} : task'[u] = task[u]
  BY <1>1, <1>2, <1>4, Becomes
<1>6. /\ task'[t].pc = "acquire" /\ task'[t].lease = l /\ task'[t].by = "app"
      /\ task'[t].res = "none"
  BY <1>5 DEF NoTask
<1>7. LeaseInv(l) /\ state[l] = NewState /\ exporter[l] = NoExporter
  BY <1>2 DEF IInv, LeaseInv, Life
<1>8. \A u \in Threads : task[u].lease # l
  BY <1>1, <1>2 DEF IInv, TaskInv, Works
<1>9. /\ state' \in [Leases -> StateType]
      /\ \A k \in Leases \ {l} : state'[k] = state[k]
      /\ state'[l].made /\ state'[l].acquiring /\ ~state'[l].active /\ ~state'[l].uncertain
      /\ ~state'[l].viewPin /\ ~state'[l].finalized
      /\ state'[l].cleanupRequested = state'[l].finalized
  BY <1>1, <1>2, <1>7 DEF Types, StateType, NewState
<1>10. life' \in LifeType /\ life'.pin = l /\ life'.poisoned = life.poisoned
  BY <1>1, <1>2 DEF Types, LifeType
<1>11. Types'
  BY <1>1, <1>3, <1>5, <1>9, <1>10 DEF Types
<1>12. Local(t, l)
  BY <1>1, <1>3, <1>5, <1>6, <1>8, <1>9, <1>10 DEF Local, Same, Healthy
<1>13. TaskInv(t)'
  BY <1>1, <1>3, <1>6, <1>9, <1>10
     DEF TaskInv, Shape, Locked, Works, Closes, Retains, Relies, Reports, InLock, LockSteps, Owning,
         Begins, Drops, Ends, Cleans, Detaches, Answered, Unpinned, Obtaining, LiveSteps, Finalizer,
         Closer, Pinning, Pinned, At
<1>14. LeaseInv(l)'
  <2>1. Life(l)'
    BY <1>3, <1>7, <1>9 DEF Life, NoExporter
  <2>2. Counted(l)'
    BY <1>3, <1>5, <1>6, <1>7, <1>8, KeepsCount DEF LeaseInv
  <2>3. Exports(l)'
    BY <1>3, <1>7, <1>9 DEF Exports, NoExporter
  <2>4. Pins(l)' /\ Token(l)'
    BY <1>1, <1>3, <1>6, <1>9, <1>10 DEF Pins, Pinned, Token, Obtaining
  <2>5. QED
    BY <2>1, <2>2, <2>3, <2>4 DEF LeaseInv
<1>15. Native' /\ Health'
  BY <1>3, <1>10 DEF IInv, Native, Health, Healthy
<1>16. QED
  BY <1>11, <1>12, <1>13, <1>14, <1>15, LocalStep

\* Where the thread that acquires stands when the call is over.
LEMMA Obtained ==
  ASSUME IInv, NEW t \in Threads, NEW l \in {0} \cup Leases, task[t].lease = l, Obtaining(t)
  PROVE  /\ l # 0 /\ l \in Leases /\ LeaseInv(l) /\ task[t].by = "app" /\ lock = t /\ NoThread # t
         /\ state[l].made /\ ~state[l].active /\ ~state[l].uncertain /\ ~state[l].viewPin
         /\ native.owner = (IF Owning(t) THEN l ELSE 0)
         /\ ~state[l].finalized /\ ~exporter[l].closeRequested /\ exporter[l].exports = 0
         /\ ~Finalizer(t) /\ ~Closer(t, l) /\ ~Pinning(t, l) /\ ~Unpinned(t)
         /\ At(t, "acquire") => ~Owning(t)
<1>1. TaskInv(t) /\ Types /\ (l # 0 => l \in Leases /\ LeaseInv(l))
  BY Mover
<1>2. l # 0 /\ task[t].by = "app" /\ lock = t /\ NoThread # t
  BY <1>1, LeaseAssumption DEF TaskInv, Shape, Begins, Obtaining, Locked, InLock, LockSteps
<1>3. /\ ~Finalizer(t) /\ ~Closer(t, l) /\ ~Pinning(t, l) /\ ~Unpinned(t)
      /\ At(t, "acquire") => ~Owning(t)
  BY <1>1, <1>2 DEF Finalizer, Closer, Pinning, Unpinned, Obtaining, Drops, At, TaskInv, Shape,
     Owning
<1>4. /\ state[l].made /\ ~state[l].active /\ ~state[l].uncertain /\ ~state[l].viewPin
      /\ native.owner = (IF Owning(t) THEN l ELSE 0)
  BY <1>1, <1>2 DEF TaskInv, Works, Relies
<1>5. ~state[l].finalized /\ ~exporter[l].closeRequested
  BY <1>1, <1>2, <1>3 DEF LeaseInv, Life, Gone
<1>6. exporter[l].exports = 0
  BY <1>1, <1>2, <1>4 DEF LeaseInv, Exports, Types, ExportType
<1>7. QED
  BY <1>1, <1>2, <1>3, <1>4, <1>5, <1>6

\* The acquisition is over: with a token the lease is the caller's, without one
\* nothing refers to it.
LEMMA AcquireReturnsStep ==
  ASSUME IInv, NEW t \in Threads, NEW l \in {0} \cup Leases, task[t].lease = l, AcquireReturns(t)
  PROVE  IInv'
<1>1. /\ TaskInv(t) /\ Types /\ (\A k \in Leases : k # 0)
      /\ \A u \in Threads \ {t} : l # 0 /\ task[u].lease = l => ~Finalizer(u)
  BY Mover
<1>2. Obtaining(t)
  BY DEF AcquireReturns, Obtaining, At
<1>3. /\ l # 0 /\ l \in Leases /\ LeaseInv(l) /\ task[t].by = "app" /\ lock = t /\ NoThread # t
      /\ state[l].made /\ ~state[l].active /\ ~state[l].uncertain /\ ~state[l].viewPin
      /\ native.owner = (IF Owning(t) THEN l ELSE 0)
      /\ ~state[l].finalized /\ ~exporter[l].closeRequested
      /\ ~Closer(t, l)
  BY <1>2, Obtained
<1>4. /\ state' = [state EXCEPT ![l].acquiring = FALSE, ![l].active = Owning(t)]
      /\ life' = IF Owning(t) THEN life ELSE [life EXCEPT !.pin = 0]
      /\ app' = IF Owning(t) THEN [app EXCEPT !.leases = @ \cup {l}] ELSE app
      /\ lock' = NoThread
      /\ UNCHANGED <<native, exporter, failed, interrupts>>
  BY DEF AcquireReturns, Unlock
<1>5. /\ task' \in [Threads -> TaskType] /\ task'[t] = NoTask /\ task'[t].lease = 0
      /\ task'[t].pc = "idle" /\ \A u \in Threads \ {t} : task'[u] = task[u]
  BY <1>1, Stops DEF AcquireReturns
<1>6. /\ state' \in [Leases -> StateType]
      /\ \A k \in Leases \ {l} : state'[k] = state[k]
      /\ state'[l].made /\ ~state'[l].acquiring /\ state'[l].active = Owning(t) /\ ~state'[l].uncertain
      /\ ~state'[l].viewPin /\ ~state'[l].finalized
      /\ state'[l].cleanupRequested = state[l].cleanupRequested
  <2>1. Owning(t) \in BOOLEAN
    BY DEF Owning
  <2>2. DEFINE r == [state[l] EXCEPT !.acquiring = FALSE, !.active = Owning(t)]
  <2>3. state' = [state EXCEPT ![l] = r]
    BY <1>1, <1>3, <1>4 DEF Types, StateType
  <2>4. /\ r \in StateType /\ r.active = Owning(t) /\ ~r.acquiring
        /\ r.made = state[l].made /\ r.uncertain = state[l].uncertain
        /\ r.viewPin = state[l].viewPin /\ r.finalized = state[l].finalized
        /\ r.cleanupRequested = state[l].cleanupRequested
    BY ZenonT(30), <1>1, <1>3, <2>1 DEF Types, StateType
  <2>5. HIDE DEF r
  <2>6. QED
    BY <1>1, <1>3, <2>3, <2>4 DEF Types
<1>7. /\ life' \in LifeType /\ life'.poisoned = life.poisoned
      /\ life'.pin = IF Owning(t) THEN life.pin ELSE 0
  BY <1>1, <1>4 DEF Types, LifeType
<1>8. /\ app' \in AppType /\ app'.endpoint = app.endpoint
      /\ app'.views = app.views /\ app'.stale = app.stale
      /\ \A k \in Leases \ {l} : k \in app'.leases <=> k \in app.leases
  BY <1>1, <1>3, <1>4 DEF Types, AppType
<1>9. Types'
  BY <1>1, <1>4, <1>5, <1>6, <1>7, <1>8 DEF Types
<1>10. state[l].acquiring /\ life.pin = l
  BY <1>1, <1>2 DEF TaskInv, Relies
<1>11. Local(t, l)
  BY <1>1, <1>3, <1>4, <1>5, <1>6, <1>7, <1>8, <1>10 DEF Local, Same, Healthy
<1>12. TaskInv(t)'
  BY <1>3, <1>4, <1>5, Idle
<1>13. LeaseInv(l)'
  <2>1. Life(l)'
    BY <1>3, <1>4, <1>6 DEF LeaseInv, Life
  <2>2. Counted(l)'
    BY <1>2, <1>3, <1>4, <1>5, <1>8, KeepsCount DEF LeaseInv, Obtaining
  <2>3. Exports(l)'
    <3>1. \A u \in Threads : Closer(u, l) => Closer(u, l)'
      BY <1>3, <1>5 DEF Closer
    <3>2. QED
      BY <1>3, <1>4, <1>6, <3>1 DEF LeaseInv, Exports
  <2>4. Pins(l)'
    BY <1>3, <1>4, <1>6 DEF LeaseInv, Pins, Pinned
  <2>5. Token(l)'
    BY <1>3, <1>4, <1>6, <1>7, <1>10 DEF Token
  <2>6. QED
    BY <2>1, <2>2, <2>3, <2>4, <2>5 DEF LeaseInv
<1>14. Native' /\ Health'
  BY <1>4, <1>7 DEF IInv, Native, Health, Healthy
<1>15. QED
  BY <1>3, <1>9, <1>11, <1>12, <1>13, <1>14, LocalStep

\* Whoever was interrupted is recorded, and the process is not healthy.
LEMMA AcquireInterruptedStep ==
  ASSUME IInv, NEW t \in Threads, NEW l \in {0} \cup Leases, task[t].lease = l, AcquireInterrupted(t)
  PROVE  IInv'
<1>1. /\ TaskInv(t) /\ Types /\ (\A k \in Leases : k # 0)
      /\ \A u \in Threads \ {t} : l # 0 /\ task[u].lease = l => ~Finalizer(u)
  BY Mover
<1>2. Obtaining(t)
  BY DEF AcquireInterrupted, Interrupts, Obtaining
<1>3. /\ l # 0 /\ l \in Leases /\ LeaseInv(l) /\ task[t].by = "app" /\ lock = t /\ NoThread # t
      /\ state[l].made /\ ~state[l].active /\ ~state[l].uncertain /\ ~state[l].viewPin
      /\ native.owner = (IF Owning(t) THEN l ELSE 0)
      /\ ~state[l].finalized /\ ~exporter[l].closeRequested /\ exporter[l].exports = 0
      /\ ~Closer(t, l)
  BY <1>2, Obtained
<1>4. /\ state' = [state EXCEPT ![l].acquiring = FALSE, ![l].uncertain = TRUE, ![l].active = Owning(t)]
      /\ life' = [life EXCEPT !.poisoned = TRUE]
      /\ failed' = failed \cup {l}
      /\ lock' = NoThread /\ interrupts' = interrupts + 1 /\ interrupts' \in 0 .. MaxInterrupts
      /\ UNCHANGED <<native, exporter, app>>
  BY <1>1, LeaseAssumption DEF AcquireInterrupted, Interrupts, Unlock, Retain, Types
<1>5. /\ task' \in [Threads -> TaskType] /\ task'[t] = NoTask /\ task'[t].lease = 0
      /\ task'[t].pc = "idle" /\ \A u \in Threads \ {t} : task'[u] = task[u]
  BY <1>1, Stops DEF AcquireInterrupted
<1>6. /\ state' \in [Leases -> StateType]
      /\ \A k \in Leases \ {l} : state'[k] = state[k]
      /\ state'[l].made /\ ~state'[l].acquiring /\ state'[l].active = Owning(t) /\ state'[l].uncertain
      /\ ~state'[l].viewPin /\ ~state'[l].finalized
      /\ state'[l].cleanupRequested = state[l].cleanupRequested
  BY <1>1, <1>3, <1>4 DEF Types, StateType, Owning
<1>7. life' \in LifeType /\ life'.poisoned /\ life'.pin = life.pin
  BY <1>1, <1>4 DEF Types, LifeType
<1>8. ~Healthy'
  BY <1>1, <1>4 DEF Healthy, Types
<1>9. Types'
  BY <1>1, <1>3, <1>4, <1>5, <1>6, <1>7 DEF Types
<1>10. state[l].acquiring
  BY <1>1, <1>2 DEF TaskInv, Relies
<1>11. Local(t, l)
  BY <1>1, <1>3, <1>4, <1>5, <1>6, <1>7, <1>8, <1>10 DEF Local, Same
<1>12. TaskInv(t)'
  BY <1>3, <1>4, <1>5, Idle
<1>13. LeaseInv(l)'
  <2>1. Life(l)'
    BY <1>3, <1>4, <1>6 DEF LeaseInv, Life
  <2>2. Counted(l)'
    BY <1>2, <1>3, <1>4, <1>5, KeepsCount DEF LeaseInv, Obtaining
  <2>3. Exports(l)'
    <3>1. \A u \in Threads : Closer(u, l) => Closer(u, l)'
      BY <1>3, <1>5 DEF Closer
    <3>2. QED
      BY <1>3, <1>4, <1>6, <3>1 DEF LeaseInv, Exports
  <2>4. Pins(l)'
    BY <1>3, <1>4, <1>6 DEF LeaseInv, Pins, Pinned
  <2>5. Token(l)'
    BY <1>3, <1>4, <1>6, <1>7 DEF Token
  <2>6. QED
    BY <2>1, <2>2, <2>3, <2>4, <2>5 DEF LeaseInv
<1>14. Native' /\ Health'
  BY <1>4, <1>8 DEF IInv, Native, Health
<1>15. QED
  BY <1>3, <1>9, <1>11, <1>12, <1>13, <1>14, LocalStep
-----------------------------------------------------------------------------
(***************************************************************************)
(* Exports.                                                                *)
(***************************************************************************)

\* What a thread may start on a lease that somebody holds.
LEMMA Held ==
  ASSUME IInv, NEW l \in Leases, ~Gone(l), state[l].made
  PROVE  /\ ~state[l].finalized /\ ~state[l].cleanupRequested /\ ~exporter[l].closeRequested
         /\ \A u \in Threads : task[u].lease = l => ~Finalizer(u)
<1>1. LeaseInv(l) /\ l # 0
  BY LeaseAssumption DEF IInv, Leases
<1>2. \A u \in Threads : Works(u)
  BY DEF IInv, TaskInv
<1>3. QED
  BY <1>1, <1>2 DEF LeaseInv, Life, Works

\* What the application or a view refers to was made, and is not gone.
LEMMA Reached ==
  ASSUME IInv, NEW l \in Leases, l \in app.leases \/ app.views[l] > 0 \/ app.stale[l] > 0
  PROVE  /\ state[l].made /\ LeaseInv(l) /\ l # 0
         /\ l \in app.leases \/ app.views[l] > 0 => ~Gone(l)
<1>1. LeaseInv(l) /\ l # 0
  BY LeaseAssumption DEF IInv, Leases
<1>2. app.views[l] \in Nat /\ app.stale[l] \in Nat
  BY DEF IInv, Types, AppType
<1>3. QED
  BY <1>1, <1>2 DEF LeaseInv, Life, Gone

\* While the lock is free, only a finalizer is closing an exporter.
LEMMA NoCloser ==
  ASSUME IInv, NEW l \in Leases, lock = NoThread, exporter[l].closing
  PROVE  \E u \in Threads : task[u].lease = l /\ Finalizer(u)
<1>1. PICK u \in Threads : Closer(u, l)
  BY DEF IInv, LeaseInv, Exports
<1>2. ~InLock(u)
  BY LeaseAssumption DEF IInv, TaskInv, Locked
<1>3. QED
  BY <1>1, <1>2 DEF Closer, InLock, LockSteps, Drops, Finalizer

\* _Lease.buffer: another export of an open exporter, or a pin for a new one.
LEMMA BufferStep ==
  ASSUME IInv, NEW t \in Threads, NEW l \in Leases, Buffer(t, l)
  PROVE  IInv'
<1>1. /\ TaskInv(t) /\ Types /\ (\A k \in Leases : k # 0)
  BY LeaseAssumption DEF IInv, Leases
<1>2. /\ task[t] = NoTask /\ task[t].lease = 0 /\ task[t].pc = "idle"
      /\ lock = NoThread /\ lock' = t /\ t # NoThread
      /\ l \in app.leases /\ Live(l)
      /\ UNCHANGED <<native, life, app, failed, interrupts>>
  BY <1>1, LeaseAssumption DEF TaskInv, Shape, NoTask, Buffer, At
<1>3. /\ LeaseInv(l) /\ state[l].made /\ ~state[l].finalized /\ ~state[l].cleanupRequested
      /\ ~exporter[l].closeRequested /\ l # 0
      /\ \A u \in Threads : task[u].lease = l => ~Finalizer(u)
  BY <1>2, Held, Reached
<1>4. Native' /\ Health'
  BY <1>2 DEF IInv, Native, Health, Healthy
<1>5. ASSUME exporter[l].closed, ~state[l].viewPin, UNCHANGED exporter,
             state' = [state EXCEPT ![l].viewPin = TRUE],
             Become(t, [NoTask EXCEPT !.pc = "retain", !.lease = l])
      PROVE  IInv'
  <2>1. [NoTask EXCEPT !.pc = "retain", !.lease = l] \in TaskType
    BY DEF NoTask, TaskType, Steps, InCall, Calls
  <2>2. /\ task' \in [Threads -> TaskType] /\ task'[t] = [NoTask EXCEPT !.pc = "retain", !.lease = l]
        /\ \A u \in Threads \ {t} : task'[u] = task[u]
    BY <1>1, <1>5, <2>1, Becomes
  <2>3. task'[t].pc = "retain" /\ task'[t].lease = l /\ task'[t].by = "app"
    BY <2>2 DEF NoTask
  <2>4. /\ state' \in [Leases -> StateType]
        /\ \A k \in Leases \ {l} : state'[k] = state[k]
        /\ state'[l] = [state[l] EXCEPT !.viewPin = TRUE]
    BY <1>1, <1>5 DEF Types, StateType
  <2>5. /\ state'[l].made /\ state'[l].acquiring = state[l].acquiring
        /\ state'[l].active = state[l].active /\ state'[l].uncertain = state[l].uncertain
        /\ state'[l].viewPin /\ ~state'[l].finalized
        /\ state'[l].cleanupRequested = state'[l].finalized
    BY <1>1, <1>3, <2>4 DEF Types, StateType
  <2>6. Types'
    BY <1>1, <1>2, <1>5, <2>2, <2>4 DEF Types
  <2>7. Local(t, l)
    BY <1>1, <1>2, <1>3, <1>5, <2>2, <2>3, <2>4, <2>5 DEF Local, Same, Healthy
  <2>8. ~exporter[l].rooted
    BY <1>2, <1>3, <1>5, NoCloser DEF LeaseInv, Exports
  <2>9. ~Pinned(l)
    BY <1>3, <1>5 DEF LeaseInv, Pins
  <2>10. TaskInv(t)'
    <3>1. Live(l)'
      BY <1>2, <2>5 DEF Live
    <3>2. Closes(t)' /\ Retains(t)'
      BY <1>2, <1>5, <2>3, <2>5, <2>8, <2>9
         DEF Closes, Retains, Closer, Pinning, Pinned, Unpinned, Drops, Finalizer, At
    <3>3. Relies(t)' /\ Reports(t)'
      BY <2>3, <3>1 DEF Relies, Reports, Live, Obtaining, LiveSteps, Detaches, Ends, At
    <3>4. Shape(t)'
      BY <1>3, <2>3 DEF Shape, Begins, Drops, Ends, Cleans, Detaches, At, Answered
    <3>5. Locked(t)' /\ Works(t)'
      BY <1>2, <2>3, <2>5 DEF Locked, Works, InLock, LockSteps, Finalizer
    <3>6. QED
      BY <3>2, <3>3, <3>4, <3>5 DEF TaskInv
  <2>11. LeaseInv(l)'
    <3>1. Life(l)'
      BY <1>3, <1>5, <2>5 DEF Life
    <3>2. Counted(l)'
      BY <1>2, <1>3, <1>5, <2>2, <2>3, KeepsCount DEF LeaseInv
    <3>3. Pinning(lock, l)'
      BY <1>2, <2>3 DEF Pinning
    <3>4. Exports(l)'
      BY <1>2, <1>3, <1>5, <2>5, <2>8, <3>3 DEF LeaseInv, Exports
    <3>5. Pins(l)'
      BY <1>2, <2>3, <2>5 DEF Pins, Unpinned, At
    <3>6. Token(l)'
      BY <1>2, <1>3, <1>5, <2>5, LeaseAssumption DEF LeaseInv, Token
    <3>7. QED
      BY <3>1, <3>2, <3>4, <3>5, <3>6 DEF LeaseInv
  <2>12. QED
    BY <2>6, <2>7, <2>10, <2>11, <1>4, LocalStep
<1>6. ASSUME ~exporter[l].closed, exporter[l].exports < MaxViews, UNCHANGED state,
             exporter' = [exporter EXCEPT ![l].exports = @ + 1],
             Become(t, [NoTask EXCEPT !.pc = "export", !.lease = l])
      PROVE  IInv'
  <2>1. [NoTask EXCEPT !.pc = "export", !.lease = l] \in TaskType
    BY DEF NoTask, TaskType, Steps
  <2>2. /\ task' \in [Threads -> TaskType] /\ task'[t] = [NoTask EXCEPT !.pc = "export", !.lease = l]
        /\ \A u \in Threads \ {t} : task'[u] = task[u]
    BY <1>1, <1>6, <2>1, Becomes
  <2>3. task'[t].pc = "export" /\ task'[t].lease = l /\ task'[t].by = "app"
    BY <2>2 DEF NoTask
  <2>4. /\ exporter' \in [Leases -> ExportType]
        /\ \A k \in Leases \ {l} : exporter'[k] = exporter[k]
        /\ exporter'[l] = [exporter[l] EXCEPT !.exports = @ + 1]
    BY <1>1, <1>6, LeaseAssumption DEF Types, ExportType
  <2>5. /\ exporter'[l].exports = exporter[l].exports + 1 /\ exporter'[l].exports > 0
        /\ exporter'[l].closed = exporter[l].closed /\ exporter'[l].closing = exporter[l].closing
        /\ exporter'[l].rooted = exporter[l].rooted
        /\ exporter'[l].closeRequested = exporter[l].closeRequested
    BY <1>1, <2>4 DEF Types, ExportType
  <2>6. Types'
    BY <1>1, <1>2, <1>6, <2>2, <2>4 DEF Types
  <2>7. Local(t, l)
    BY <1>1, <1>2, <1>3, <1>6, <2>2, <2>3, <2>4 DEF Local, Same, Healthy
  <2>8. TaskInv(t)'
    BY <1>2, <1>3, <1>6, <2>3 DEF TaskInv, Shape, Locked, Works, Closes, Retains, Relies,
       Reports, InLock, LockSteps, Begins, Drops, Ends, Cleans, Detaches, Answered, Unpinned,
       Obtaining, LiveSteps, Finalizer, Closer, Pinning, At
  <2>9. LeaseInv(l)'
    <3>1. Life(l)'
      BY <1>3, <1>6, <2>5 DEF LeaseInv, Life
    <3>2. Counted(l)'
      BY <1>2, <1>3, <2>2, <2>3, <2>5, ExportBegins DEF LeaseInv
    <3>3. Exports(l)'
      BY <1>2, <1>3, <1>6, <2>5 DEF LeaseInv, Exports, Live
    <3>4. Pins(l)'
      BY <1>2, <1>3, <1>6, LeaseAssumption DEF LeaseInv, Pins, Pinned
    <3>5. Token(l)'
      BY <1>2, <1>3, <1>6, LeaseAssumption DEF LeaseInv, Token
    <3>6. QED
      BY <3>1, <3>2, <3>3, <3>4, <3>5 DEF LeaseInv
  <2>10. QED
    BY <2>6, <2>7, <2>8, <2>9, <1>4, LocalStep
<1>7. QED
  BY <1>5, <1>6 DEF Buffer

\* Where the thread stands that takes a pin for a new exporter.
LEMMA Retaining ==
  ASSUME IInv, NEW t \in Threads, NEW l \in {0} \cup Leases, task[t].lease = l,
         task[t].pc \in {"retain", "retained"}
  PROVE  /\ l # 0 /\ l \in Leases /\ LeaseInv(l) /\ task[t].by = "app" /\ lock = t /\ NoThread # t
         /\ Live(l) /\ state[l].viewPin /\ exporter[l].closed /\ ~exporter[l].rooted
         /\ exporter[l].exports = 0
         /\ state[l].made /\ ~state[l].finalized /\ ~state[l].cleanupRequested
         /\ ~exporter[l].closeRequested
         /\ (Unpinned(t) <=> ~Pinned(l))
         /\ ~Closer(t, l) /\ ~Finalizer(t) /\ ~Obtaining(t)
         /\ \A u \in Threads : task[u].lease = l => ~Finalizer(u)
<1>1. TaskInv(t) /\ Types /\ (l # 0 => l \in Leases /\ LeaseInv(l))
  BY Mover
<1>2. l # 0 /\ task[t].by = "app" /\ lock = t /\ NoThread # t
  BY <1>1, LeaseAssumption DEF TaskInv, Shape, Begins, Locked, InLock, LockSteps
<1>3. /\ ~Closer(t, l) /\ ~Finalizer(t) /\ ~Obtaining(t)
      /\ Live(l) /\ state[l].viewPin /\ exporter[l].closed /\ ~exporter[l].rooted /\ state[l].made
  BY <1>1, <1>2 DEF TaskInv, Works, Relies, Closes, LiveSteps, Closer, Pinning, Finalizer,
     Obtaining, Drops
<1>4. /\ ~state[l].finalized /\ ~state[l].cleanupRequested /\ ~exporter[l].closeRequested
      /\ \A u \in Threads : task[u].lease = l => ~Finalizer(u)
  BY <1>1, <1>2, <1>3, Held DEF Gone
<1>5. Unpinned(t) <=> ~Pinned(l)
  BY <1>1, <1>2, <1>3 DEF LeaseInv, Pins, TaskInv, Retains, Live
<1>6. exporter[l].exports = 0
  BY <1>1, <1>2, <1>3 DEF LeaseInv, Exports, Types, ExportType
<1>7. QED
  BY <1>1, <1>2, <1>3, <1>4, <1>5, <1>6

\* The call for the pin is over: the exporter is made and exports, or the pin is
\* dropped again.
LEMMA RetainReturnsStep ==
  ASSUME IInv, NEW t \in Threads, NEW l \in {0} \cup Leases, task[t].lease = l, RetainReturns(t)
  PROVE  IInv'
<1>1. TaskInv(t) /\ Types /\ task[t] \in TaskType /\ (\A k \in Leases : k # 0)
  BY Mover
<1>2. task[t].pc = "retained" /\ UNCHANGED <<native, life, app, failed, interrupts>>
  BY DEF RetainReturns, At
<1>3. /\ l # 0 /\ l \in Leases /\ LeaseInv(l) /\ task[t].by = "app" /\ lock = t /\ NoThread # t
      /\ Live(l) /\ state[l].viewPin /\ exporter[l].closed /\ ~exporter[l].rooted
      /\ exporter[l].exports = 0
      /\ state[l].made /\ ~state[l].finalized /\ ~state[l].cleanupRequested
      /\ ~exporter[l].closeRequested
      /\ (Unpinned(t) <=> ~Pinned(l))
      /\ ~Closer(t, l) /\ ~Finalizer(t) /\ ~Obtaining(t)
      /\ \A u \in Threads : task[u].lease = l => ~Finalizer(u)
  BY <1>2, Retaining
<1>4. Native' /\ Health'
  BY <1>2 DEF IInv, Native, Health, Healthy
<1>5. ASSUME task[t].res = "error", state' = [state EXCEPT ![l].viewPin = FALSE], Stop(t),
             lock' = NoThread, UNCHANGED exporter
      PROVE  IInv'
  <2>1. /\ task' \in [Threads -> TaskType] /\ task'[t] = NoTask /\ task'[t].lease = 0
        /\ task'[t].pc = "idle" /\ \A u \in Threads \ {t} : task'[u] = task[u]
    BY <1>1, <1>5, Stops
  <2>2. /\ state' \in [Leases -> StateType]
        /\ \A k \in Leases \ {l} : state'[k] = state[k]
        /\ state'[l].made = state[l].made /\ state'[l].acquiring = state[l].acquiring
        /\ ~state'[l].viewPin /\ state'[l].finalized = state[l].finalized
        /\ state'[l].cleanupRequested = state[l].cleanupRequested
        /\ state'[l].active = state[l].active /\ state'[l].uncertain = state[l].uncertain
    BY <1>1, <1>3, <1>5, PinDropped
  <2>3. /\ state'[l].made /\ state'[l].acquiring = state[l].acquiring
        /\ state'[l].active = state[l].active /\ state'[l].uncertain = state[l].uncertain
        /\ ~state'[l].viewPin /\ ~state'[l].finalized
        /\ state'[l].cleanupRequested = state'[l].finalized
    BY <1>1, <1>3, <2>2 DEF Types, StateType, LeaseInv, Life
  <2>4. Types'
    BY <1>1, <1>2, <1>5, <2>1, <2>2 DEF Types
  <2>5. Local(t, l)
    BY <1>1, <1>2, <1>3, <1>5, <2>1, <2>2, <2>3 DEF Local, Same, Healthy
  <2>6. TaskInv(t)'
    BY <1>3, <1>5, <2>1, Idle
  <2>7. ~Pinned(l)
    BY <1>2, <1>3, <1>5 DEF Unpinned, At
  <2>8. LeaseInv(l)'
    <3>1. Life(l)'
      BY <1>3, <1>5, <2>3 DEF Life
    <3>2. Counted(l)'
      BY <1>2, <1>3, <1>5, <2>1, KeepsCount DEF LeaseInv
    <3>3. \A u \in Threads : Closer(u, l) => Closer(u, l)'
      BY <1>3, <2>1 DEF Closer
    <3>4. Exports(l)'
      BY <1>2, <1>3, <1>5, <2>3, <3>3 DEF LeaseInv, Exports
    <3>5. Pins(l)'
      BY <1>2, <2>3, <2>7 DEF Pins, Pinned
    <3>6. Token(l)'
      BY <1>2, <1>3, <1>5, <2>3 DEF LeaseInv, Token, At
    <3>7. QED
      BY <3>1, <3>2, <3>4, <3>5, <3>6 DEF LeaseInv
  <2>9. QED
    BY <1>3, <1>4, <2>4, <2>5, <2>6, <2>8, LocalStep
<1>6. ASSUME task[t].res = "ok", Move(t, "export"), UNCHANGED <<state, lock>>,
             exporter' = [exporter EXCEPT ![l] =
               [NoExporter EXCEPT !.rooted = TRUE, !.closed = FALSE, !.exports = 1]]
      PROVE  IInv'
  <2>1. /\ task' \in [Threads -> TaskType]
        /\ \A u \in Threads \ {t} : task'[u] = task[u]
        /\ task'[t].pc = "export" /\ task'[t].lease = l /\ task'[t].by = "app"
    BY <1>1, <1>3, <1>6, Moves DEF Steps
  <2>2. [NoExporter EXCEPT !.rooted = TRUE, !.closed = FALSE, !.exports = 1] \in ExportType
    <3>1. 1 \in 0 .. MaxViews
      BY LeaseAssumption
    <3>2. QED
      BY <3>1 DEF NoExporter, ExportType
  <2>3. /\ exporter' \in [Leases -> ExportType]
        /\ \A k \in Leases \ {l} : exporter'[k] = exporter[k]
        /\ exporter'[l] = [NoExporter EXCEPT !.rooted = TRUE, !.closed = FALSE, !.exports = 1]
    BY <1>1, <1>3, <1>6, <2>2 DEF Types
  <2>4. /\ exporter'[l].exports = 1 /\ ~exporter'[l].closed /\ ~exporter'[l].closing
        /\ exporter'[l].rooted /\ ~exporter'[l].closeRequested
    BY <2>3 DEF NoExporter
  <2>5. Types'
    BY <1>1, <1>2, <1>6, <2>1, <2>3 DEF Types
  <2>6. Local(t, l)
    BY <1>1, <1>2, <1>3, <1>6, <2>1, <2>3 DEF Local, Same, Healthy
  <2>7. TaskInv(t)'
    BY <1>2, <1>3, <1>6, <2>1 DEF TaskInv, Shape, Locked, Works, Closes, Retains, Relies,
       Reports, InLock, LockSteps, Begins, Drops, Ends, Cleans, Detaches, Answered, Unpinned,
       Obtaining, LiveSteps, Finalizer, Closer, Pinning, At
  <2>8. LeaseInv(l)'
    <3>1. Life(l)'
      BY <1>3, <1>6, <2>4 DEF LeaseInv, Life
    <3>2. Counted(l)'
      BY <1>2, <1>3, <2>1, <2>4, ExportBegins DEF LeaseInv
    <3>3. Exports(l)'
      BY <1>3, <1>6, <2>4 DEF Exports, Live
    <3>4. Pins(l)'
      BY <1>2, <1>3, <1>6 DEF Pins, Pinned, Unpinned, At
    <3>5. Token(l)'
      BY <1>2, <1>3, <1>6, <2>1 DEF LeaseInv, Token, Obtaining, At
    <3>6. QED
      BY <3>1, <3>2, <3>3, <3>4, <3>5 DEF LeaseInv
  <2>9. QED
    BY <1>3, <1>4, <2>5, <2>6, <2>7, <2>8, LocalStep
<1>7. ASSUME task[t].res = "ok", Become(t, [task[t] EXCEPT !.pc = "drop", !.by = "undo"]),
             UNCHANGED <<state, exporter, lock>>
      PROVE  IInv'
  <2>1. [task[t] EXCEPT !.pc = "drop", !.by = "undo"] \in TaskType
    BY <1>1 DEF TaskType, Steps
  <2>2. /\ task' \in [Threads -> TaskType]
        /\ task'[t] = [task[t] EXCEPT !.pc = "drop", !.by = "undo"]
        /\ \A u \in Threads \ {t} : task'[u] = task[u]
    BY <1>1, <1>7, <2>1, Becomes
  <2>3. task'[t].pc = "drop" /\ task'[t].lease = l /\ task'[t].by = "undo"
    BY <1>1, <2>2 DEF TaskType
  <2>4. Types'
    BY <1>1, <1>2, <1>7, <2>2 DEF Types
  <2>5. Local(t, l)
    BY <1>1, <1>2, <1>3, <1>7, <2>2, <2>3 DEF Local, Same, Healthy
  <2>6. TaskInv(t)'
    <3>1. Shape(t)' /\ Reports(t)' /\ Retains(t)'
      BY <1>3, <2>3 DEF Shape, Reports, Retains, Unpinned, Begins, Drops, Ends, Cleans,
         Detaches, Answered, At
    <3>2. Locked(t)' /\ Works(t)'
      BY <1>3, <1>7, <2>3 DEF Locked, Works, InLock, LockSteps, Finalizer
    <3>3. Closes(t)' /\ Relies(t)'
      BY <1>2, <1>3, <1>7, <2>3 DEF Closes, Closer, Pinning, Drops, Relies, Obtaining,
         LiveSteps, Detaches, Live, Finalizer, At
    <3>4. QED
      BY <3>1, <3>2, <3>3 DEF TaskInv
  <2>7. LeaseInv(l)'
    <3>1. Life(l)'
      BY <1>3, <1>7 DEF LeaseInv, Life
    <3>2. Counted(l)'
      BY <1>2, <1>3, <1>7, <2>2, <2>3, KeepsCount DEF LeaseInv
    <3>3. Pinning(lock, l)'
      BY <1>3, <1>7, <2>3 DEF Pinning, Drops
    <3>4. \A u \in Threads : Closer(u, l) => Closer(u, l)'
      BY <1>3, <2>2 DEF Closer
    <3>5. Exports(l)'
      BY <1>2, <1>3, <1>7, <3>3, <3>4 DEF LeaseInv, Exports
    <3>6. Pins(l)'
      BY <1>2, <1>3, <1>7 DEF Pins, Pinned, Unpinned, At
    <3>7. Token(l)'
      BY <1>2, <1>3, <1>7, <2>2 DEF LeaseInv, Token, Obtaining, At
    <3>8. QED
      BY <3>1, <3>2, <3>5, <3>6, <3>7 DEF LeaseInv
  <2>8. QED
    BY <1>3, <1>4, <2>4, <2>5, <2>6, <2>7, LocalStep
<1>8. QED
  BY <1>3, <1>5, <1>6, <1>7 DEF RetainReturns, Unlock

\* Nobody knows whether there is a pin: the lease is uncertain and recorded.
LEMMA RetainInterruptedStep ==
  ASSUME IInv, NEW t \in Threads, NEW l \in {0} \cup Leases, task[t].lease = l, RetainInterrupted(t)
  PROVE  IInv'
<1>1. TaskInv(t) /\ Types /\ (\A k \in Leases : k # 0)
  BY Mover
<1>2. /\ task[t].pc \in {"retain", "retained"} /\ UNCHANGED <<native, exporter, app>>
      /\ state' = [state EXCEPT ![l].uncertain = TRUE] /\ failed' = failed \cup {l}
      /\ life' = [life EXCEPT !.poisoned = TRUE] /\ lock' = NoThread /\ Stop(t)
      /\ interrupts' = interrupts + 1 /\ interrupts' \in 0 .. MaxInterrupts
  BY <1>1, LeaseAssumption DEF RetainInterrupted, Interrupts, Unlock, Retain, Types
<1>3. /\ l # 0 /\ l \in Leases /\ LeaseInv(l) /\ task[t].by = "app" /\ lock = t /\ NoThread # t
      /\ Live(l) /\ state[l].viewPin /\ exporter[l].closed /\ ~exporter[l].rooted
      /\ exporter[l].exports = 0
      /\ state[l].made /\ ~state[l].finalized /\ ~state[l].cleanupRequested
      /\ ~exporter[l].closeRequested
      /\ ~Closer(t, l) /\ ~Finalizer(t) /\ ~Obtaining(t)
      /\ \A u \in Threads : task[u].lease = l => ~Finalizer(u)
  BY <1>2, Retaining
<1>4. /\ task' \in [Threads -> TaskType] /\ task'[t] = NoTask /\ task'[t].lease = 0
      /\ task'[t].pc = "idle" /\ \A u \in Threads \ {t} : task'[u] = task[u]
  BY <1>1, <1>2, Stops
<1>5. /\ state' \in [Leases -> StateType]
      /\ \A k \in Leases \ {l} : state'[k] = state[k]
      /\ state'[l].made = state[l].made /\ state'[l].acquiring = state[l].acquiring
      /\ state'[l].viewPin = state[l].viewPin /\ state'[l].finalized = state[l].finalized
      /\ state'[l].cleanupRequested = state[l].cleanupRequested
      /\ state'[l].active = state[l].active /\ state'[l].uncertain
  BY <1>1, <1>2, <1>3, BecomesUncertain
<1>6. /\ state'[l].made /\ state'[l].acquiring = state[l].acquiring
      /\ state'[l].active = state[l].active /\ state'[l].uncertain
      /\ state'[l].viewPin /\ ~state'[l].finalized
      /\ state'[l].cleanupRequested = state'[l].finalized
  BY <1>1, <1>3, <1>5 DEF Types, StateType, LeaseInv, Life
<1>7. life' \in LifeType /\ life'.poisoned /\ life'.pin = life.pin
  BY <1>1, <1>2 DEF Types, LifeType
<1>8. ~Healthy'
  BY <1>1, <1>2 DEF Healthy, Types
<1>9. Types'
  BY <1>1, <1>2, <1>3, <1>4, <1>5, <1>7 DEF Types
<1>10. Local(t, l)
  BY <1>1, <1>2, <1>3, <1>4, <1>5, <1>6, <1>7, <1>8 DEF Local, Same
<1>11. TaskInv(t)'
  BY <1>2, <1>3, <1>4, Idle
<1>12. LeaseInv(l)'
  <2>1. Life(l)'
    BY <1>2, <1>3, <1>6 DEF Life
  <2>2. Counted(l)'
    BY <1>2, <1>3, <1>4, KeepsCount DEF LeaseInv
  <2>3. \A u \in Threads : Closer(u, l) => Closer(u, l)'
    BY <1>3, <1>4 DEF Closer
  <2>4. Exports(l)'
    BY <1>2, <1>3, <1>6, <2>3 DEF LeaseInv, Exports
  <2>5. Pins(l)'
    BY <1>6 DEF Pins
  <2>6. Token(l)'
    BY <1>2, <1>3, <1>6, <1>7 DEF LeaseInv, Token, Obtaining, At
  <2>7. QED
    BY <2>1, <2>2, <2>4, <2>5, <2>6 DEF LeaseInv
<1>13. Native' /\ Health'
  BY <1>2, <1>8 DEF IInv, Native, Health
<1>14. QED
  BY <1>3, <1>9, <1>10, <1>11, <1>12, <1>13, LocalStep

\* buffer_get through a view, without the lock.
LEMMA ReexportStep ==
  ASSUME IInv, NEW t \in Threads, NEW l \in Leases, Reexport(t, l)
  PROVE  IInv'
<1>1. /\ TaskInv(t) /\ Types /\ (\A k \in Leases : k # 0)
  BY LeaseAssumption DEF IInv, Leases
<1>2. /\ task[t] = NoTask /\ task[t].lease = 0 /\ task[t].pc = "idle" /\ app.views[l] > 0
      /\ lock # t /\ exporter[l].exports < MaxViews
      /\ exporter' = [exporter EXCEPT ![l].exports = @ + 1]
      /\ Become(t, [NoTask EXCEPT !.pc = "reexport", !.lease = l])
      /\ UNCHANGED <<native, life, lock, state, app, failed, interrupts>>
  BY <1>1 DEF TaskInv, Shape, Locked, InLock, LockSteps, NoTask, Reexport, At
<1>3. /\ LeaseInv(l) /\ state[l].made /\ ~state[l].finalized /\ ~state[l].cleanupRequested
      /\ ~exporter[l].closeRequested /\ l # 0
      /\ \A u \in Threads : task[u].lease = l => ~Finalizer(u)
  BY <1>2, Held, Reached
<1>4. exporter[l].exports > 0
  <2>1. IsFiniteSet(Exporting(l)) /\ Cardinality(Exporting(l)) \in Nat
    BY <1>3, FS_CardinalityType DEF LeaseInv, Counted
  <2>2. app.views[l] \in Nat /\ app.stale[l] \in Nat
    BY <1>1 DEF Types, AppType
  <2>3. QED
    BY <1>2, <1>3, <2>1, <2>2 DEF LeaseInv, Counted
<1>5. Native' /\ Health'
  BY <1>2 DEF IInv, Native, Health, Healthy
<1>6. [NoTask EXCEPT !.pc = "reexport", !.lease = l] \in TaskType
  BY DEF NoTask, TaskType, Steps
<1>7. /\ task' \in [Threads -> TaskType] /\ task'[t] = [NoTask EXCEPT !.pc = "reexport", !.lease = l]
      /\ \A u \in Threads \ {t} : task'[u] = task[u]
  BY <1>1, <1>2, <1>6, Becomes
<1>8. task'[t].pc = "reexport" /\ task'[t].lease = l /\ task'[t].by = "app"
  BY <1>7 DEF NoTask
<1>9. /\ exporter' \in [Leases -> ExportType]
      /\ \A k \in Leases \ {l} : exporter'[k] = exporter[k]
      /\ exporter'[l] = [exporter[l] EXCEPT !.exports = @ + 1]
  BY <1>1, <1>2, LeaseAssumption DEF Types, ExportType
<1>10. /\ exporter'[l].exports = exporter[l].exports + 1 /\ exporter'[l].exports > 0
       /\ exporter'[l].closed = exporter[l].closed /\ exporter'[l].closing = exporter[l].closing
       /\ exporter'[l].rooted = exporter[l].rooted
       /\ exporter'[l].closeRequested = exporter[l].closeRequested
  <2>1. exporter[l] \in ExportType
    BY <1>1 DEF Types
  <2>2. QED
    BY <2>1, <1>4, <1>9 DEF ExportType
<1>11. Types'
  BY <1>1, <1>2, <1>7, <1>9 DEF Types
<1>12. Local(t, l)
  BY <1>1, <1>2, <1>3, <1>4, <1>7, <1>8, <1>9 DEF Local, Same, Kept, Healthy
<1>13. TaskInv(t)'
  BY <1>2, <1>3, <1>8
     DEF TaskInv, Shape, Locked, Works, Closes, Retains, Relies, Reports, InLock, LockSteps,
         Begins, Drops, Ends, Cleans, Detaches, Answered, Unpinned, Obtaining, LiveSteps, Finalizer,
         Closer, Pinning, At
<1>14. LeaseInv(l)'
  <2>1. Life(l)'
    BY <1>2, <1>3, <1>10 DEF LeaseInv, Life
  <2>2. Counted(l)'
    BY <1>2, <1>3, <1>7, <1>8, <1>10, ExportBegins DEF LeaseInv
  <2>3. \A u \in Threads : u = lock => u # t /\ task'[u] = task[u]
    BY <1>2, <1>7
  <2>4. Exports(l)'
    BY <1>2, <1>3, <1>4, <1>10 DEF LeaseInv, Exports
  <2>5. Pins(l)'
    BY <1>2, <1>3, <2>3 DEF LeaseInv, Pins, Pinned, Unpinned, At
  <2>6. Token(l)'
    BY <1>2, <1>3, <2>3 DEF LeaseInv, Token, Obtaining, At
  <2>7. QED
    BY <2>1, <2>2, <2>4, <2>5, <2>6 DEF LeaseInv
<1>15. QED
  BY <1>5, <1>11, <1>12, <1>13, <1>14, LocalStep

\* An export that is over, and the close that waited for it.
LEMMA EndExportStep ==
  ASSUME IInv, NEW t \in Threads, NEW l \in Leases, EndExport(t, l), exporter[l].exports > 0,
         \/ /\ task[t].pc \in {"export", "reexport"} /\ task[t].lease = l /\ app' = app
         \/ /\ task[t] = NoTask /\ app' \in AppType
            /\ app'.leases = app.leases /\ app'.endpoint = app.endpoint
            /\ \A k \in Leases \ {l} : app'.views[k] = app.views[k] /\ app'.stale[k] = app.stale[k]
            /\ app'.views[l] + app'.stale[l] = app.views[l] + app.stale[l] - 1
            /\ app'.views[l] <= app.views[l],
         lock' = IF At(t, "export") THEN NoThread ELSE lock,
         UNCHANGED <<native, life, state, failed, interrupts>>,
         \A u \in Threads \ {t} : task[u].lease = l => ~Finalizer(u)
  PROVE  IInv'
<1>1. /\ TaskInv(t) /\ LeaseInv(l) /\ Types /\ (\A k \in Leases : k # 0) /\ NoThread \notin Threads
  BY LeaseAssumption DEF IInv, Leases
<1>2. /\ exporter[l].exports \in 1 .. MaxViews /\ ~exporter[l].closed /\ ~exporter[l].closing
      /\ exporter[l].rooted /\ state[l].viewPin /\ ~state[l].uncertain
  BY <1>1 DEF LeaseInv, Exports, Types, ExportType
<1>3. state[l].made
  <2>1. exporter[l] # NoExporter
    BY <1>2 DEF NoExporter
  <2>2. QED
    BY <1>1, <2>1 DEF LeaseInv, Life
<1>4. /\ task[t].pc \in {"idle", "export", "reexport"} /\ task[t].by = "app" /\ task[t].lease \in {0, l}
      /\ ~Finalizer(t)
      /\ lock = t <=> At(t, "export")
  BY <1>1 DEF TaskInv, Shape, Locked, InLock, LockSteps, NoTask, Begins, Finalizer, At
<1>5. Native' /\ Health'
  BY DEF IInv, Native, Health, Healthy
<1>6. lock' # t /\ (lock' = lock \/ (lock = t /\ lock' = NoThread))
  BY <1>1, <1>4
<1>7. /\ app' \in AppType /\ app'.leases = app.leases /\ app'.endpoint = app.endpoint
      /\ \A k \in Leases \ {l} : app'.views[k] = app.views[k] /\ app'.stale[k] = app.stale[k]
      /\ app.views[l] = 0 => app'.views[l] = 0
  BY <1>1 DEF Types, AppType
<1>8. PICK x \in ExportType :
        /\ x = [exporter[l] EXCEPT !.exports = @ - 1]
        /\ x.exports = exporter[l].exports - 1 /\ ~x.closed /\ ~x.closing /\ x.rooted
        /\ x.closeRequested = exporter[l].closeRequested
  <2>1. exporter[l] \in ExportType
    BY <1>1 DEF Types
  <2>2. [exporter[l] EXCEPT !.exports = @ - 1] \in ExportType
    <3>1. exporter[l].exports - 1 \in 0 .. MaxViews
      BY <1>2, LeaseAssumption
    <3>2. QED
      BY <2>1, <3>1 DEF ExportType
  <2>3. LET x == [exporter[l] EXCEPT !.exports = @ - 1] IN
          /\ x.exports = exporter[l].exports - 1 /\ ~x.closed /\ ~x.closing /\ x.rooted
          /\ x.closeRequested = exporter[l].closeRequested
    BY <1>2, <2>1 DEF ExportType
  <2>4. QED
    BY <2>2, <2>3
<1>9. PICK c \in BOOLEAN : c <=> x.exports = 0 /\ x.closeRequested
  OBVIOUS
<1>10. /\ c => /\ exporter' = [exporter EXCEPT ![l] = StartClose(x)]
               /\ Become(t, [NoTask EXCEPT !.pc = "drop", !.lease = l, !.by = "exporter"])
       /\ ~c => exporter' = [exporter EXCEPT ![l] = x] /\ Stop(t)
  BY <1>8, <1>9 DEF EndExport
<1>11. /\ exporter' \in [Leases -> ExportType]
       /\ \A k \in Leases \ {l} : exporter'[k] = exporter[k]
       /\ exporter'[l].exports = exporter[l].exports - 1
       /\ exporter'[l].closed = c /\ exporter'[l].closing = c /\ exporter'[l].rooted
       /\ exporter'[l].closeRequested = exporter[l].closeRequested
  <2>1. StartClose(x) \in ExportType /\ StartClose(x).exports = x.exports /\ StartClose(x).closed
        /\ StartClose(x).closing /\ StartClose(x).rooted = x.rooted
        /\ StartClose(x).closeRequested = x.closeRequested
    BY <1>8 DEF StartClose, ExportType
  <2>2. \A y \in ExportType : exporter' = [exporter EXCEPT ![l] = y] =>
          /\ exporter' \in [Leases -> ExportType] /\ exporter'[l] = y
          /\ \A k \in Leases \ {l} : exporter'[k] = exporter[k]
    BY <1>1 DEF Types
  <2>3. x.closed = FALSE /\ x.closing = FALSE /\ StartClose(x).closed = TRUE /\ StartClose(x).closing = TRUE
    BY <1>8, <2>1 DEF ExportType
  <2>4. CASE c
    BY <1>8, <1>10, <2>1, <2>2, <2>3, <2>4
  <2>5. CASE ~c
    BY <1>8, <1>10, <2>2, <2>3, <2>5
  <2>6. QED
    BY <2>4, <2>5
<1>12. /\ task' \in [Threads -> TaskType]
       /\ \A u \in Threads \ {t} : task'[u] = task[u]
       /\ c => /\ task'[t].pc = "drop" /\ task'[t].lease = l /\ task'[t].by = "exporter"
               /\ task'[t].res = "none"
       /\ ~c => task'[t] = NoTask /\ task'[t].lease = 0 /\ task'[t].pc = "idle"
  <2>1. [NoTask EXCEPT !.pc = "drop", !.lease = l, !.by = "exporter"] \in TaskType
    BY DEF NoTask, TaskType, Steps
  <2>2. CASE c
    <3>1. Become(t, [NoTask EXCEPT !.pc = "drop", !.lease = l, !.by = "exporter"])
      BY <1>10, <2>2
    <3>2. /\ task' \in [Threads -> TaskType]
          /\ \A u \in Threads \ {t} : task'[u] = task[u]
          /\ task'[t] = [NoTask EXCEPT !.pc = "drop", !.lease = l, !.by = "exporter"]
      BY <1>1, <2>1, <3>1, Becomes
    <3>3. QED
      BY <2>2, <3>2 DEF NoTask
  <2>3. CASE ~c
    BY <1>1, <1>10, <2>3, Stops
  <2>4. QED
    BY <2>2, <2>3
<1>13. c => Gone(l) /\ task[t].lease = 0 /\ \A u \in Threads : task[u].lease # l
  BY <1>1, <1>4, <1>8, <1>9 DEF LeaseInv, Life, Gone
<1>14. Types'
  BY <1>1, <1>7, <1>11, <1>12 DEF Types
<1>15. Local(t, l)
  BY <1>1, <1>2, <1>4, <1>6, <1>7, <1>11, <1>12 DEF Local, Same, Kept, Healthy
<1>16. Gone(l) => Gone(l)'
  <2>1. \A u \in Threads : task'[u].lease = l =>
          \/ u # t /\ task'[u] = task[u]
          \/ u = t /\ task'[u].by = "exporter"
    BY <1>1, <1>9, <1>12
  <2>2. state[l].made
    BY <1>3
  <2>3. QED
    BY <1>7, <2>1, <2>2 DEF Gone, Finalizer
<1>17. TaskInv(t)'
  <2>1. CASE ~c
    BY <1>6, <1>12, <2>1, Idle
  <2>2. CASE c
    <3>1. Shape(t)' /\ Locked(t)' /\ Retains(t)' /\ Relies(t)' /\ Reports(t)'
      BY <1>1, <1>6, <1>12, <2>2 DEF Shape, Locked, Retains, Relies, Reports, InLock, LockSteps,
         Begins, Drops, Ends, Cleans, Detaches, Answered, Unpinned, Obtaining, LiveSteps, At
    <3>2. Works(t)'
      BY <1>3, <1>12, <1>13, <1>16, <2>2 DEF Works
    <3>3. Closes(t)'
      BY <1>2, <1>11, <1>12, <2>2 DEF Closes, Closer, Pinning, Drops, At
    <3>4. QED
      BY <3>1, <3>2, <3>3 DEF TaskInv
  <2>3. QED
    BY <2>1, <2>2
<1>18. LeaseInv(l)'
  <2>1. Life(l)'
    BY <1>1, <1>3, <1>11, <1>16 DEF LeaseInv, Life
  <2>2. Counted(l)'
    <3>1. CASE task[t].pc \in {"export", "reexport"}
      <4>1. task[t].lease = l /\ app' = app
        BY <3>1 DEF NoTask
      <4>2. task'[t].pc \notin {"export", "reexport"}
        BY <1>12
      <4>3. /\ app.views[l] \in Nat /\ app.stale[l] \in Nat /\ exporter[l].exports \in Nat
            /\ exporter'[l].exports \in Nat
        BY <1>1, <1>2, <1>11 DEF Types, AppType
      <4>4. exporter'[l].exports - (app'.views[l] + app'.stale[l])
              = exporter[l].exports - (app.views[l] + app.stale[l]) - 1
        BY <4>1, <4>3, <1>11
      <4>5. QED
        BY <3>1, <4>1, <4>2, <4>3, <4>4, <1>1, <1>7, <1>12, ExportEnds DEF LeaseInv
    <3>2. CASE task[t] = NoTask
      <4>1. Exporting(l)' = Exporting(l)
        BY <1>12, <3>2 DEF Exporting, NoTask
      <4>2. /\ app.views[l] \in Nat /\ app.stale[l] \in Nat /\ exporter[l].exports \in Nat
            /\ app'.views[l] \in Nat /\ app'.stale[l] \in Nat
        BY <1>1, <1>2, <1>7 DEF Types, AppType
      <4>3. IsFiniteSet(Exporting(l)) /\ Cardinality(Exporting(l)) \in Nat
        BY <1>1, FS_CardinalityType DEF LeaseInv, Counted
      <4>4. app'.views[l] + app'.stale[l] = app.views[l] + app.stale[l] - 1
        BY <3>2 DEF NoTask
      <4>5. QED
        BY <4>1, <4>2, <4>3, <4>4, <1>1, <1>11 DEF LeaseInv, Counted
    <3>3. QED
      BY <3>1, <3>2
  <2>3. Exports(l)'
    <3>1. c => Closer(t, l)'
      BY <1>12 DEF Closer
    <3>2. exporter'[l].exports \in Nat
      BY <1>2, <1>11
    <3>3. exporter'[l].exports = 0 /\ exporter'[l].closeRequested => c
      BY <1>8, <1>9, <1>11
    <3>4. c => exporter'[l].exports = 0
      BY <1>8, <1>9, <1>11
    <3>5. QED
      BY <1>2, <1>11, <3>1, <3>2, <3>3, <3>4 DEF Exports
  <2>4. \A u \in Threads : lock = u => \/ u = t /\ At(u, "export")
                                       \/ task'[u] = task[u] /\ lock' = u
    BY <1>4, <1>6, <1>12
  <2>5. Pins(l)'
    BY <1>1, <2>4 DEF LeaseInv, Pins, Pinned, Unpinned, At
  <2>6. Token(l)'
    BY <1>1, <1>11, <2>4 DEF LeaseInv, Token, Obtaining, At
  <2>7. QED
    BY <2>1, <2>2, <2>3, <2>5, <2>6 DEF LeaseInv
<1>19. QED
  BY <1>5, <1>14, <1>15, <1>17, <1>18, LocalStep

\* Whoever may touch the memory of an exporter is counted.
LEMMA CountedExports ==
  ASSUME IInv, NEW l \in Leases,
         \/ app.views[l] > 0 \/ app.stale[l] > 0
         \/ \E t \in Threads : task[t].pc \in {"export", "reexport"} /\ task[t].lease = l
  PROVE  exporter[l].exports > 0
<1>1. Counted(l)
  BY DEF IInv, LeaseInv
<1>2. app.views[l] \in Nat /\ app.stale[l] \in Nat
  BY DEF IInv, Types, AppType
<1>3. IsFiniteSet(Exporting(l)) /\ Cardinality(Exporting(l)) \in Nat
  BY <1>1, FS_CardinalityType DEF Counted
<1>4. exporter[l].exports = app.views[l] + app.stale[l] + Cardinality(Exporting(l))
  BY <1>1 DEF Counted
<1>5. CASE app.views[l] > 0 \/ app.stale[l] > 0
  BY <1>2, <1>3, <1>4, <1>5
<1>6. CASE \E t \in Threads : task[t].pc \in {"export", "reexport"} /\ task[t].lease = l
  <2>1. Exporting(l) # {}
    BY <1>6 DEF Exporting
  <2>2. Cardinality(Exporting(l)) # 0
    BY <1>3, <2>1, FS_EmptySet
  <2>3. QED
    BY <1>2, <1>3, <1>4, <2>2
<1>7. QED
  BY <1>5, <1>6

\* An export becomes a view, or fails.
LEMMA ExportedStep ==
  ASSUME IInv, NEW t \in Threads, NEW l \in {0} \cup Leases, task[t].lease = l, Exported(t)
  PROVE  IInv'
<1>1. /\ TaskInv(t) /\ Types /\ (l # 0 => l \in Leases /\ LeaseInv(l)) /\ NoThread \notin Threads
      /\ \A k \in Leases : k # 0
      /\ \A u \in Threads \ {t} : l # 0 /\ task[u].lease = l => ~Finalizer(u)
  BY Mover, LeaseAssumption
<1>2. /\ task[t].pc \in {"export", "reexport"} /\ task[t].by = "app" /\ l # 0 /\ l \in Leases
      /\ lock' = IF At(t, "export") THEN NoThread ELSE lock
      /\ UNCHANGED <<native, life, state, failed, interrupts>>
      /\ \/ /\ Live(l) /\ app' = [app EXCEPT !.views[l] = @ + 1]
            /\ Stop(t) /\ UNCHANGED exporter
         \/ EndExport(t, l) /\ UNCHANGED app
  BY <1>1 DEF TaskInv, Shape, Begins, Exported
<1>3. exporter[l].exports > 0
  BY <1>2, CountedExports
<1>4. CASE EndExport(t, l) /\ UNCHANGED app
  BY <1>1, <1>2, <1>3, <1>4, EndExportStep
<1>5. CASE /\ app' = [app EXCEPT !.views[l] = @ + 1]
           /\ Stop(t) /\ UNCHANGED exporter
  <2>1. /\ task' \in [Threads -> TaskType] /\ task'[t] = NoTask /\ task'[t].lease = 0
        /\ task'[t].pc = "idle" /\ \A u \in Threads \ {t} : task'[u] = task[u]
    BY <1>1, <1>5, Stops
  <2>2. app \in AppType /\ l \in Leases
    BY <1>1, <1>2 DEF Types
  <2>3. /\ app' \in AppType /\ app'.leases = app.leases /\ app'.endpoint = app.endpoint
        /\ app'.stale = app.stale /\ app'.views[l] = app.views[l] + 1
        /\ \A k \in Leases \ {l} : app'.views[k] = app.views[k]
    BY <2>2, <1>5 DEF AppType
  <2>4. /\ app.views[l] \in Nat /\ app.stale[l] \in Nat /\ exporter[l].exports \in Nat
    BY <1>1, <1>2, <2>2 DEF Types, AppType, ExportType
  <2>5. /\ state[l].made /\ ~Finalizer(t)
    BY <1>1, <1>2 DEF TaskInv, Works, Finalizer
  <2>6. ~state[l].finalized /\ ~state[l].cleanupRequested /\ ~exporter[l].closeRequested
    BY <1>2, <2>5, Held DEF Gone
  <2>7. lock = t <=> At(t, "export")
    BY <1>1, <1>2 DEF TaskInv, Locked, InLock, LockSteps, At
  <2>8. lock' # t /\ (lock' = lock \/ (lock = t /\ lock' = NoThread))
    BY <1>1, <1>2, <2>7
  <2>9. Types'
    BY <1>1, <1>2, <1>5, <2>1, <2>3 DEF Types
  <2>10. Native' /\ Health'
    BY <1>2 DEF IInv, Native, Health, Healthy
  <2>11. Local(t, l)
    BY <1>1, <1>2, <1>5, <2>1, <2>3, <2>8 DEF Local, Same, Kept, Healthy
  <2>12. TaskInv(t)'
    BY <2>1, <2>8, Idle
  <2>13. LeaseInv(l)'
    <3>1. Life(l)'
      BY <1>1, <1>2, <1>5, <2>5, <2>6 DEF Life, LeaseInv
    <3>2. Counted(l)'
      <4>1. exporter'[l].exports - (app'.views[l] + app'.stale[l])
              = exporter[l].exports - (app.views[l] + app.stale[l]) - 1
        BY <1>5, <2>3, <2>4
      <4>2. QED
        BY <1>1, <1>2, <1>5, <2>1, <2>3, <2>4, <4>1, ExportEnds DEF LeaseInv
    <3>3. \A u \in Threads : lock = u => \/ u = t /\ task[u].pc = "export"
                                         \/ task'[u] = task[u] /\ lock' = u
      BY <2>1, <2>7, <2>8 DEF At
    <3>4. \A u \in Threads : Closer(u, l) => Closer(u, l)'
      BY <1>2, <2>1 DEF Closer, Drops
    <3>5. Exports(l)'
      BY <1>1, <1>2, <1>5, <3>3, <3>4 DEF LeaseInv, Exports, Pinning, Drops
    <3>6. Pins(l)'
      BY <1>1, <1>2, <3>3 DEF LeaseInv, Pins, Pinned, Unpinned, At
    <3>7. Token(l)'
      BY <1>1, <1>2, <2>6, <3>3 DEF LeaseInv, Token, Obtaining, At
    <3>8. QED
      BY <3>1, <3>2, <3>5, <3>6, <3>7 DEF LeaseInv
  <2>14. QED
    BY <2>9, <2>10, <2>11, <2>12, <2>13, LocalStep
<1>6. QED
  BY <1>2, <1>4, <1>5

\* A view is released by its holder.
LEMMA ReleaseViewStep ==
  ASSUME IInv, NEW t \in Threads, NEW l \in Leases, ReleaseView(t, l)
  PROVE  IInv'
<1>1. /\ TaskInv(t) /\ Types /\ app \in AppType
  BY DEF IInv, Types
<1>2. /\ task[t] = NoTask /\ ~At(t, "export") /\ app.views[l] > 0 /\ EndExport(t, l)
      /\ app' = [app EXCEPT !.views[l] = @ - 1]
      /\ UNCHANGED <<native, life, lock, state, failed, interrupts>>
  BY <1>1 DEF TaskInv, Shape, ReleaseView, At
<1>3. app.views[l] \in Nat /\ app.stale[l] \in Nat /\ app.views[l] - 1 \in Nat
  BY <1>1, <1>2 DEF AppType
<1>4. /\ app' \in AppType /\ app'.leases = app.leases /\ app'.endpoint = app.endpoint
      /\ app'.stale = app.stale /\ app'.views[l] = app.views[l] - 1
      /\ \A k \in Leases \ {l} : app'.views[k] = app.views[k]
  BY <1>1, <1>2, <1>3 DEF AppType
<1>5. /\ app'.views[l] + app'.stale[l] = app.views[l] + app.stale[l] - 1
      /\ app'.views[l] <= app.views[l]
  BY <1>3, <1>4
<1>6. exporter[l].exports > 0
  BY <1>2, CountedExports
<1>7. \A u \in Threads \ {t} : task[u].lease = l => ~Finalizer(u)
  BY <1>2, Held, Reached
<1>8. QED
  BY <1>2, <1>4, <1>5, <1>6, <1>7, EndExportStep

\* The collector releases a view of a garbage cycle.
LEMMA CollectViewStep ==
  ASSUME IInv, NEW t \in Threads, NEW l \in Leases, CollectView(t, l)
  PROVE  IInv'
<1>1. /\ TaskInv(t) /\ Types /\ app \in AppType /\ l # 0
  BY LeaseAssumption DEF IInv, Types, Leases
<1>2. /\ task[t] = NoTask /\ ~At(t, "export") /\ app.stale[l] > 0 /\ EndExport(t, l)
      /\ app' = [app EXCEPT !.stale[l] = @ - 1]
      /\ Reachable(l) \/ ~WorkedOn(l)
      /\ UNCHANGED <<native, life, lock, state, failed, interrupts>>
  BY <1>1 DEF TaskInv, Shape, CollectView, At
<1>3. app.views[l] \in Nat /\ app.stale[l] \in Nat /\ app.stale[l] - 1 \in Nat
  BY <1>1, <1>2 DEF AppType
<1>4. /\ app' \in AppType /\ app'.leases = app.leases /\ app'.endpoint = app.endpoint
      /\ app'.views = app.views /\ app'.stale[l] = app.stale[l] - 1
      /\ \A k \in Leases \ {l} : app'.stale[k] = app.stale[k]
  BY <1>1, <1>2, <1>3 DEF AppType
<1>5. /\ app'.views[l] + app'.stale[l] = app.views[l] + app.stale[l] - 1
      /\ app'.views[l] <= app.views[l]
  BY <1>3, <1>4
<1>6. exporter[l].exports > 0
  BY <1>2, CountedExports
<1>7. ASSUME NEW u \in Threads, task[u].lease = l, Finalizer(u)
      PROVE  FALSE
  <2>1. Shape(u) /\ Works(u)
    BY DEF IInv, TaskInv
  <2>2. ~At(u, "idle")
    BY <1>1, <1>7, <2>1 DEF Shape, NoTask
  <2>3. ~Reachable(l)
    BY <1>1, <1>3, <1>7, <2>1 DEF Works, Gone, Reachable, Finalizer
  <2>4. QED
    BY <1>2, <1>7, <2>2, <2>3 DEF WorkedOn
<1>8. QED
  BY <1>2, <1>4, <1>5, <1>6, <1>7, EndExportStep
-----------------------------------------------------------------------------
(***************************************************************************)
(* Steps of the close of an exporter, of finish and of cleanup: they leave *)
(* the connection, the exports and what the application refers to alone.   *)
(***************************************************************************)

\* What such a step has to show of its task and its lease.
Goes(t, l) ==
  /\ UNCHANGED <<native, app>>
  /\ task' \in [Threads -> TaskType] /\ \A u \in Threads \ {t} : task'[u] = task[u]
  /\ task[t].lease \in {0, l} /\ task'[t].lease \in {0, l}
  /\ task[t].pc \notin {"export", "reexport"} /\ task'[t].pc \notin {"export", "reexport"}
  /\ task'[t].lease = l => task'[t].by \in {"exporter", "pin"} \/ l = 0 \/ ~Gone(l)
  /\ \/ task[t].lease = l
     \/ \A u \in Threads \ {t} : task[u].lease = l => ~Finalizer(u)
  /\ lock' = lock \/ (lock \in {NoThread, t} /\ lock' \in {NoThread, t})
  /\ lock \notin {NoThread, t} => Kept(l)
  /\ state' \in [Leases -> StateType] /\ exporter' \in [Leases -> ExportType]
  /\ \A k \in Leases \ {l} : state'[k] = state[k] /\ exporter'[k] = exporter[k]
  /\ l # 0 =>
       /\ state[l].made /\ state'[l].made
       /\ state'[l].active => state[l].active
       /\ state'[l].acquiring = state[l].acquiring
       /\ state'[l].cleanupRequested = state'[l].finalized
       /\ state'[l].finalized \/ exporter'[l].closeRequested => Gone(l)
       /\ exporter'[l].exports = exporter[l].exports
  /\ life' \in LifeType /\ (life.poisoned => life'.poisoned)
  /\ life'.pin = life.pin \/ (native.owner = 0 /\ life'.pin = 0)
  /\ failed \subseteq failed' /\ failed' \subseteq failed \cup {0, l}
  /\ interrupts' \in 0 .. MaxInterrupts /\ (Healthy' => Healthy) /\ Health'
  /\ TaskInv(t)'
  /\ l # 0 => Exports(l)' /\ Pins(l)' /\ Token(l)'

\* Such a step keeps the invariant.
LEMMA TaskGoes ==
  ASSUME IInv, NEW t \in Threads, NEW l \in {0} \cup Leases, Goes(t, l)
  PROVE  IInv'
<1> USE DEF Goes
<1>1. /\ Types /\ NoThread \notin Threads /\ (l # 0 => l \in Leases /\ LeaseInv(l))
      /\ \A k \in Leases : k # 0
  BY LeaseAssumption DEF IInv, Leases
<1>2. \A u \in Threads \ {t} : l # 0 /\ task[u].lease = l => ~Finalizer(u)
  <2>1. CASE task[t].lease = l
    BY <2>1, Mover
  <2>2. CASE \A u \in Threads \ {t} : task[u].lease = l => ~Finalizer(u)
    BY <2>2
  <2>3. QED
    BY <2>1, <2>2
<1>3. Types'
  BY <1>1 DEF Types
<1>4. Native'
  BY DEF IInv, Native
<1>5. Local(t, l)
  <2>1. \A k \in Leases \ {l} : Same(k)
    BY <1>1 DEF Same
  <2>2. QED
    BY <1>1, <1>2, <2>1 DEF Local, Types, LifeType
<1>6. ASSUME l # 0
      PROVE  LeaseInv(l)'
  <2>1. l \in Leases /\ LeaseInv(l)
    BY <1>1, <1>6
  <2>2. Gone(l) => Gone(l)'
    <3>1. ASSUME Gone(l), NEW u \in Threads, task'[u].lease = l
          PROVE  Finalizer(u)'
      <4>1. CASE u = t
        BY <1>6, <3>1, <4>1 DEF Finalizer
      <4>2. CASE u # t
        BY <3>1, <4>2 DEF Finalizer, Gone
      <4>3. QED
        BY <4>1, <4>2
    <3>2. QED
      BY <1>6, <3>1 DEF Gone
  <2>3. Life(l)'
    BY <1>6, <2>2 DEF Life
  <2>4. Counted(l)'
    <3>1. app'.views[l] + app'.stale[l] = app.views[l] + app.stale[l]
      OBVIOUS
    <3>2. QED
      BY <2>1, <3>1, <1>6, KeepsCount DEF LeaseInv
  <2>5. QED
    BY <1>6, <2>3, <2>4 DEF LeaseInv
<1>7. QED
  BY <1>1, <1>3, <1>4, <1>5, <1>6, LocalStep

\* What a task that ends outside a drop leaves behind: an exporter that was
\* closed lets go of the lease, and a token that is still owned by it is
\* somebody's or recorded.
LEMMA TaskEnds ==
  ASSUME IInv, NEW t \in Threads, NEW l \in {0} \cup Leases, task[t].lease = l,
         task[t].pc \in Ends \cup Cleans \cup Detaches,
         Stop(t), Release(t), UNCHANGED <<native, app>>,
         exporter' = IF task[t].by = "exporter" THEN [exporter EXCEPT ![l] = Closed(@)] ELSE exporter,
         state' \in [Leases -> StateType],
         \A k \in Leases \ {l} : state'[k] = state[k],
         lock # t => state' = state /\ life' = life,
         life' \in LifeType, life.poisoned => life'.poisoned,
         life'.pin = life.pin \/ (native.owner = 0 /\ life'.pin = 0),
         failed \subseteq failed', failed' \subseteq failed \cup {0, l},
         interrupts' \in 0 .. MaxInterrupts, Healthy' => Healthy, Health',
         l # 0 =>
           /\ state'[l].made = state[l].made /\ state'[l].acquiring = state[l].acquiring
           /\ state'[l].viewPin = state[l].viewPin /\ state'[l].finalized = state[l].finalized
           /\ state'[l].cleanupRequested = state[l].cleanupRequested
           /\ state'[l].active => state[l].active
           /\ state[l].uncertain => state'[l].uncertain
           /\ state'[l].uncertain => l \in failed' /\ (state[l].uncertain \/ ~state[l].viewPin)
           /\ native.owner = l =>
                /\ state'[l].active
                /\ \/ task[t].by = "app" \/ l \in failed'
                   \/ task[t].by = "pin" /\ exporter[l].rooted
           /\ state'[l].active /\ ~state'[l].uncertain => native.owner = l
  PROVE  IInv'
<1>1. /\ TaskInv(t) /\ Types /\ NoThread \notin Threads /\ (l # 0 => l \in Leases /\ LeaseInv(l))
      /\ \A k \in Leases : k # 0
      /\ \A u \in Threads \ {t} : l # 0 /\ task[u].lease = l => ~Finalizer(u) /\ ~Finalizer(t)
  BY Mover, LeaseAssumption
<1>2. /\ task' \in [Threads -> TaskType] /\ task'[t] = NoTask /\ task'[t].lease = 0
      /\ task'[t].pc = "idle" /\ \A u \in Threads \ {t} : task'[u] = task[u]
  BY <1>1, Stops
<1>3. /\ lock' # t /\ (lock' = lock \/ (lock = t /\ lock' = NoThread))
      /\ \A u \in Threads : lock = u => u = t \/ lock' = u
  BY <1>1 DEF Release
<1>4. /\ task[t].pc \notin {"export", "reexport", "retain", "retained", "view_ended"} \cup Drops
      /\ ~Obtaining(t)
  BY DEF Ends, Cleans, Detaches, Drops, Obtaining
<1>5. TaskInv(t)'
  BY <1>2, <1>3, Idle
<1>6. CASE l = 0
  <2>1. exporter' = exporter /\ state' = state
    <3>1. task[t].by # "exporter"
      BY <1>1, <1>6 DEF TaskInv, Shape, Ends, Cleans, Detaches
    <3>2. \A k \in Leases : state'[k] = state[k]
      BY <1>1, <1>6
    <3>3. QED
      BY <1>1, <3>1, <3>2 DEF Types
  <2>2. lock \notin {NoThread, t} => Kept(l)
    BY <1>6, <2>1 DEF Kept
  <2>3. exporter' \in [Leases -> ExportType] /\ state' \in [Leases -> StateType]
    BY <1>1, <2>1 DEF Types
  <2>4. Goes(t, l)
    BY <1>2, <1>3, <1>4, <1>5, <1>6, <2>1, <2>2, <2>3 DEF Goes
  <2>5. QED
    BY <2>4, TaskGoes
<1>7. CASE l # 0
  <2>1. l \in Leases /\ LeaseInv(l) /\ state[l].made /\ (Finalizer(t) => Gone(l))
    BY <1>1, <1>7 DEF TaskInv, Works
  <2>2. exporter \in [Leases -> ExportType] /\ exporter[l] \in ExportType
    BY <1>1, <2>1 DEF Types
  <2>3. /\ Closed(exporter[l]) \in ExportType
        /\ Closed(exporter[l]).exports = exporter[l].exports
        /\ Closed(exporter[l]).closed = exporter[l].closed
        /\ Closed(exporter[l]).closeRequested = exporter[l].closeRequested
        /\ ~Closed(exporter[l]).closing /\ ~Closed(exporter[l]).rooted
    BY <2>2 DEF Closed, ExportType
  <2>4. /\ exporter' \in [Leases -> ExportType]
        /\ \A k \in Leases \ {l} : exporter'[k] = exporter[k]
        /\ exporter'[l] = IF task[t].by = "exporter" THEN Closed(exporter[l]) ELSE exporter[l]
    <3>1. CASE task[t].by = "exporter"
      BY <2>1, <2>2, <2>3, <3>1
    <3>2. CASE task[t].by # "exporter"
      BY <2>2, <3>2
    <3>3. QED
      BY <3>1, <3>2
  <2>5. /\ exporter'[l].exports = exporter[l].exports
        /\ exporter'[l].closed = exporter[l].closed
        /\ exporter'[l].closeRequested = exporter[l].closeRequested
        /\ IF task[t].by = "exporter" THEN ~exporter'[l].closing /\ ~exporter'[l].rooted
           ELSE exporter'[l].closing = exporter[l].closing /\ exporter'[l].rooted = exporter[l].rooted
    BY <2>3, <2>4
  <2>6. task[t].by = "exporter" => exporter[l].closed /\ ~state[l].viewPin
    BY <1>1, <1>4, <1>7, <2>1 DEF TaskInv, Closes, Closer, LeaseInv, Exports
  <2>7. ~(lock = t /\ Pinning(t, l)) /\ (Closer(t, l) => task[t].by = "exporter")
    BY <1>4 DEF Pinning, Closer, Drops
  <2>8. lock # t => Kept(l)
    <3>1. task[t].by = "exporter" => InLock(t)
      BY DEF InLock, Ends, Cleans, Detaches, LockSteps
    <3>2. lock # t => task[t].by # "exporter"
      BY <1>1, <3>1 DEF TaskInv, Locked
    <3>3. QED
      BY <3>2 DEF Kept
  <2>9. Exports(l)'
    <3>1. exporter[l].exports > 0 => ~exporter[l].closed /\ state[l].viewPin /\ ~state[l].uncertain
      BY <2>1 DEF LeaseInv, Exports
    <3>2. exporter'[l].closing => \E u \in Threads : Closer(u, l)'
      <4>1. ASSUME exporter'[l].closing
            PROVE  \E u \in Threads \ {t} : Closer(u, l)
        BY <2>1, <2>5, <2>7, <4>1 DEF LeaseInv, Exports
      <4>2. QED
        BY <4>1, <1>2 DEF Closer
    <3>3. state'[l].viewPin => \/ exporter'[l].rooted \/ l \in failed'
                               \/ lock' \in Threads /\ Pinning(lock, l)'
      <4>1. ASSUME state[l].viewPin
            PROVE  \/ exporter[l].rooted \/ l \in failed
                   \/ lock \in Threads /\ lock # t /\ Pinning(lock, l)
        BY <2>1, <2>7, <4>1 DEF LeaseInv, Exports
      <4>2. exporter[l].rooted /\ state[l].viewPin => exporter'[l].rooted
        BY <2>5, <2>6
      <4>3. ASSUME lock \in Threads, lock # t, Pinning(lock, l)
            PROVE  lock' \in Threads /\ Pinning(lock, l)'
        <5>1. lock' = lock /\ task'[lock] = task[lock]
          BY <4>3, <1>2, <1>3
        <5>2. QED
          BY <4>3, <5>1 DEF Pinning
      <4>4. QED
        BY <4>1, <4>2, <4>3, <1>7
    <3>4. state'[l].viewPin = state[l].viewPin /\ failed \subseteq failed'
      BY <1>7
    <3>5. exporter'[l].exports > 0 => ~exporter'[l].closed /\ ~state'[l].uncertain
      BY <1>7, <2>5, <3>1
    <3>6. QED
      BY <2>1, <2>5, <2>6, <3>2, <3>3, <3>4, <3>5 DEF LeaseInv, Exports
  <2>10. Pins(l)'
    <3>1. lock = t => ~Unpinned(t)
      BY <1>4 DEF Unpinned, At
    <3>2. QED
      BY <1>2, <1>3, <1>7, <2>1, <3>1 DEF LeaseInv, Pins, Pinned, Unpinned, At
  <2>11. Token(l)'
    <3>1. state[l].acquiring => lock \in Threads /\ lock # t /\ task[lock].lease = l /\ Obtaining(lock)
      BY <1>4, <2>1 DEF LeaseInv, Token
    <3>2. state'[l].acquiring => lock' \in Threads /\ task'[lock'].lease = l /\ Obtaining(lock)'
      BY ZenonT(30), <1>2, <1>3, <1>7, <3>1 DEF Obtaining
    <3>3. task[t].by = "app" => ~state[l].finalized
      BY <1>7, <2>1 DEF LeaseInv, Life, Gone, Finalizer
    <3>4. native.owner = l => life.poisoned \/ life.pin = l
      BY <2>1 DEF LeaseInv, Token
    <3>5. native.owner = l => life'.poisoned \/ life'.pin = l
      BY <1>7, <3>4
    <3>6. native.owner = l => \/ ~state'[l].finalized \/ exporter'[l].rooted \/ l \in failed'
      BY <1>7, <2>5, <3>3
    <3>7. QED
      BY <1>7, <3>2, <3>5, <3>6 DEF Token
  <2>12. state'[l].finalized \/ exporter'[l].closeRequested => Gone(l)
    BY <1>7, <2>1, <2>5 DEF LeaseInv, Life
  <2>13. /\ state'[l].made /\ state'[l].cleanupRequested = state'[l].finalized
    BY <1>7, <2>1 DEF LeaseInv, Life
  <2>14. /\ task'[t].lease = l => task'[t].by \in {"exporter", "pin"} \/ l = 0 \/ ~Gone(l)
         /\ task'[t].lease \in {0, l} /\ task'[t].pc \notin {"export", "reexport"}
    BY <1>2, <1>7
  <2>15. /\ \A k \in Leases \ {l} : state'[k] = state[k] /\ exporter'[k] = exporter[k]
         /\ l # 0 =>
              /\ state[l].made /\ state'[l].made
              /\ state'[l].active => state[l].active
              /\ state'[l].acquiring = state[l].acquiring
              /\ state'[l].cleanupRequested = state'[l].finalized
              /\ state'[l].finalized \/ exporter'[l].closeRequested => Gone(l)
              /\ exporter'[l].exports = exporter[l].exports
    BY <1>7, <2>1, <2>4, <2>5, <2>12, <2>13
  <2>16. lock \notin {NoThread, t} => Kept(l)
    BY <2>8
  <2>17. /\ task[t].lease \in {0, l} /\ task[t].pc \notin {"export", "reexport"}
         /\ \/ task[t].lease = l
            \/ \A u \in Threads \ {t} : task[u].lease = l => ~Finalizer(u)
         /\ lock' = lock \/ (lock \in {NoThread, t} /\ lock' \in {NoThread, t})
    BY <1>3, <1>4
  <2>18. task' \in [Threads -> TaskType] /\ exporter' \in [Leases -> ExportType]
    BY <1>2, <2>4
  <2>19. \A u \in Threads \ {t} : task'[u] = task[u]
    BY <1>2
  <2>20. l # 0 => Exports(l)' /\ Pins(l)' /\ Token(l)'
    BY <2>9, <2>10, <2>11
  <2>21. UNCHANGED <<native, app>> /\ task'[t].pc \notin {"export", "reexport"}
    BY <1>2
  <2>22. Goes(t, l)
    BY <1>5, <2>14, <2>15, <2>16, <2>17, <2>18, <2>19, <2>20, <2>21 DEF Goes
  <2>23. QED
    BY <2>22, TaskGoes
<1>8. QED
  BY <1>6, <1>7

\* What a task that goes on has to show: it keeps working on its lease for
\* the same one, and the exporter stays as it is.
LEMMA TaskMoves ==
  ASSUME IInv, NEW t \in Threads, NEW l \in Leases, task[t].lease = l,
         task[t].pc \notin {"export", "reexport"}, ~Obtaining(t), ~Unpinned(t),
         UNCHANGED <<native, app, exporter>>,
         task' \in [Threads -> TaskType], \A u \in Threads \ {t} : task'[u] = task[u],
         task'[t].lease = l, task'[t].by = task[t].by, task'[t].pc \notin {"export", "reexport"},
         lock' = lock \/ (lock \in {NoThread, t} /\ lock' \in {NoThread, t}),
         Closer(t, l) => Closer(t, l)',
         lock = t /\ Pinning(t, l) => lock' = t /\ Pinning(t, l)',
         state' \in [Leases -> StateType],
         \A k \in Leases \ {l} : state'[k] = state[k],
         lock # t => state' = state /\ life' = life,
         life' \in LifeType, life.poisoned => life'.poisoned,
         life'.pin = life.pin \/ (native.owner = 0 /\ life'.pin = 0),
         failed \subseteq failed', failed' \subseteq failed \cup {0, l},
         interrupts' \in 0 .. MaxInterrupts, Healthy' => Healthy, Health',
         /\ state'[l].made = state[l].made /\ state'[l].acquiring = state[l].acquiring
         /\ state'[l].viewPin = state[l].viewPin /\ state'[l].finalized = state[l].finalized
         /\ state'[l].cleanupRequested = state[l].cleanupRequested
         /\ state'[l].active => state[l].active
         /\ state[l].uncertain => state'[l].uncertain
         /\ state'[l].uncertain => l \in failed' /\ (state[l].uncertain \/ ~state[l].viewPin)
         /\ native.owner = l => state'[l].active
         /\ state'[l].active /\ ~state'[l].uncertain => native.owner = l,
         TaskInv(t)'
  PROVE  IInv'
<1>1. /\ TaskInv(t) /\ Types /\ NoThread \notin Threads /\ l # 0 /\ LeaseInv(l)
      /\ \A u \in Threads \ {t} : task[u].lease = l => ~Finalizer(u) /\ ~Finalizer(t)
  BY Mover, LeaseAssumption DEF Leases
<1>2. state[l].made /\ (Finalizer(t) => Gone(l))
  BY <1>1 DEF TaskInv, Works
<1>3. \A u \in Threads \ {t} : lock = u => lock' = u
  BY <1>1
<1>4. lock \notin {NoThread, t} => Kept(l)
  BY DEF Kept
<1>5. Gone(l) => Finalizer(t)
  BY DEF Gone
<1>6. Exports(l)'
  <2>1. exporter[l].closing => \E u \in Threads : Closer(u, l)'
    <3>1. \A u \in Threads : Closer(u, l) => Closer(u, l)'
      BY DEF Closer
    <3>2. QED
      BY <1>1, <3>1 DEF LeaseInv, Exports
  <2>2. state[l].viewPin => \/ exporter[l].rooted \/ l \in failed'
                            \/ lock' \in Threads /\ Pinning(lock, l)'
    <3>1. ASSUME lock \in Threads, Pinning(lock, l)
          PROVE  lock' \in Threads /\ Pinning(lock, l)'
      <4>1. CASE lock = t
        BY <3>1, <4>1
      <4>2. CASE lock # t
        <5>1. lock' = lock /\ task'[lock] = task[lock]
          BY <3>1, <4>2, <1>3
        <5>2. QED
          BY <3>1, <5>1 DEF Pinning
      <4>3. QED
        BY <4>1, <4>2
    <3>2. QED
      BY <1>1, <3>1 DEF LeaseInv, Exports
  <2>3. exporter[l].exports > 0 => ~state[l].uncertain /\ state[l].viewPin
    BY <1>1 DEF LeaseInv, Exports
  <2>4. exporter[l].exports > 0 => ~state'[l].uncertain
    BY <2>3
  <2>5. QED
    BY <1>1, <2>1, <2>2, <2>4 DEF LeaseInv, Exports
<1>7. Pins(l)'
  <2>1. lock \in Threads /\ task[lock].lease = l /\ Unpinned(lock) =>
          lock' \in Threads /\ task'[lock'].lease = l /\ Unpinned(lock)'
    BY <1>3 DEF Unpinned, At
  <2>2. QED
    BY <1>1, <2>1 DEF LeaseInv, Pins, Pinned
<1>8. Token(l)'
  <2>1. state[l].acquiring => lock' \in Threads /\ task'[lock'].lease = l /\ Obtaining(lock)'
    BY <1>1, <1>3 DEF LeaseInv, Token, Obtaining
  <2>2. native.owner = l => life.poisoned \/ life.pin = l
    BY <1>1 DEF LeaseInv, Token
  <2>3. native.owner = l => life'.poisoned \/ life'.pin = l
    BY <1>1, <2>2
  <2>4. \E u \in Threads : task'[u].lease = l
    OBVIOUS
  <2>5. QED
    BY <2>1, <2>3, <2>4 DEF Token
<1>9. /\ task'[t].lease = l => task'[t].by \in {"exporter", "pin"} \/ l = 0 \/ ~Gone(l)
      /\ task[t].lease \in {0, l} /\ task'[t].lease \in {0, l}
  BY <1>5 DEF Finalizer
<1>10. /\ \A k \in Leases \ {l} : state'[k] = state[k] /\ exporter'[k] = exporter[k]
       /\ l # 0 =>
            /\ state[l].made /\ state'[l].made
            /\ state'[l].active => state[l].active
            /\ state'[l].acquiring = state[l].acquiring
            /\ state'[l].cleanupRequested = state'[l].finalized
            /\ state'[l].finalized \/ exporter'[l].closeRequested => Gone(l)
            /\ exporter'[l].exports = exporter[l].exports
  BY <1>1, <1>2 DEF LeaseInv, Life
<1>11. exporter' \in [Leases -> ExportType]
  BY <1>1 DEF Types
<1>12. Goes(t, l)
  BY <1>4, <1>6, <1>7, <1>8, <1>9, <1>10, <1>11 DEF Goes
<1>13. QED
  BY <1>12, TaskGoes

\* What is known of the token of a lease to the thread that holds the lock,
\* or finalizes.
LEMMA OwnToken ==
  ASSUME IInv, NEW t \in Threads, NEW l \in Leases, task[t].lease = l,
         Finalizer(t) \/ lock = t, ~Obtaining(t)
  PROVE  /\ native.owner = l => state[l].active /\ (life.poisoned \/ life.pin = l) /\ native.attached
         /\ state[l].active /\ ~state[l].uncertain =>
              native.owner = l \/ (At(t, "transferred") /\ task[t].res = "ok")
         /\ state[l].uncertain => l \in failed
<1>1. TaskInv(t) /\ LeaseInv(l) /\ l # 0 /\ NoThread \notin Threads
  BY LeaseAssumption DEF IInv, Leases
<1>2. lock \in Threads /\ task[lock].lease = l => lock = t
  BY <1>1 DEF TaskInv, Works
<1>3. QED
  BY <1>1, <1>2 DEF LeaseInv, Token, IInv, Native

\* How a cleanup ends.
LEMMA CleanupEnds ==
  ASSUME IInv, NEW t \in Threads, NEW l \in Leases, task[t].lease = l, Finalizer(t), CleanupReturns(t)
  PROVE  /\ Stop(t) /\ Release(t)
         /\ exporter' = IF task[t].by = "exporter" THEN [exporter EXCEPT ![l] = Closed(@)] ELSE exporter
         /\ Gone(l) /\ l # 0 /\ state[l].made /\ state[l].cleanupRequested = state[l].finalized
         /\ task[t].by = "exporter" \/ task[t].by = "pin"
<1>1. TaskInv(t) /\ l # 0 /\ LeaseInv(l)
  BY LeaseAssumption DEF IInv, Leases
<1>2. QED
  BY <1>1 DEF CleanupReturns, Dropped, Finalizer, TaskInv, Works, LeaseInv, Life

\* finish raises: the application has the exception, a cleanup retires the
\* generation or ends.
LEMMA FailsStep ==
  ASSUME IInv, NEW t \in Threads, NEW l \in Leases, task[t].lease = l, NEW elite \in BOOLEAN,
         task[t].pc \in {"finish", "transferred"}, ~(At(t, "transferred") /\ task[t].res = "ok"),
         Fails(t, elite), UNCHANGED <<native, life, state, app, interrupts>>,
         Healthy => task[t].by = "app"
  PROVE  IInv'
<1>1. /\ TaskInv(t) /\ Types /\ NoThread \notin Threads /\ l # 0 /\ LeaseInv(l)
      /\ \A u \in Threads \ {t} : task[u].lease = l => ~Finalizer(u) /\ ~Finalizer(t)
  BY Mover, LeaseAssumption DEF Leases
<1>2. /\ task[t].by \in {"app", "exporter", "pin"} /\ task[t].pc \in Ends
      /\ task[t].by \in {"exporter", "pin"} <=> Finalizer(t)
      /\ ~Obtaining(t) /\ ~Unpinned(t) /\ ~Pinning(t, l)
      /\ InLock(t) <=> (task[t].by # "pin" \/ task[t].pc = "transferred")
  BY <1>1 DEF TaskInv, Shape, Ends, Finalizer, Obtaining, Unpinned, Pinning, Drops, InLock,
     LockSteps, At
<1>3. /\ native.owner = l => state[l].active
      /\ state[l].active /\ ~state[l].uncertain => native.owner = l
      /\ state[l].uncertain => l \in failed
      /\ state[l].made /\ state[l].cleanupRequested = state[l].finalized
  <2>1. Finalizer(t) \/ lock = t
    BY <1>1, <1>2 DEF TaskInv, Locked
  <2>2. QED
    BY <1>1, <1>2, <2>1, OwnToken DEF TaskInv, Works, LeaseInv, Life
<1>4. /\ state' \in [Leases -> StateType] /\ life' \in LifeType /\ interrupts' \in 0 .. MaxInterrupts
      /\ \A k \in Leases \ {l} : state'[k] = state[k]
  BY <1>1 DEF Types
<1>5. (Healthy' => Healthy) /\ ((Healthy => failed' = failed) => Health')
  BY DEF Healthy, IInv, Health
<1>6. CASE task[t].by = "app" /\ Stop(t) /\ Release(t) /\ UNCHANGED <<failed, exporter>>
  BY <1>2, <1>3, <1>4, <1>5, <1>6, TaskEnds
<1>7. ASSUME task[t].by # "app", state[l].active, Move(t, "retire"), UNCHANGED <<exporter, failed>>,
             IF task[t].by = "pin" THEN Release(t) ELSE UNCHANGED lock
      PROVE  IInv'
  <2>1. /\ task' \in [Threads -> TaskType] /\ \A u \in Threads \ {t} : task'[u] = task[u]
        /\ task'[t].pc = "retire" /\ task'[t].lease = l /\ task'[t].by = task[t].by
        /\ task'[t].act = task[t].act
    BY <1>1, Moves, <1>7 DEF Steps, InCall, Calls
  <2>2. Finalizer(t) /\ Gone(l) /\ task[t].by \in {"exporter", "pin"}
    BY <1>1, <1>2, <1>7 DEF TaskInv, Works
  <2>3. /\ lock' = lock \/ (lock = t /\ lock' = NoThread)
        /\ lock' = t <=> task[t].by # "pin"
    BY <1>1, <1>2, <1>7 DEF Release, TaskInv, Locked
  <2>4. TaskInv(t)'
    <3>1. Shape(t)' /\ Locked(t)' /\ Retains(t)' /\ Relies(t)'
      BY <1>1, <2>1, <2>2, <2>3 DEF Shape, Locked, Retains, Relies, InLock, LockSteps, Begins,
         Drops, Ends, Cleans, Detaches, Answered, Unpinned, Obtaining, LiveSteps, At
    <3>2. Works(t)'
      <4>1. Gone(l)'
        BY <2>1, <2>2 DEF Gone, Finalizer
      <4>2. QED
        BY <1>1, <1>3, <2>1, <2>2, <4>1 DEF Works
    <3>3. Closes(t)'
      BY <1>1, <1>2, <1>7, <2>1 DEF TaskInv, Closes, Closer, Pinning, Drops, Ends, At
    <3>4. Reports(t)'
      BY <1>5, <1>7 DEF Reports
    <3>5. QED
      BY <3>1, <3>2, <3>3, <3>4 DEF TaskInv
  <2>5. Closer(t, l) => Closer(t, l)'
    BY <1>7, <2>1 DEF Closer
  <2>6. Health'
    BY <1>5, <1>7
  <2>7. QED
    BY <1>2, <1>3, <1>4, <1>5, <1>7, <2>1, <2>3, <2>4, <2>5, <2>6, TaskMoves
<1>8. ASSUME task[t].by # "app", CleanupReturns(t), failed' \in {failed, failed \cup {l}},
             state[l].active => l \in failed'
      PROVE  IInv'
  <2>1. /\ Stop(t) /\ Release(t)
        /\ exporter' = IF task[t].by = "exporter" THEN [exporter EXCEPT ![l] = Closed(@)] ELSE exporter
    BY <1>2, <1>8, CleanupEnds
  <2>2. Health'
    BY <1>5, <1>8
  <2>3. QED
    BY <1>2, <1>3, <1>4, <1>5, <1>8, <2>1, <2>2, TaskEnds
<1>9. QED
  BY <1>6, <1>7, <1>8 DEF Fails, Retain

\* finish, once it has the lock: it transfers what is live and not exported.
LEMMA FinishStep ==
  ASSUME IInv, NEW t \in Threads, NEW l \in {0} \cup Leases, task[t].lease = l, Finish(t)
  PROVE  IInv'
<1>1. /\ TaskInv(t) /\ Types /\ NoThread \notin Threads /\ (l # 0 => l \in Leases /\ LeaseInv(l))
      /\ \A u \in Threads \ {t} : l # 0 /\ task[u].lease = l => ~Finalizer(u) /\ ~Finalizer(t)
  BY Mover, LeaseAssumption
<1>2. /\ At(t, "finish") /\ task[t].pc = "finish" /\ Free(t)
      /\ UNCHANGED <<native, life, state, app, interrupts>>
      /\ l # 0 /\ l \in Leases /\ task[t].by \in {"app", "exporter", "pin"} /\ task[t].pc \in Ends
      /\ task[t].by \in {"exporter", "pin"} <=> Finalizer(t)
      /\ ~Obtaining(t) /\ ~Unpinned(t) /\ ~Pinning(t, l) /\ task[t].act \in Acts
      /\ InLock(t) <=> task[t].by # "pin"
  BY <1>1 DEF TaskInv, Shape, Ends, Finalizer, Obtaining, Unpinned, Pinning, Drops, InLock,
     LockSteps, At, Finish
<1>3. /\ native.owner = l => state[l].active /\ native.attached
      /\ state[l].active /\ ~state[l].uncertain => native.owner = l
      /\ state[l].uncertain => l \in failed
  <2>1. Finalizer(t) \/ lock = t
    BY <1>1, <1>2 DEF TaskInv, Locked
  <2>2. QED
    BY <1>1, <1>2, <2>1, OwnToken DEF At
<1>4. Healthy /\ Finalizer(t) => Live(l) /\ ~state[l].viewPin
  BY <1>1, <1>2, <1>3 DEF TaskInv, Reports, Closes, Live, IInv, Health
<1>5. ASSUME NEW elite \in BOOLEAN, Fails(t, elite), ~Live(l) \/ state[l].viewPin
      PROVE  IInv'
  BY <1>2, <1>4, <1>5, FailsStep DEF At
<1>6. ASSUME Live(l), ~state[l].viewPin, Move(t, "transfer"), lock' = t, UNCHANGED <<exporter, failed>>
      PROVE  IInv'
  <2>1. /\ task' \in [Threads -> TaskType] /\ \A u \in Threads \ {t} : task'[u] = task[u]
        /\ task'[t].pc = "transfer" /\ task'[t].lease = l /\ task'[t].by = task[t].by
        /\ task'[t].act = task[t].act
    BY <1>1, Moves, <1>6 DEF Steps, InCall, Calls
  <2>2. lock \in {NoThread, t}
    BY <1>2 DEF Free
  <2>3. Live(l)' /\ ~state'[l].viewPin
    BY <1>2, <1>6 DEF Live
  <2>4. TaskInv(t)'
    <3>1. Shape(t)' /\ Locked(t)' /\ Retains(t)'
      BY <1>1, <1>2, <1>6, <2>1
         DEF Shape, Locked, Retains, InLock, LockSteps, Begins, Drops, Ends, Cleans, Detaches,
             Answered, Unpinned, At
    <3>2. Works(t)'
      <4>1. Gone(l) => Gone(l)'
        BY <1>2, <2>1 DEF Gone, Finalizer
      <4>2. QED
        BY <1>1, <1>2, <2>1, <4>1 DEF TaskInv, Works, Finalizer
    <3>3. Closes(t)'
      BY <1>1, <1>2, <1>6, <2>1 DEF TaskInv, Closes, Closer, Pinning, Drops, Ends, Finalizer, At
    <3>4. Relies(t)'
      BY <2>1, <2>3 DEF Relies, Obtaining, LiveSteps, Detaches, Live, At
    <3>5. Reports(t)'
      BY <1>1, <1>2, <2>1 DEF TaskInv, Reports, Healthy, Ends, Finalizer, At
    <3>6. QED
      BY <3>1, <3>2, <3>3, <3>4, <3>5 DEF TaskInv
  <2>5. Closer(t, l) => Closer(t, l)'
    BY <1>2, <2>1 DEF Closer, Drops
  <2>6. (Healthy' => Healthy) /\ Health'
    BY <1>2, <1>6 DEF IInv, Health, Healthy
  <2>7. /\ state' \in [Leases -> StateType] /\ life' \in LifeType /\ interrupts' \in 0 .. MaxInterrupts
        /\ \A k \in Leases \ {l} : state'[k] = state[k]
    BY <1>1, <1>2 DEF Types
  <2>8. QED
    BY <1>2, <1>3, <1>6, <2>1, <2>2, <2>4, <2>5, <2>6, <2>7, TaskMoves
<1>7. QED
  BY <1>2, <1>5, <1>6 DEF Finish

\* cleanup: it transfers what is live and certain.
LEMMA CleanupStep ==
  ASSUME IInv, NEW t \in Threads, NEW l \in {0} \cup Leases, task[t].lease = l, Cleanup(t)
  PROVE  IInv'
<1>1. /\ TaskInv(t) /\ Types /\ NoThread \notin Threads /\ (l # 0 => l \in Leases /\ LeaseInv(l))
      /\ \A u \in Threads \ {t} : l # 0 /\ task[u].lease = l => ~Finalizer(u) /\ ~Finalizer(t)
  BY Mover, LeaseAssumption
<1>2. /\ task[t].pc = "cleanup" /\ UNCHANGED <<native, life, state, app, failed, interrupts>>
      /\ l # 0 /\ l \in Leases /\ task[t].by \in {"exporter", "pin"} /\ Finalizer(t)
      /\ task[t].pc \in Cleans /\ ~Obtaining(t) /\ ~Unpinned(t) /\ ~Pinning(t, l) /\ ~At(t, "transferred")
      /\ InLock(t) <=> task[t].by # "pin"
  BY <1>1 DEF TaskInv, Shape, Cleans, Finalizer, Obtaining, Unpinned, Pinning, Drops, InLock,
     LockSteps, At, Cleanup
<1>3. /\ native.owner = l => state[l].active
      /\ state[l].active /\ ~state[l].uncertain => native.owner = l
      /\ state[l].uncertain => l \in failed
  BY <1>2, OwnToken
<1>4. (Healthy' => Healthy) /\ Health'
  BY <1>2 DEF IInv, Health, Healthy
<1>5. /\ state' \in [Leases -> StateType] /\ life' \in LifeType /\ interrupts' \in 0 .. MaxInterrupts
      /\ \A k \in Leases \ {l} : state'[k] = state[k]
  BY <1>1, <1>2 DEF Types
<1>6. ASSUME ~state[l].active \/ state[l].uncertain \/ state[l].viewPin, CleanupReturns(t)
      PROVE  IInv'
  <2>1. /\ Stop(t) /\ Release(t)
        /\ exporter' = IF task[t].by = "exporter" THEN [exporter EXCEPT ![l] = Closed(@)] ELSE exporter
    BY <1>2, <1>6, CleanupEnds
  <2>2. state[l].viewPin => task[t].by = "pin" /\ (exporter[l].rooted \/ l \in failed)
    <3>1. task[t].by = "exporter" => ~state[l].viewPin
      BY <1>1, <1>2 DEF TaskInv, Closes, Closer, Drops
    <3>2. ~(lock \in Threads /\ Pinning(lock, l))
      BY <1>1, <1>2 DEF Pinning
    <3>3. QED
      BY <1>1, <1>2, <3>1, <3>2 DEF LeaseInv, Exports
  <2>3. QED
    BY <1>2, <1>3, <1>4, <1>5, <1>6, <2>1, <2>2, TaskEnds
<1>7. ASSUME state[l].active, ~state[l].uncertain, ~state[l].viewPin,
             Become(t, [task[t] EXCEPT !.pc = "finish", !.act = "return"]), UNCHANGED <<exporter, lock>>
      PROVE  IInv'
  <2>1. task[t] \in TaskType
    BY <1>1 DEF Types
  <2>2. [task[t] EXCEPT !.pc = "finish", !.act = "return"] \in TaskType
    BY <2>1 DEF TaskType, Steps, Acts
  <2>3. /\ task' \in [Threads -> TaskType] /\ \A u \in Threads \ {t} : task'[u] = task[u]
        /\ task'[t] = [task[t] EXCEPT !.pc = "finish", !.act = "return"]
    BY <1>1, <1>7, <2>2, Becomes
  <2>4. task'[t].pc = "finish" /\ task'[t].lease = l /\ task'[t].by = task[t].by /\ task'[t].act = "return"
    BY <2>1, <2>3 DEF TaskType
  <2>5. TaskInv(t)'
    <3>1. Shape(t)' /\ Locked(t)' /\ Retains(t)' /\ Relies(t)'
      BY <1>1, <1>2, <1>7, <2>4 DEF TaskInv, Shape, Locked, Retains, Relies, InLock, LockSteps,
         Begins, Drops, Ends, Cleans, Detaches, Answered, Unpinned, Obtaining, LiveSteps, Acts,
         At
    <3>2. Works(t)'
      <4>1. Gone(l) => Gone(l)'
        BY <1>2, <2>3, <2>4 DEF Gone, Finalizer
      <4>2. QED
        BY <1>1, <1>2, <2>3, <2>4, <4>1 DEF TaskInv, Works, Finalizer
    <3>3. Closes(t)'
      BY <1>1, <1>2, <1>7, <2>4 DEF TaskInv, Closes, Closer, Pinning, Drops, Cleans, Finalizer, At
    <3>4. Reports(t)'
      BY <2>4 DEF Reports, Ends, At
    <3>5. QED
      BY <3>1, <3>2, <3>3, <3>4 DEF TaskInv
  <2>6. Closer(t, l) => Closer(t, l)'
    BY <1>2, <2>4 DEF Closer, Drops
  <2>7. QED
    BY <1>2, <1>3, <1>4, <1>5, <1>7, <2>3, <2>4, <2>5, <2>6, TaskMoves
<1>8. QED
  BY <1>6, <1>7 DEF Cleanup

\* The retirement of a cleanup is over: the token is abandoned, or recorded where
\* that failed or was interrupted.
LEMMA RetireReturnsStep ==
  ASSUME IInv, NEW t \in Threads, NEW l \in {0} \cup Leases, task[t].lease = l,
         \/ RetireReturns(t)
         \/ RetireInterrupted(t)
  PROVE  IInv'
<1>1. /\ TaskInv(t) /\ Types /\ NoThread \notin Threads /\ (l # 0 => l \in Leases /\ LeaseInv(l))
      /\ \A u \in Threads \ {t} : l # 0 /\ task[u].lease = l => ~Finalizer(u) /\ ~Finalizer(t)
  BY Mover, LeaseAssumption
<1>2. /\ task[t].pc \in {"retire", "retired"} /\ UNCHANGED <<native, life, state, app>>
      /\ l # 0 /\ l \in Leases /\ task[t].by \in {"exporter", "pin"} /\ Finalizer(t)
      /\ task[t].pc \in Cleans /\ ~Obtaining(t) /\ ~Unpinned(t) /\ ~Pinning(t, l) /\ ~At(t, "transferred")
      /\ InLock(t) <=> task[t].by # "pin"
      /\ interrupts' = interrupts \/ (interrupts' = interrupts + 1 /\ interrupts < MaxInterrupts)
  BY <1>1 DEF TaskInv, Shape, Cleans, Finalizer, Obtaining, Unpinned, Pinning, Drops, InLock,
     LockSteps, At, RetireReturns, RetireInterrupted, Interrupts
<1>3. /\ native.owner = l => state[l].active
      /\ state[l].active /\ ~state[l].uncertain => native.owner = l
      /\ state[l].uncertain => l \in failed
  BY <1>2, OwnToken
<1>4. ~Healthy /\ interrupts' \in 0 .. MaxInterrupts /\ ~Healthy'
  <2>1. ~Healthy
    BY <1>1, <1>2 DEF TaskInv, Reports
  <2>2. interrupts \in 0 .. MaxInterrupts /\ MaxInterrupts \in Nat
    BY <1>1, LeaseAssumption DEF Types
  <2>3. interrupts' \in 0 .. MaxInterrupts /\ (interrupts' = 0 => interrupts = 0)
    BY <1>2, <2>2
  <2>4. QED
    BY <1>2, <2>1, <2>3 DEF Healthy
<1>5. /\ state' \in [Leases -> StateType] /\ life' \in LifeType
      /\ \A k \in Leases \ {l} : state'[k] = state[k]
  BY <1>1, <1>2 DEF Types
<1>6. Health'
  BY <1>4 DEF Health
<1>7. ASSUME CleanupReturns(t), failed' = failed \cup {l}
      PROVE  IInv'
  <2>1. /\ Stop(t) /\ Release(t)
        /\ exporter' = IF task[t].by = "exporter" THEN [exporter EXCEPT ![l] = Closed(@)] ELSE exporter
    BY <1>2, <1>7, CleanupEnds
  <2>2. QED
    BY <1>2, <1>3, <1>4, <1>5, <1>6, <1>7, <2>1, TaskEnds
<1>8. ASSUME Become(t, [task[t] EXCEPT !.pc = "finish", !.act = "abandon"]),
             UNCHANGED <<exporter, lock, failed>>
      PROVE  IInv'
  <2>1. task[t] \in TaskType
    BY <1>1 DEF Types
  <2>2. [task[t] EXCEPT !.pc = "finish", !.act = "abandon"] \in TaskType
    BY <2>1 DEF TaskType, Steps, Acts
  <2>3. /\ task' \in [Threads -> TaskType] /\ \A u \in Threads \ {t} : task'[u] = task[u]
        /\ task'[t] = [task[t] EXCEPT !.pc = "finish", !.act = "abandon"]
    BY <1>1, <1>8, <2>2, Becomes
  <2>4. task'[t].pc = "finish" /\ task'[t].lease = l /\ task'[t].by = task[t].by /\ task'[t].act = "abandon"
    BY <2>1, <2>3 DEF TaskType
  <2>5. TaskInv(t)'
    <3>1. Shape(t)' /\ Locked(t)' /\ Retains(t)' /\ Relies(t)'
      BY <1>1, <1>2, <1>8, <2>4 DEF TaskInv, Shape, Locked, Retains, Relies, InLock, LockSteps,
         Begins, Drops, Ends, Cleans, Detaches, Answered, Unpinned, Obtaining, LiveSteps, Acts,
         At
    <3>2. Works(t)'
      <4>1. Gone(l) => Gone(l)'
        BY <1>2, <2>3, <2>4 DEF Gone, Finalizer
      <4>2. QED
        BY <1>1, <1>2, <2>3, <2>4, <4>1 DEF TaskInv, Works, Finalizer
    <3>3. Closes(t)'
      BY <1>1, <1>2, <1>8, <2>4 DEF TaskInv, Closes, Closer, Pinning, Drops, Cleans, Finalizer, At
    <3>4. Reports(t)'
      BY <1>4 DEF Reports
    <3>5. QED
      BY <3>1, <3>2, <3>3, <3>4 DEF TaskInv
  <2>6. Closer(t, l) => Closer(t, l)'
    BY <1>2, <2>4 DEF Closer, Drops
  <2>7. QED
    BY <1>2, <1>3, <1>4, <1>5, <1>6, <1>8, <2>3, <2>4, <2>5, <2>6, TaskMoves
<1>9. QED
  BY <1>7, <1>8 DEF RetireReturns, RetireInterrupted, Retain

\* Where the thread stands that transfers.
LEMMA Transferring ==
  ASSUME IInv, NEW t \in Threads, NEW l \in {0} \cup Leases, task[t].lease = l,
         task[t].pc \in {"transfer", "transferred"}
  PROVE  /\ l # 0 /\ l \in Leases /\ LeaseInv(l) /\ lock = t /\ InLock(t) /\ NoThread # t
         /\ task[t].by \in {"app", "exporter", "pin"} /\ task[t].pc \in Ends /\ task[t].act \in Acts
         /\ (task[t].by \in {"exporter", "pin"} <=> Finalizer(t))
         /\ ~Obtaining(t) /\ ~Unpinned(t) /\ ~Pinning(t, l) /\ ~state[l].viewPin
         /\ state[l].made /\ state[l].cleanupRequested = state[l].finalized
         /\ (native.owner = l => state[l].active) /\ (state[l].uncertain => l \in failed)
         /\ (At(t, "transferred") /\ task[t].res = "ok" => native.owner = 0)
         /\ (Closer(t, l) => task[t].by = "exporter")
<1>1. TaskInv(t) /\ (l # 0 => l \in Leases /\ LeaseInv(l)) /\ NoThread \notin Threads
  BY Mover, LeaseAssumption
<1>2. /\ l # 0 /\ task[t].by \in {"app", "exporter", "pin"} /\ task[t].pc \in Ends /\ task[t].act \in Acts
      /\ InLock(t) /\ lock = t
      /\ task[t].by \in {"exporter", "pin"} <=> Finalizer(t)
      /\ ~Obtaining(t) /\ ~Unpinned(t) /\ ~Pinning(t, l)
      /\ Closer(t, l) => task[t].by = "exporter"
  BY <1>1 DEF TaskInv, Shape, Locked, Ends, Finalizer, Obtaining, Unpinned, Pinning, Closer,
     Drops, InLock, LockSteps, At
<1>3. /\ ~state[l].viewPin /\ state[l].made
      /\ At(t, "transferred") /\ task[t].res = "ok" => native.owner = 0
  BY <1>1, <1>2 DEF TaskInv, Relies, Works
<1>4. (native.owner = l => state[l].active) /\ (state[l].uncertain => l \in failed)
  BY <1>1, <1>2, OwnToken
<1>5. state[l].cleanupRequested = state[l].finalized
  BY <1>1, <1>2 DEF LeaseInv, Life
<1>6. QED
  BY <1>1, <1>2, <1>3, <1>4, <1>5

\* The transfer is over: the token is gone and the endpoint may close, or finish
\* fails.
LEMMA TransferReturnsStep ==
  ASSUME IInv, NEW t \in Threads, NEW l \in {0} \cup Leases, task[t].lease = l, TransferReturns(t)
  PROVE  IInv'
<1>1. TaskInv(t) /\ Types
  BY Mover
<1>2. task[t].pc = "transferred" /\ At(t, "transferred") /\ UNCHANGED <<native, app, interrupts>>
  BY DEF TransferReturns, At
<1>3. /\ l # 0 /\ l \in Leases /\ LeaseInv(l) /\ lock = t /\ InLock(t) /\ NoThread # t
      /\ task[t].by \in {"app", "exporter", "pin"} /\ task[t].pc \in Ends /\ task[t].act \in Acts
      /\ (task[t].by \in {"exporter", "pin"} <=> Finalizer(t))
      /\ ~Obtaining(t) /\ ~Unpinned(t) /\ ~Pinning(t, l) /\ ~state[l].viewPin
      /\ state[l].made /\ state[l].cleanupRequested = state[l].finalized
      /\ (native.owner = l => state[l].active) /\ (state[l].uncertain => l \in failed)
      /\ (task[t].res = "ok" => native.owner = 0)
      /\ (Closer(t, l) => task[t].by = "exporter")
  BY <1>2, Transferring
<1>4. ASSUME task[t].res = "error", Fails(t, TRUE), UNCHANGED <<life, state>>
      PROVE  IInv'
  <2>1. Healthy => task[t].by = "app"
    BY <1>1, <1>2, <1>4 DEF TaskInv, Reports
  <2>2. ~(At(t, "transferred") /\ task[t].res = "ok") /\ TRUE \in BOOLEAN
    BY <1>4
  <2>3. UNCHANGED <<native, life, state, app, interrupts>>
    BY <1>2, <1>4
  <2>4. task[t].pc \in {"finish", "transferred"}
    BY <1>2
  <2>5. QED
    BY <1>3, <1>4, <2>1, <2>2, <2>3, <2>4, FailsStep
<1>5. ASSUME task[t].res = "ok", state' = [state EXCEPT ![l].active = FALSE],
             life' = [life EXCEPT !.pin = 0], UNCHANGED failed
      PROVE  /\ state' \in [Leases -> StateType]
             /\ \A k \in Leases \ {l} : state'[k] = state[k]
             /\ state'[l].made = state[l].made /\ state'[l].acquiring = state[l].acquiring
             /\ state'[l].viewPin = state[l].viewPin /\ state'[l].finalized = state[l].finalized
             /\ state'[l].cleanupRequested = state[l].cleanupRequested
             /\ state'[l].uncertain = state[l].uncertain /\ ~state'[l].active
             /\ life' \in LifeType /\ life'.poisoned = life.poisoned /\ life'.pin = 0
             /\ native.owner = 0 /\ (Healthy' => Healthy) /\ Health'
             /\ interrupts' \in 0 .. MaxInterrupts
  <2>1. /\ state' \in [Leases -> StateType]
        /\ \A k \in Leases \ {l} : state'[k] = state[k]
        /\ state'[l].made = state[l].made /\ state'[l].acquiring = state[l].acquiring
        /\ state'[l].viewPin = state[l].viewPin /\ state'[l].finalized = state[l].finalized
        /\ state'[l].cleanupRequested = state[l].cleanupRequested
        /\ ~state'[l].active /\ state'[l].uncertain = state[l].uncertain
    BY <1>1, <1>3, <1>5, TokenGone
  <2>2. life' \in LifeType /\ life'.poisoned = life.poisoned /\ life'.pin = 0
    BY <1>1, <1>5 DEF Types, LifeType
  <2>3. (Healthy' => Healthy) /\ Health' /\ interrupts' \in 0 .. MaxInterrupts
    BY <1>1, <1>2, <1>5, <2>2 DEF IInv, Types, Health, Healthy
  <2>4. QED
    BY <1>3, <1>5, <2>1, <2>2, <2>3
<1>6. ASSUME task[t].res = "ok", state' = [state EXCEPT ![l].active = FALSE],
             life' = [life EXCEPT !.pin = 0], UNCHANGED failed,
             Move(t, "detach"), UNCHANGED <<exporter, lock>>
      PROVE  IInv'
  <2>1. /\ task' \in [Threads -> TaskType] /\ \A u \in Threads \ {t} : task'[u] = task[u]
        /\ task'[t].pc = "detach" /\ task'[t].lease = l /\ task'[t].by = task[t].by
    BY <1>1, Moves, <1>6 DEF Steps, InCall, Calls
  <2>2. /\ state' \in [Leases -> StateType]
        /\ \A k \in Leases \ {l} : state'[k] = state[k]
        /\ state'[l].made = state[l].made /\ state'[l].acquiring = state[l].acquiring
        /\ state'[l].viewPin = state[l].viewPin /\ state'[l].finalized = state[l].finalized
        /\ state'[l].cleanupRequested = state[l].cleanupRequested
        /\ state'[l].uncertain = state[l].uncertain /\ ~state'[l].active
        /\ life' \in LifeType /\ life'.poisoned = life.poisoned /\ life'.pin = 0
        /\ native.owner = 0 /\ (Healthy' => Healthy) /\ Health'
        /\ interrupts' \in 0 .. MaxInterrupts
    BY <1>5, <1>6
  <2>3. TaskInv(t)'
    <3>1. Shape(t)' /\ Locked(t)' /\ Retains(t)' /\ Reports(t)'
      BY <1>3, <1>6, <2>1 DEF Shape, Locked, Retains, Reports, InLock, LockSteps, Begins, Drops,
         Ends, Cleans, Detaches, Answered, Unpinned, At
    <3>2. Works(t)'
      <4>1. Gone(l) => Gone(l)'
        BY <1>2, <1>3, <2>1, <2>2 DEF Gone, Finalizer
      <4>2. QED
        BY <1>1, <1>3, <2>1, <2>2, <4>1 DEF TaskInv, Works, Finalizer
    <3>3. Closes(t)'
      BY <1>1, <1>3, <1>6, <2>1, <2>2 DEF TaskInv, Closes, Closer, Pinning, Drops, Ends,
         Finalizer, At
    <3>4. Relies(t)'
      BY <1>2, <2>1, <2>2 DEF Relies, Obtaining, LiveSteps, Detaches, At
    <3>5. QED
      BY <3>1, <3>2, <3>3, <3>4 DEF TaskInv
  <2>4. Closer(t, l) => Closer(t, l)'
    BY <1>3, <2>1 DEF Closer
  <2>5. task[t].pc \notin {"export", "reexport"} /\ native.owner # l
    BY <1>2, <1>3, <2>2
  <2>6. QED
    BY <1>2, <1>3, <1>6, <2>1, <2>2, <2>3, <2>4, <2>5, TaskMoves
<1>7. ASSUME task[t].res = "ok", state' = [state EXCEPT ![l].active = FALSE],
             life' = [life EXCEPT !.pin = 0], UNCHANGED failed, Stop(t), Release(t),
             exporter' = IF task[t].by = "exporter" THEN [exporter EXCEPT ![l] = Closed(@)] ELSE exporter
      PROVE  IInv'
  <2>1. /\ state' \in [Leases -> StateType]
        /\ \A k \in Leases \ {l} : state'[k] = state[k]
        /\ state'[l].made = state[l].made /\ state'[l].acquiring = state[l].acquiring
        /\ state'[l].viewPin = state[l].viewPin /\ state'[l].finalized = state[l].finalized
        /\ state'[l].cleanupRequested = state[l].cleanupRequested
        /\ state'[l].uncertain = state[l].uncertain /\ ~state'[l].active
        /\ life' \in LifeType /\ life'.poisoned = life.poisoned /\ life'.pin = 0
        /\ native.owner = 0 /\ (Healthy' => Healthy) /\ Health'
        /\ interrupts' \in 0 .. MaxInterrupts
    BY <1>5, <1>7
  <2>2. task[t].pc \in Ends \cup Cleans \cup Detaches /\ native.owner # l
    BY <1>3, <2>1
  <2>3. l # 0 =>
           /\ state'[l].made = state[l].made /\ state'[l].acquiring = state[l].acquiring
           /\ state'[l].viewPin = state[l].viewPin /\ state'[l].finalized = state[l].finalized
           /\ state'[l].cleanupRequested = state[l].cleanupRequested
           /\ state'[l].active => state[l].active
           /\ state[l].uncertain => state'[l].uncertain
           /\ state'[l].uncertain => l \in failed' /\ (state[l].uncertain \/ ~state[l].viewPin)
           /\ native.owner = l =>
                /\ state'[l].active
                /\ \/ task[t].by = "app" \/ l \in failed'
                   \/ task[t].by = "pin" /\ exporter[l].rooted
           /\ state'[l].active /\ ~state'[l].uncertain => native.owner = l
    BY <1>3, <1>7, <2>1, <2>2
  <2>4. UNCHANGED <<native, app>> /\ lock = t
    BY <1>2, <1>3
  <2>5. /\ life.poisoned => life'.poisoned
        /\ life'.pin = life.pin \/ (native.owner = 0 /\ life'.pin = 0)
        /\ failed \subseteq failed' /\ failed' \subseteq failed \cup {0, l}
    BY <1>7, <2>1
  <2>6. /\ Stop(t) /\ Release(t)
        /\ exporter' = IF task[t].by = "exporter" THEN [exporter EXCEPT ![l] = Closed(@)] ELSE exporter
    BY <1>7
  <2>7. /\ state' \in [Leases -> StateType] /\ \A k \in Leases \ {l} : state'[k] = state[k]
        /\ life' \in LifeType /\ (Healthy' => Healthy) /\ Health' /\ interrupts' \in 0 .. MaxInterrupts
    BY <2>1
  <2>8. lock # t => state' = state /\ life' = life
    BY <2>4
  <2>9. QED
    BY <2>2, <2>3, <2>4, <2>5, <2>6, <2>7, <2>8, TaskEnds
<1>8. CASE task[t].res = "error"
  BY <1>4, <1>8, <1>3 DEF TransferReturns
<1>9. CASE task[t].res # "error"
  <2>1. /\ task[t].res = "ok" /\ state' = [state EXCEPT ![l].active = FALSE]
        /\ life' = [life EXCEPT !.pin = 0] /\ UNCHANGED failed
        /\ \/ Move(t, "detach") /\ UNCHANGED <<exporter, lock>>
           \/ task[t].by = "app" /\ Stop(t) /\ Unlock /\ UNCHANGED exporter
           \/ task[t].by # "app" /\ CleanupReturns(t)
    BY <1>9, <1>3 DEF TransferReturns
  <2>2. CASE Move(t, "detach") /\ UNCHANGED <<exporter, lock>>
    BY <1>6, <2>1, <2>2
  <2>3. CASE task[t].by = "app" /\ Stop(t) /\ Unlock /\ UNCHANGED exporter
    <3>1. Release(t)
      BY <1>3, <2>3 DEF Unlock, Release
    <3>2. QED
      BY <1>7, <2>1, <2>3, <3>1
  <2>4. CASE task[t].by # "app" /\ CleanupReturns(t)
    <3>1. /\ Stop(t) /\ Release(t)
          /\ exporter' = IF task[t].by = "exporter" THEN [exporter EXCEPT ![l] = Closed(@)] ELSE exporter
      BY <1>3, <2>4, CleanupEnds
    <3>2. QED
      BY <1>7, <2>1, <3>1
  <2>5. QED
    BY <2>1, <2>2, <2>3, <2>4
<1>10. QED
  BY <1>8, <1>9

\* An interrupted call leaves the process unhealthy, and nothing to report on.
LEMMA Unhealthy ==
  ASSUME Types, NEW t \in Threads, NEW p, NEW q, Interrupts(t, p, q)
  PROVE  /\ ~Healthy' /\ Health' /\ interrupts' \in 0 .. MaxInterrupts /\ task[t].pc \in {p, q}
         /\ Reports(t)'
<1>1. interrupts \in 0 .. MaxInterrupts /\ MaxInterrupts \in Nat
  BY LeaseAssumption DEF Types
<1>2. interrupts' \in 0 .. MaxInterrupts /\ interrupts' # 0 /\ task[t].pc \in {p, q}
  BY <1>1 DEF Interrupts
<1>3. ~Healthy'
  BY <1>2 DEF Healthy
<1>4. QED
  BY <1>2, <1>3 DEF Health, Reports

\* Nobody knows whether the token is gone: the lease is uncertain and recorded, and
\* a cleanup may only retire the generation.
LEMMA TransferInterruptedStep ==
  ASSUME IInv, NEW t \in Threads, NEW l \in {0} \cup Leases, task[t].lease = l, TransferInterrupted(t)
  PROVE  IInv'
<1>1. TaskInv(t) /\ Types
  BY Mover
<1>2. /\ task[t].pc \in {"transfer", "transferred"} /\ UNCHANGED <<native, life, app>>
      /\ ~Healthy' /\ Health' /\ interrupts' \in 0 .. MaxInterrupts /\ Reports(t)'
      /\ state' = [state EXCEPT ![l].uncertain = TRUE] /\ failed' = failed \cup {l}
  BY <1>1, Unhealthy DEF TransferInterrupted, Retain
<1>3. /\ l # 0 /\ l \in Leases /\ LeaseInv(l) /\ lock = t /\ InLock(t) /\ NoThread # t
      /\ task[t].by \in {"app", "exporter", "pin"} /\ task[t].pc \in Ends /\ task[t].act \in Acts
      /\ (task[t].by \in {"exporter", "pin"} <=> Finalizer(t))
      /\ ~Obtaining(t) /\ ~Unpinned(t) /\ ~Pinning(t, l) /\ ~state[l].viewPin
      /\ state[l].made /\ state[l].cleanupRequested = state[l].finalized
      /\ (native.owner = l => state[l].active) /\ (state[l].uncertain => l \in failed)
      /\ (Closer(t, l) => task[t].by = "exporter")
  BY <1>2, Transferring
<1>4. /\ state' \in [Leases -> StateType]
      /\ \A k \in Leases \ {l} : state'[k] = state[k]
      /\ state'[l].made = state[l].made /\ state'[l].acquiring = state[l].acquiring
      /\ state'[l].viewPin = state[l].viewPin /\ state'[l].finalized = state[l].finalized
      /\ state'[l].cleanupRequested = state[l].cleanupRequested
      /\ state'[l].active = state[l].active /\ state'[l].uncertain
  BY <1>1, <1>2, <1>3, BecomesUncertain
<1>5. /\ life' \in LifeType /\ life'.poisoned = life.poisoned /\ life'.pin = life.pin
      /\ failed \subseteq failed' /\ failed' \subseteq failed \cup {0, l} /\ l \in failed'
  BY <1>1, <1>2 DEF Types
<1>6. ASSUME Move(t, "retire"), UNCHANGED exporter, task[t].by # "app",
             IF task[t].by = "pin" THEN lock' = NoThread ELSE lock' = lock
      PROVE  IInv'
  <2>1. /\ task' \in [Threads -> TaskType] /\ \A u \in Threads \ {t} : task'[u] = task[u]
        /\ task'[t].pc = "retire" /\ task'[t].lease = l /\ task'[t].by = task[t].by
    BY <1>1, Moves, <1>6 DEF Steps, InCall, Calls
  <2>2. TaskInv(t)'
    <3>1. Shape(t)' /\ Locked(t)' /\ Retains(t)' /\ Relies(t)'
      BY <1>3, <1>6, <2>1 DEF Shape, Locked, Retains, Relies, InLock, LockSteps, Begins, Drops,
         Ends, Cleans, Detaches, Answered, Unpinned, Obtaining, LiveSteps, At
    <3>2. Works(t)'
      <4>1. Gone(l) => Gone(l)'
        BY <1>2, <1>3, <1>4, <2>1 DEF Gone, Finalizer
      <4>2. QED
        BY <1>1, <1>3, <1>4, <2>1, <4>1 DEF TaskInv, Works, Finalizer
    <3>3. Closes(t)'
      BY <1>1, <1>3, <1>4, <1>6, <2>1 DEF TaskInv, Closes, Closer, Pinning, Drops, Ends, At
    <3>4. QED
      BY <1>2, <3>1, <3>2, <3>3 DEF TaskInv
  <2>3. Closer(t, l) => Closer(t, l)'
    BY <1>3, <2>1 DEF Closer
  <2>4. /\ task[t].pc \notin {"export", "reexport"}
        /\ lock' = lock \/ (lock \in {NoThread, t} /\ lock' \in {NoThread, t})
    BY <1>2, <1>3, <1>6
  <2>5. QED
    BY <1>2, <1>3, <1>4, <1>5, <1>6, <2>1, <2>2, <2>3, <2>4, TaskMoves
<1>7. ASSUME Stop(t), Release(t),
             exporter' = IF task[t].by = "exporter" THEN [exporter EXCEPT ![l] = Closed(@)] ELSE exporter
      PROVE  IInv'
  <2>1. UNCHANGED <<native, app>> /\ lock = t
    BY <1>2, <1>3
  <2>2. task[t].pc \in Ends \cup Cleans \cup Detaches
    BY <1>3
  <2>3. l # 0 =>
           /\ state'[l].made = state[l].made /\ state'[l].acquiring = state[l].acquiring
           /\ state'[l].viewPin = state[l].viewPin /\ state'[l].finalized = state[l].finalized
           /\ state'[l].cleanupRequested = state[l].cleanupRequested
           /\ state'[l].active => state[l].active
           /\ state[l].uncertain => state'[l].uncertain
           /\ state'[l].uncertain => l \in failed' /\ (state[l].uncertain \/ ~state[l].viewPin)
           /\ native.owner = l =>
                /\ state'[l].active
                /\ \/ task[t].by = "app" \/ l \in failed'
                   \/ task[t].by = "pin" /\ exporter[l].rooted
           /\ state'[l].active /\ ~state'[l].uncertain => native.owner = l
    BY <1>3, <1>4, <1>5
  <2>4. /\ state' \in [Leases -> StateType] /\ \A k \in Leases \ {l} : state'[k] = state[k]
        /\ lock # t => state' = state /\ life' = life
        /\ interrupts' \in 0 .. MaxInterrupts /\ (Healthy' => Healthy) /\ Health'
    BY <1>2, <1>4, <2>1
  <2>5. /\ life' \in LifeType /\ (life.poisoned => life'.poisoned)
        /\ life'.pin = life.pin \/ (native.owner = 0 /\ life'.pin = 0)
        /\ failed \subseteq failed' /\ failed' \subseteq failed \cup {0, l}
    BY <1>5
  <2>6. QED
    BY <1>7, <2>1, <2>2, <2>3, <2>4, <2>5, TaskEnds
<1>8. CASE task[t].by = "app"
  <2>1. Stop(t) /\ Unlock /\ UNCHANGED exporter
    BY <1>8 DEF TransferInterrupted
  <2>2. Release(t)
    BY <1>3, <2>1 DEF Release, Unlock
  <2>3. QED
    BY <1>7, <1>8, <2>1, <2>2
<1>9. CASE task[t].by # "app" /\ task[t].act = "return"
  BY <1>6, <1>9 DEF TransferInterrupted, Unlock
<1>10. CASE task[t].by # "app" /\ task[t].act # "return"
  <2>1. CleanupReturns(t)
    BY <1>10 DEF TransferInterrupted
  <2>2. QED
    BY <1>3, <1>7, <1>10, <2>1, CleanupEnds
<1>11. QED
  BY <1>8, <1>9, <1>10

\* The detach is over, whoever asked for it.
LEMMA DetachedStep ==
  ASSUME IInv, NEW t \in Threads, NEW l \in {0} \cup Leases, task[t].lease = l,
         task[t].pc \in Detaches, NEW raised \in BOOLEAN, Detached(t, raised),
         UNCHANGED <<native, state, app>>,
         life' \in LifeType, life'.poisoned = life.poisoned, life'.pin = life.pin,
         interrupts' \in 0 .. MaxInterrupts, Healthy' => Healthy,
         Healthy' /\ raised => task[t].by = "app" /\ l = 0
  PROVE  IInv'
<1>1. /\ TaskInv(t) /\ Types /\ NoThread \notin Threads /\ (l # 0 => l \in Leases /\ LeaseInv(l))
      /\ \A k \in Leases : k # 0
  BY Mover, LeaseAssumption
<1>2. /\ InLock(t) /\ lock = t /\ native.owner = 0 /\ ~Obtaining(t) /\ ~At(t, "transferred")
      /\ task[t].by \in {"exporter", "pin"} => l # 0
  BY <1>1 DEF TaskInv, Shape, Locked, InLock, LockSteps, Relies, Detaches, Obtaining, At
<1>3. /\ l # 0 => native.owner # l /\ (state[l].active => state[l].uncertain)
      /\ l # 0 => (state[l].uncertain => l \in failed)
  BY <1>1, <1>2, OwnToken
<1>4. /\ Stop(t) /\ Release(t)
      /\ exporter' = IF task[t].by = "exporter" THEN [exporter EXCEPT ![l] = Closed(@)] ELSE exporter
  <2>1. CASE task[t].by = "exporter"
    BY <1>1, <1>2, <2>1, CleanupEnds DEF Detached, Finalizer
  <2>2. CASE task[t].by # "exporter"
    BY <2>2 DEF Detached
  <2>3. QED
    BY <2>1, <2>2
<1>5. /\ failed' \in {failed, failed \cup {0}}
      /\ ~raised \/ (l = 0 /\ task[t].by # "endpoint") => failed' = failed
  BY DEF Detached
<1>6. Health'
  <2>1. ASSUME Healthy'
        PROVE  failed' = failed
    BY <1>5, <2>1
  <2>2. QED
    BY <2>1 DEF IInv, Health
<1>7. /\ state' \in [Leases -> StateType] /\ \A k \in Leases \ {l} : state'[k] = state[k]
  BY <1>1 DEF Types
<1>8. /\ failed \subseteq failed' /\ failed' \subseteq failed \cup {0, l}
      /\ task[t].pc \in Ends \cup Cleans \cup Detaches
  BY <1>5
<1>9. QED
  BY <1>2, <1>3, <1>4, <1>6, <1>7, <1>8, TaskEnds

\* The detach is over, with its receipt or an error.
LEMMA DetachReturnsStep ==
  ASSUME IInv, NEW t \in Threads, NEW l \in {0} \cup Leases, task[t].lease = l, DetachReturns(t)
  PROVE  IInv'
<1>1. TaskInv(t) /\ Types
  BY Mover
<1>2. /\ At(t, "detached") /\ task[t].pc \in Detaches /\ Detached(t, task[t].res = "error")
      /\ UNCHANGED <<native, state, app, interrupts>>
      /\ life' = IF task[t].res = "ok" THEN [life EXCEPT !.receipt = "saved"] ELSE life
  BY DEF DetachReturns, Detaches, At
<1>3. life' \in LifeType /\ life'.poisoned = life.poisoned /\ life'.pin = life.pin
  <2>1. life \in LifeType
    BY <1>1 DEF Types
  <2>2. QED
    BY <1>2, <2>1 DEF LifeType
<1>4. interrupts' \in 0 .. MaxInterrupts /\ (Healthy' => Healthy)
  BY <1>1, <1>2 DEF Types, Healthy
<1>5. Healthy' /\ task[t].res = "error" => task[t].by = "app" /\ l = 0
  BY <1>1, <1>2, <1>4 DEF TaskInv, Reports
<1>6. PICK raised \in BOOLEAN : raised <=> task[t].res = "error"
  OBVIOUS
<1>7. Detached(t, raised)
  BY <1>2, <1>6 DEF Detached
<1>8. QED
  BY <1>2, <1>3, <1>4, <1>5, <1>6, <1>7, DetachedStep

\* The detach was interrupted.
LEMMA DetachInterruptedStep ==
  ASSUME IInv, NEW t \in Threads, NEW l \in {0} \cup Leases, task[t].lease = l, DetachInterrupted(t)
  PROVE  IInv'
<1>1. TaskInv(t) /\ Types
  BY Mover
<1>2. /\ task[t].pc \in Detaches /\ Detached(t, TRUE)
      /\ UNCHANGED <<native, state, life, app>>
      /\ ~Healthy' /\ interrupts' \in 0 .. MaxInterrupts
  BY <1>1, Unhealthy DEF DetachInterrupted, Detaches
<1>3. /\ life' \in LifeType /\ life'.poisoned = life.poisoned /\ life'.pin = life.pin
  BY <1>1, <1>2 DEF Types
<1>4. QED
  BY <1>2, <1>3, DetachedStep
-----------------------------------------------------------------------------
(***************************************************************************)
(* The drop of a view pin.                                                 *)
(***************************************************************************)

\* Where the thread stands that drops the pin of l: nothing is exported, and
\* the pin is the endpoint's to drop.
LEMMA Dropping ==
  ASSUME IInv, NEW t \in Threads, NEW l \in {0} \cup Leases, task[t].lease = l, task[t].pc \in Drops
  PROVE  /\ l # 0 /\ l \in Leases /\ LeaseInv(l) /\ NoThread # t
         /\ task[t].by \in {"app", "undo", "exporter"}
         /\ (Finalizer(t) <=> task[t].by = "exporter") /\ ~Obtaining(t)
         /\ (Gone(l) <=> task[t].by = "exporter")
         /\ (InLock(t) <=> lock = t)
         /\ (InLock(t) <=> (task[t].by # "exporter" \/ task[t].pc # "drop"))
         /\ state[l].made /\ state[l].cleanupRequested = state[l].finalized
         /\ (state[l].finalized \/ exporter[l].closeRequested => task[t].by = "exporter")
         /\ state[l].viewPin /\ exporter[l].closed /\ exporter[l].exports = 0
         /\ (task[t].by = "undo" => ~exporter[l].rooted)
         /\ (task[t].by # "undo" => exporter[l].rooted /\ exporter[l].closing)
         /\ (native.owner = l => state[l].active /\ (life.poisoned \/ life.pin = l))
         /\ (state[l].active /\ ~state[l].uncertain => native.owner = l)
         /\ (state[l].uncertain => l \in failed)
<1>1. TaskInv(t) /\ Types /\ (l # 0 => l \in Leases /\ LeaseInv(l)) /\ NoThread \notin Threads
  BY Mover, LeaseAssumption
<1>2. /\ l # 0 /\ task[t].by \in {"app", "undo", "exporter"} /\ ~Obtaining(t) /\ ~At(t, "transferred")
      /\ Finalizer(t) <=> task[t].by = "exporter"
      /\ InLock(t) <=> lock = t
      /\ InLock(t) <=> (task[t].by # "exporter" \/ task[t].pc # "drop")
  BY <1>1 DEF TaskInv, Shape, Locked, Drops, Finalizer, Obtaining, InLock, LockSteps, At
<1>3. /\ Gone(l) <=> task[t].by = "exporter"
      /\ state[l].made
  BY <1>1, <1>2 DEF TaskInv, Works, Gone
<1>4. /\ state[l].cleanupRequested = state[l].finalized
      /\ state[l].finalized \/ exporter[l].closeRequested => task[t].by = "exporter"
  BY <1>1, <1>2, <1>3 DEF LeaseInv, Life
<1>5. /\ state[l].viewPin
      /\ task[t].by = "undo" => exporter[l].closed /\ ~exporter[l].rooted
      /\ task[t].by # "undo" => exporter[l].closing
  BY <1>1, <1>2 DEF TaskInv, Closes, Closer, Pinning
<1>6. exporter[l].closed /\ (task[t].by # "undo" => exporter[l].rooted)
  BY <1>1, <1>2, <1>5 DEF LeaseInv, Exports
<1>7. exporter[l].exports = 0
  BY <1>1, <1>2, <1>6 DEF LeaseInv, Exports, Types, ExportType
<1>8. /\ native.owner = l => state[l].active /\ (life.poisoned \/ life.pin = l)
      /\ state[l].active /\ ~state[l].uncertain => native.owner = l
      /\ state[l].uncertain => l \in failed
  BY <1>1, <1>2, OwnToken
<1>9. QED
  BY <1>1, <1>2, <1>3, <1>4, <1>5, <1>6, <1>7, <1>8

\* The exporter of l becomes x.
LEMMA ExporterBecomes ==
  ASSUME Types, NEW l \in Leases, NEW x \in ExportType, exporter' = [exporter EXCEPT ![l] = x]
  PROVE  /\ exporter' \in [Leases -> ExportType] /\ exporter'[l] = x
         /\ \A k \in Leases \ {l} : exporter'[k] = exporter[k]
BY DEF Types

\* What a close makes of an exporter when it starts, fails and succeeds.
LEMMA Reopens ==
  ASSUME NEW x \in ExportType
  PROVE  /\ Reopened(x) \in ExportType /\ ~Reopened(x).closed /\ ~Reopened(x).closing
         /\ Reopened(x).rooted = x.rooted /\ Reopened(x).exports = x.exports
         /\ Reopened(x).closeRequested = x.closeRequested
         /\ Closed(x) \in ExportType /\ ~Closed(x).closing /\ ~Closed(x).rooted
         /\ Closed(x).closed = x.closed /\ Closed(x).exports = x.exports
         /\ Closed(x).closeRequested = x.closeRequested
         /\ StartClose(x) \in ExportType /\ StartClose(x).closed /\ StartClose(x).closing
         /\ StartClose(x).rooted = x.rooted /\ StartClose(x).exports = x.exports
         /\ StartClose(x).closeRequested = x.closeRequested
BY DEF Reopened, Closed, StartClose, ExportType

\* The drop raised: an exporter opens again, with its pin.
LEMMA NotDroppedStep ==
  ASSUME IInv, NEW t \in Threads, NEW l \in {0} \cup Leases, task[t].lease = l,
         task[t].pc \in Drops, Free(t), NEW recorded \in BOOLEAN, NotDropped(t, recorded),
         UNCHANGED <<native, app>>,
         state' \in [Leases -> StateType], \A k \in Leases \ {l} : state'[k] = state[k],
         /\ state'[l].made = state[l].made /\ state'[l].acquiring = state[l].acquiring
         /\ state'[l].viewPin = state[l].viewPin /\ state'[l].finalized = state[l].finalized
         /\ state'[l].cleanupRequested = state[l].cleanupRequested
         /\ state'[l].active = state[l].active
         /\ state[l].uncertain => state'[l].uncertain
         /\ state'[l].uncertain => state[l].uncertain \/ recorded
         /\ Unpinned(t) => state'[l].uncertain,
         life' \in LifeType, life.poisoned => life'.poisoned, life'.pin = life.pin,
         interrupts' \in 0 .. MaxInterrupts, Healthy' => Healthy, Health',
         task[t].by = "undo" => recorded
  PROVE  IInv'
<1>1. TaskInv(t) /\ Types
  BY Mover
<1>2. /\ l # 0 /\ l \in Leases /\ LeaseInv(l) /\ NoThread # t
      /\ task[t].by \in {"app", "undo", "exporter"}
      /\ (Finalizer(t) <=> task[t].by = "exporter") /\ ~Obtaining(t)
      /\ (Gone(l) <=> task[t].by = "exporter")
      /\ state[l].made /\ state[l].cleanupRequested = state[l].finalized
      /\ (state[l].finalized \/ exporter[l].closeRequested => task[t].by = "exporter")
      /\ state[l].viewPin /\ exporter[l].closed /\ exporter[l].exports = 0
      /\ (task[t].by = "undo" => ~exporter[l].rooted)
      /\ (task[t].by # "undo" => exporter[l].rooted /\ exporter[l].closing)
      /\ (native.owner = l => state[l].active /\ (life.poisoned \/ life.pin = l))
      /\ (state[l].active /\ ~state[l].uncertain => native.owner = l)
      /\ (state[l].uncertain => l \in failed)
  BY Dropping
<1>3. /\ exporter' = IF task[t].by = "undo" THEN exporter ELSE [exporter EXCEPT ![l] = Reopened(@)]
      /\ failed' = IF recorded \/ task[t].by = "exporter" THEN failed \cup {l} ELSE failed
      /\ Stop(t) /\ Release(t) /\ lock \in {NoThread, t}
  BY DEF NotDropped, Free
<1>4. /\ task' \in [Threads -> TaskType] /\ task'[t] = NoTask /\ task'[t].lease = 0
      /\ task'[t].pc = "idle" /\ \A u \in Threads \ {t} : task'[u] = task[u]
  BY <1>1, <1>3, Stops
<1>5. lock' = NoThread
  BY <1>3 DEF Release
<1>6. exporter \in [Leases -> ExportType] /\ exporter[l] \in ExportType
  BY <1>1, <1>2 DEF Types
<1>7. /\ exporter' \in [Leases -> ExportType] /\ \A k \in Leases \ {l} : exporter'[k] = exporter[k]
      /\ exporter'[l] = IF task[t].by = "undo" THEN exporter[l] ELSE Reopened(exporter[l])
  <2>1. CASE task[t].by = "undo"
    BY <1>3, <1>6, <2>1
  <2>2. CASE task[t].by # "undo"
    <3>1. Reopened(exporter[l]) \in ExportType
      BY <1>6, Reopens
    <3>2. exporter' = [exporter EXCEPT ![l] = Reopened(exporter[l])]
      BY <1>3, <2>2
    <3>3. QED
      BY <1>1, <1>2, <2>2, <3>1, <3>2, ExporterBecomes
  <2>3. QED
    BY <2>1, <2>2
<1>8. /\ exporter'[l].exports = 0 /\ ~exporter'[l].closing
      /\ exporter'[l].rooted = exporter[l].rooted
      /\ exporter'[l].closeRequested = exporter[l].closeRequested
      /\ task[t].by = "undo" => exporter'[l].closed
      /\ task[t].by # "undo" => ~exporter'[l].closed
  <2>1. task[t].by = "undo" => ~exporter[l].closing
    BY <1>2 DEF LeaseInv, Exports
  <2>2. QED
    BY <1>2, <1>6, <1>7, <2>1, Reopens
<1>9. TaskInv(t)'
  BY <1>2, <1>4, <1>5, Idle
<1>10. /\ failed \subseteq failed' /\ failed' \subseteq failed \cup {0, l}
       /\ task[t].by # "app" \/ recorded => l \in failed'
  BY <1>2, <1>3
<1>11. Exports(l)'
  BY <1>2, <1>8, <1>10 DEF Exports
<1>12. Pins(l)'
  <2>1. state[l].viewPin /\ ~state[l].uncertain => Pinned(l) \/ (lock = t /\ Unpinned(t))
    BY <1>2, <1>3, LeaseAssumption DEF LeaseInv, Pins
  <2>2. QED
    BY <1>2, <2>1 DEF Pins, Pinned
<1>13. Token(l)'
  <2>1. ~state[l].acquiring
    BY <1>2, <1>3, LeaseAssumption DEF LeaseInv, Token
  <2>2. QED
    BY <1>2, <1>10, <2>1 DEF Token
<1>14. /\ task'[t].lease = l => task'[t].by \in {"exporter", "pin"} \/ l = 0 \/ ~Gone(l)
       /\ task[t].lease \in {0, l} /\ task'[t].lease \in {0, l}
       /\ task[t].pc \notin {"export", "reexport"} /\ task'[t].pc \notin {"export", "reexport"}
       /\ lock' = lock \/ (lock \in {NoThread, t} /\ lock' \in {NoThread, t})
       /\ lock \notin {NoThread, t} => Kept(l)
  BY <1>2, <1>3, <1>4, <1>5 DEF Drops
<1>15. /\ \A k \in Leases \ {l} : state'[k] = state[k] /\ exporter'[k] = exporter[k]
       /\ l # 0 =>
            /\ state[l].made /\ state'[l].made
            /\ state'[l].active => state[l].active
            /\ state'[l].acquiring = state[l].acquiring
            /\ state'[l].cleanupRequested = state'[l].finalized
            /\ state'[l].finalized \/ exporter'[l].closeRequested => Gone(l)
            /\ exporter'[l].exports = exporter[l].exports
  BY <1>2, <1>7, <1>8
<1>16. Goes(t, l)
  BY <1>4, <1>7, <1>9, <1>10, <1>11, <1>12, <1>13, <1>14, <1>15 DEF Goes
<1>17. QED
  BY <1>16, TaskGoes

\* _drop_view_pin, once it has the lock.
LEMMA DropStep ==
  ASSUME IInv, NEW t \in Threads, NEW l \in {0} \cup Leases, task[t].lease = l, Drop(t)
  PROVE  IInv'
<1>1. TaskInv(t) /\ Types
  BY Mover
<1>2. /\ task[t].pc = "drop" /\ task[t].pc \in Drops /\ ~Unpinned(t) /\ Free(t)
      /\ UNCHANGED <<native, life, state, app, interrupts>>
  BY DEF Drop, Drops, Unpinned, At
<1>3. /\ l # 0 /\ l \in Leases /\ LeaseInv(l) /\ NoThread # t
      /\ task[t].by \in {"app", "undo", "exporter"}
      /\ (Finalizer(t) <=> task[t].by = "exporter") /\ ~Obtaining(t)
      /\ (Gone(l) <=> task[t].by = "exporter")
      /\ (InLock(t) <=> lock = t)
      /\ state[l].made /\ state[l].cleanupRequested = state[l].finalized
      /\ state[l].viewPin
      /\ (native.owner = l => state[l].active /\ (life.poisoned \/ life.pin = l))
      /\ (state[l].active /\ ~state[l].uncertain => native.owner = l)
      /\ (state[l].uncertain => l \in failed)
  BY <1>2, Dropping
<1>4. /\ state' \in [Leases -> StateType] /\ \A k \in Leases \ {l} : state'[k] = state[k]
      /\ life' \in LifeType /\ interrupts' \in 0 .. MaxInterrupts /\ (Healthy' => Healthy)
  BY <1>1, <1>2 DEF Types, Healthy
<1>5. ASSUME ~Live(l), NotDropped(t, FALSE)
      PROVE  IInv'
  <2>1. task[t].by # "undo"
    BY <1>1, <1>2, <1>5 DEF TaskInv, Relies, At
  <2>2. ~Healthy \/ task[t].by # "exporter"
    \* In a healthy process the pin of a close is there, and so is the connection.
    <3>1. ASSUME Healthy
          PROVE  Live(l)
      <4>1. ~life.poisoned /\ ~state[l].uncertain
        BY <1>3, <3>1 DEF IInv, Health
      <4>2. Pinned(l)
        <5>1. ~(lock \in Threads /\ task[lock].lease = l /\ Unpinned(lock))
          BY <1>2, LeaseAssumption DEF Free
        <5>2. QED
          BY <1>3, <4>1, <5>1 DEF LeaseInv, Pins
      <4>3. native.owner = l /\ native.attached
        BY <1>3, <4>2 DEF Pinned, IInv, Native
      <4>4. QED
        BY <1>3, <4>1, <4>3 DEF Live
    <3>2. QED
      BY <1>5, <3>1
  <2>3. Health'
    <3>1. ASSUME Healthy'
          PROVE  failed' = failed
      BY <1>4, <1>5, <2>2, <3>1 DEF NotDropped
    <3>2. QED
      BY <1>2, <1>4, <3>1 DEF IInv, Health
  <2>4. QED
    BY <1>2, <1>3, <1>4, <1>5, <2>1, <2>3, NotDroppedStep
<1>6. ASSUME Live(l), Move(t, "end_view"), lock' = t, UNCHANGED <<exporter, failed>>
      PROVE  IInv'
  <2>1. /\ task' \in [Threads -> TaskType] /\ \A u \in Threads \ {t} : task'[u] = task[u]
        /\ task'[t].pc = "end_view" /\ task'[t].lease = l /\ task'[t].by = task[t].by
        /\ task'[t].act = task[t].act
    BY <1>1, Moves, <1>6 DEF Steps, InCall, Calls
  <2>2. lock \in {NoThread, t}
    BY <1>2 DEF Free
  <2>3. Live(l)'
    BY <1>2, <1>6 DEF Live
  <2>4. TaskInv(t)'
    <3>1. Shape(t)' /\ Locked(t)' /\ Retains(t)' /\ Reports(t)'
      BY <1>1, <1>2, <1>3, <1>6, <2>1 DEF TaskInv, Shape, Locked, Retains, Reports, InLock,
         LockSteps, Begins, Drops, Ends, Cleans, Detaches, Answered, Unpinned, At
    <3>2. Works(t)'
      <4>1. Gone(l) => Gone(l)'
        BY <1>2, <1>3, <2>1 DEF Gone, Finalizer
      <4>2. QED
        BY <1>1, <1>2, <1>3, <2>1, <4>1 DEF TaskInv, Works, Finalizer
    <3>3. Closes(t)'
      BY <1>1, <1>2, <1>3, <1>6, <2>1 DEF TaskInv, Closes, Closer, Pinning, Drops, At
    <3>4. Relies(t)'
      BY <2>1, <2>3 DEF Relies, Obtaining, LiveSteps, Detaches, Live, At
    <3>5. QED
      BY <3>1, <3>2, <3>3, <3>4 DEF TaskInv
  <2>5. Closer(t, l) => Closer(t, l)'
    BY <1>3, <2>1 DEF Closer, Drops
  <2>6. Pinning(t, l) => Pinning(t, l)'
    BY <1>2, <2>1 DEF Pinning, Drops
  <2>7. Health'
    BY <1>2, <1>4, <1>6 DEF IInv, Health
  <2>8. task[t].pc \notin {"export", "reexport"}
    BY <1>2
  <2>9. QED
    BY <1>2, <1>3, <1>4, <1>6, <2>1, <2>2, <2>4, <2>5, <2>6, <2>7, <2>8, TaskMoves
<1>7. QED
  BY <1>3, <1>5, <1>6 DEF Drop

\* The pin of l is dropped: what is left to show, wherever the task goes.
LEMMA DropGoes ==
  ASSUME IInv, NEW t \in Threads, NEW l \in {0} \cup Leases, task[t].lease = l,
         task[t].pc = "view_ended", task[t].res = "ok",
         UNCHANGED <<native, life, app, failed, interrupts>>,
         state' \in [Leases -> StateType], \A k \in Leases \ {l} : state'[k] = state[k],
         /\ state'[l].made = state[l].made /\ state'[l].acquiring = state[l].acquiring
         /\ ~state'[l].viewPin /\ state'[l].finalized = state[l].finalized
         /\ state'[l].cleanupRequested = state[l].cleanupRequested
         /\ state'[l].active = state[l].active /\ state'[l].uncertain = state[l].uncertain,
         task' \in [Threads -> TaskType], \A u \in Threads \ {t} : task'[u] = task[u],
         task'[t].lease \in {0, l}, task'[t].pc \notin {"export", "reexport"},
         task'[t].lease = l => task'[t].by = task[t].by,
         lock' \in {NoThread, t}, TaskInv(t)',
         exporter' \in [Leases -> ExportType], \A k \in Leases \ {l} : exporter'[k] = exporter[k],
         exporter'[l].exports = 0, exporter'[l].closed,
         exporter'[l].closeRequested = exporter[l].closeRequested,
         exporter'[l].closing <=> exporter'[l].rooted,
         exporter'[l].rooted => Closer(t, l)',
         state[l].finalized => exporter'[l].rooted
  PROVE  IInv'
<1>1. TaskInv(t) /\ Types
  BY Mover
<1>2. /\ l # 0 /\ l \in Leases /\ LeaseInv(l) /\ NoThread # t
      /\ task[t].by \in {"app", "undo", "exporter"}
      /\ (Finalizer(t) <=> task[t].by = "exporter") /\ ~Obtaining(t)
      /\ (Gone(l) <=> task[t].by = "exporter")
      /\ lock = t
      /\ state[l].made /\ state[l].cleanupRequested = state[l].finalized
      /\ (state[l].finalized \/ exporter[l].closeRequested => task[t].by = "exporter")
      /\ state[l].viewPin /\ exporter[l].closed /\ exporter[l].exports = 0
      /\ (task[t].by = "undo" => ~exporter[l].rooted)
      /\ (task[t].by # "undo" => exporter[l].rooted /\ exporter[l].closing)
      /\ (native.owner = l => state[l].active /\ (life.poisoned \/ life.pin = l))
      /\ (state[l].active /\ ~state[l].uncertain => native.owner = l)
      /\ (state[l].uncertain => l \in failed)
  <2>1. task[t].pc \in Drops
    BY DEF Drops
  <2>2. QED
    BY ZenonT(60), <2>1, Dropping
<1>3. /\ life' \in LifeType /\ interrupts' \in 0 .. MaxInterrupts /\ (Healthy' => Healthy) /\ Health'
      /\ UNCHANGED <<native, app>>
  BY <1>1 DEF Types, IInv, Health, Healthy
<1>4. ~Pinned(l)
  BY <1>1 DEF TaskInv, Retains, Unpinned, At
<1>5. ~state[l].acquiring
  BY <1>2 DEF LeaseInv, Token
<1>6. Exports(l)'
  BY <1>2 DEF Exports
<1>7. Pins(l)'
  BY <1>4 DEF Pins, Pinned
<1>8. Token(l)'
  BY <1>2, <1>5 DEF Token
<1>9. /\ task'[t].lease = l => task'[t].by \in {"exporter", "pin"} \/ l = 0 \/ ~Gone(l)
      /\ task[t].lease \in {0, l} /\ task[t].pc \notin {"export", "reexport"}
      /\ lock' = lock \/ (lock \in {NoThread, t} /\ lock' \in {NoThread, t})
      /\ lock \notin {NoThread, t} => Kept(l)
      /\ life.poisoned => life'.poisoned
      /\ life'.pin = life.pin \/ (native.owner = 0 /\ life'.pin = 0)
      /\ failed \subseteq failed' /\ failed' \subseteq failed \cup {0, l}
  BY <1>2
<1>10. /\ \A k \in Leases \ {l} : state'[k] = state[k] /\ exporter'[k] = exporter[k]
       /\ l # 0 =>
            /\ state[l].made /\ state'[l].made
            /\ state'[l].active => state[l].active
            /\ state'[l].acquiring = state[l].acquiring
            /\ state'[l].cleanupRequested = state'[l].finalized
            /\ state'[l].finalized \/ exporter'[l].closeRequested => Gone(l)
            /\ exporter'[l].exports = exporter[l].exports
  BY <1>2
<1>11. l # 0 => Exports(l)' /\ Pins(l)' /\ Token(l)'
  BY <1>6, <1>7, <1>8
<1>12. \/ task[t].lease = l
       \/ \A u \in Threads \ {t} : task[u].lease = l => ~Finalizer(u)
  OBVIOUS
<1>13. Goes(t, l)
  BY <1>3, <1>9, <1>10, <1>11, <1>12 DEF Goes
<1>14. QED
  BY <1>13, TaskGoes

\* A cleanup that was requested meanwhile runs inside the close, a transfer
\* goes on, and everything else is over.
LEMMA DroppedStep ==
  ASSUME IInv, NEW t \in Threads, NEW l \in {0} \cup Leases, task[t].lease = l,
         task[t].pc = "view_ended", task[t].res = "ok",
         UNCHANGED <<native, life, app, failed, interrupts>>,
         state' \in [Leases -> StateType], \A k \in Leases \ {l} : state'[k] = state[k],
         /\ state'[l].made = state[l].made /\ state'[l].acquiring = state[l].acquiring
         /\ ~state'[l].viewPin /\ state'[l].finalized = state[l].finalized
         /\ state'[l].cleanupRequested = state[l].cleanupRequested
         /\ state'[l].active = state[l].active /\ state'[l].uncertain = state[l].uncertain,
         \/ state[l].cleanupRequested /\ Move(t, "cleanup") /\ UNCHANGED <<exporter, lock>>
         \/ ~state[l].cleanupRequested /\ Dropped(t)
  PROVE  IInv'
<1>1. TaskInv(t) /\ Types
  BY Mover
<1>2. /\ l # 0 /\ l \in Leases /\ LeaseInv(l) /\ NoThread # t
      /\ task[t].by \in {"app", "undo", "exporter"}
      /\ (Finalizer(t) <=> task[t].by = "exporter") /\ ~Obtaining(t)
      /\ (Gone(l) <=> task[t].by = "exporter")
      /\ lock = t
      /\ state[l].made /\ state[l].cleanupRequested = state[l].finalized
      /\ (state[l].finalized \/ exporter[l].closeRequested => task[t].by = "exporter")
      /\ state[l].viewPin /\ exporter[l].closed /\ exporter[l].exports = 0
      /\ (task[t].by = "undo" => ~exporter[l].rooted)
      /\ (task[t].by # "undo" => exporter[l].rooted /\ exporter[l].closing)
      /\ (native.owner = l => state[l].active /\ (life.poisoned \/ life.pin = l))
      /\ (state[l].active /\ ~state[l].uncertain => native.owner = l)
      /\ (state[l].uncertain => l \in failed)
  <2>1. task[t].pc \in Drops
    BY DEF Drops
  <2>2. QED
    BY <2>1, Dropping
<1>3. /\ state' \in [Leases -> StateType] /\ \A k \in Leases \ {l} : state'[k] = state[k]
      /\ state'[l].made = state[l].made /\ state'[l].acquiring = state[l].acquiring
      /\ ~state'[l].viewPin /\ state'[l].finalized = state[l].finalized
      /\ state'[l].cleanupRequested = state[l].cleanupRequested
      /\ state'[l].active = state[l].active /\ state'[l].uncertain = state[l].uncertain
  OBVIOUS
<1>7. exporter \in [Leases -> ExportType] /\ exporter[l] \in ExportType
  BY <1>1, <1>2 DEF Types
<1>9. CASE state[l].cleanupRequested /\ Move(t, "cleanup") /\ UNCHANGED <<exporter, lock>>
  <2>1. /\ task' \in [Threads -> TaskType] /\ \A u \in Threads \ {t} : task'[u] = task[u]
        /\ task'[t].pc = "cleanup" /\ task'[t].lease = l /\ task'[t].by = task[t].by
    BY <1>1, Moves, <1>9 DEF Steps
  <2>2. task[t].by = "exporter" /\ Gone(l) /\ exporter[l].rooted /\ exporter[l].closing
    BY <1>2, <1>9
  <2>3. TaskInv(t)'
    <3>1. Shape(t)' /\ Locked(t)' /\ Retains(t)' /\ Relies(t)' /\ Reports(t)'
      BY <1>2, <1>9, <2>1, <2>2 DEF Shape, Locked, Retains, Relies, Reports, InLock, LockSteps,
         Begins, Drops, Ends, Cleans, Detaches, Answered, Unpinned, Obtaining, LiveSteps, At
    <3>2. Works(t)'
      <4>1. Gone(l)'
        BY <1>3, <2>1, <2>2 DEF Gone, Finalizer
      <4>2. QED
        BY ZenonT(30), <1>1, <1>2, <1>3, <2>1, <4>1 DEF TaskInv, Works, Finalizer
    <3>3. Closes(t)'
      BY <1>3, <1>9, <2>1, <2>2 DEF Closes, Closer, Pinning, Drops, At
    <3>4. QED
      BY <3>1, <3>2, <3>3 DEF TaskInv
  <2>4. Closer(t, l)'
    BY <2>1, <2>2 DEF Closer
  <2>5. QED
    BY <1>2, <1>7, <1>3, DropGoes, <1>9, <2>1, <2>2, <2>3, <2>4
<1>10. ASSUME ~state[l].cleanupRequested, Dropped(t)
       PROVE  IInv'
  <2>1. /\ exporter' \in [Leases -> ExportType] /\ \A k \in Leases \ {l} : exporter'[k] = exporter[k]
        /\ exporter'[l] = IF task[t].by = "undo" THEN exporter[l] ELSE Closed(exporter[l])
    <3>1. exporter' = IF task[t].by \in {"app", "exporter"}
                      THEN [exporter EXCEPT ![l] = Closed(exporter[l])] ELSE exporter
      BY <1>10 DEF Dropped
    <3>2. CASE task[t].by = "undo"
      BY <1>7, <3>1, <3>2
    <3>3. CASE task[t].by # "undo"
      <4>1. Closed(exporter[l]) \in ExportType
        BY <1>7, Reopens
      <4>2. exporter' = [exporter EXCEPT ![l] = Closed(exporter[l])]
        BY <1>2, <3>1, <3>3
      <4>3. QED
        BY <1>1, <1>2, <3>3, <4>1, <4>2, ExporterBecomes
    <3>4. QED
      BY <3>2, <3>3
  <2>2. /\ exporter'[l].exports = 0 /\ exporter'[l].closed /\ ~exporter'[l].closing /\ ~exporter'[l].rooted
        /\ exporter'[l].closeRequested = exporter[l].closeRequested
    <3>1. task[t].by = "undo" => ~exporter[l].closing
      BY <1>2 DEF LeaseInv, Exports
    <3>2. QED
      BY <1>2, <1>7, <2>1, <3>1, Reopens
  <2>3. ~state[l].finalized
    BY <1>2, <1>10
  <2>4. CASE task[t].by = "app"
    <3>1. Move(t, "finish") /\ lock' = t
      BY <1>10, <2>4 DEF Dropped
    <3>2. /\ task' \in [Threads -> TaskType] /\ \A u \in Threads \ {t} : task'[u] = task[u]
          /\ task'[t].pc = "finish" /\ task'[t].lease = l /\ task'[t].by = "app"
          /\ task'[t].act = task[t].act
      BY <1>1, Moves, <2>4, <3>1 DEF Steps
    <3>3. task[t].act \in Acts
      BY <1>1, <2>4 DEF TaskInv, Shape, Drops
    <3>4. TaskInv(t)'
      BY <1>2, <1>3, <3>1, <3>2, <3>3 DEF TaskInv, Shape, Locked, Works, Closes, Retains,
         Relies, Reports, InLock, LockSteps, Begins, Drops, Ends, Cleans, Detaches, Answered,
         Unpinned, Obtaining, LiveSteps, Closer, Pinning, Finalizer, At
    <3>5. QED
      BY <1>3, DropGoes, <2>1, <2>2, <2>3, <2>4, <3>1, <3>2, <3>4
  <2>5. CASE task[t].by # "app"
    <3>1. Stop(t) /\ lock' = NoThread
      BY <1>2, <1>10, <2>5 DEF Dropped, Release
    <3>2. /\ task' \in [Threads -> TaskType] /\ task'[t] = NoTask /\ task'[t].lease = 0
          /\ task'[t].pc = "idle" /\ \A u \in Threads \ {t} : task'[u] = task[u]
      BY <1>1, <3>1, Stops
    <3>3. TaskInv(t)'
      BY <1>2, <3>1, <3>2, Idle
    <3>4. QED
      BY <1>2, <1>3, DropGoes, <2>1, <2>2, <2>3, <3>1, <3>2, <3>3
  <2>6. QED
    BY <2>4, <2>5
<1>11. QED
  BY <1>9, <1>10

\* The pin is dropped, or the call failed and the exporter opens again.
LEMMA EndViewReturnsStep ==
  ASSUME IInv, NEW t \in Threads, NEW l \in {0} \cup Leases, task[t].lease = l, EndViewReturns(t)
  PROVE  IInv'
<1>1. TaskInv(t) /\ Types
  BY Mover
<1>2. /\ task[t].pc = "view_ended" /\ task[t].pc \in Drops /\ task[t].res \in {"ok", "error"}
      /\ UNCHANGED <<native, life, app, interrupts>>
  BY <1>1 DEF TaskInv, Shape, Answered, EndViewReturns, Drops, At
<1>3. CASE task[t].res = "ok"
  <2>1. /\ state' = [state EXCEPT ![l].viewPin = FALSE] /\ UNCHANGED failed
        /\ \/ state[l].cleanupRequested /\ Move(t, "cleanup") /\ UNCHANGED <<exporter, lock>>
           \/ ~state[l].cleanupRequested /\ Dropped(t)
    BY <1>3 DEF EndViewReturns
  <2>2. l \in Leases
    BY <1>2, Dropping
  <2>3. /\ state' \in [Leases -> StateType] /\ \A k \in Leases \ {l} : state'[k] = state[k]
        /\ state'[l].made = state[l].made /\ state'[l].acquiring = state[l].acquiring
        /\ ~state'[l].viewPin /\ state'[l].finalized = state[l].finalized
        /\ state'[l].cleanupRequested = state[l].cleanupRequested
        /\ state'[l].active = state[l].active /\ state'[l].uncertain = state[l].uncertain
    BY <1>1, <2>1, <2>2, PinDropped
  <2>4. /\ UNCHANGED <<native, life, app, failed, interrupts>>
        /\ \/ state[l].cleanupRequested /\ Move(t, "cleanup") /\ UNCHANGED <<exporter, lock>>
           \/ ~state[l].cleanupRequested /\ Dropped(t)
    BY <1>2, <2>1
  <2>5. QED
    BY <1>2, <1>3, <2>3, <2>4, DroppedStep
<1>4. CASE task[t].res = "error"
  <2>1. NotDropped(t, TRUE) /\ UNCHANGED state
    BY <1>4 DEF EndViewReturns
  <2>2. ~Healthy
    BY <1>1, <1>2, <1>4 DEF TaskInv, Reports, At
  <2>3. ~Healthy' /\ Health'
    BY <1>2, <2>2 DEF Healthy, Health
  <2>4. /\ Free(t) /\ l \in Leases
    <3>1. lock = t
      BY <1>1, <1>2 DEF TaskInv, Locked, InLock, LockSteps
    <3>2. QED
      BY <1>2, <3>1, Dropping DEF Free
  <2>5. /\ state' \in [Leases -> StateType] /\ life' \in LifeType /\ interrupts' \in 0 .. MaxInterrupts
        /\ \A k \in Leases \ {l} : state'[k] = state[k]
    BY <1>1, <1>2, <2>1 DEF Types
  <2>6. ~Unpinned(t)
    BY <1>2, <1>4 DEF Unpinned, At
  <2>7. QED
    BY <1>2, <2>1, <2>3, <2>4, <2>5, <2>6, NotDroppedStep
<1>5. QED
  BY <1>2, <1>3, <1>4

\* Nobody knows whether there still is a pin: the exporter opens again, uncertain.
LEMMA EndViewInterruptedStep ==
  ASSUME IInv, NEW t \in Threads, NEW l \in {0} \cup Leases, task[t].lease = l, EndViewInterrupted(t)
  PROVE  IInv'
<1>1. TaskInv(t) /\ Types
  BY Mover
<1>2. /\ task[t].pc \in {"end_view", "view_ended"} /\ UNCHANGED <<native, app>>
      /\ ~Healthy' /\ Health' /\ interrupts' \in 0 .. MaxInterrupts
      /\ state' = [state EXCEPT ![l].uncertain = TRUE]
      /\ life' = [life EXCEPT !.poisoned = TRUE] /\ NotDropped(t, TRUE)
  BY <1>1, Unhealthy DEF EndViewInterrupted
<1>3. task[t].pc \in Drops /\ Free(t) /\ l \in Leases
  <2>1. task[t].pc \in Drops
    BY <1>2 DEF Drops
  <2>2. lock = t
    BY <1>1, <1>2 DEF TaskInv, Locked, InLock, LockSteps
  <2>3. QED
    BY <2>1, <2>2, Dropping DEF Free
<1>4. /\ state' \in [Leases -> StateType]
      /\ \A k \in Leases \ {l} : state'[k] = state[k]
      /\ state'[l].made = state[l].made /\ state'[l].acquiring = state[l].acquiring
      /\ state'[l].viewPin = state[l].viewPin /\ state'[l].finalized = state[l].finalized
      /\ state'[l].cleanupRequested = state[l].cleanupRequested
      /\ state'[l].active = state[l].active /\ state'[l].uncertain
  BY <1>1, <1>2, <1>3, BecomesUncertain
<1>5. life' \in LifeType /\ life'.poisoned /\ life'.pin = life.pin
  BY <1>1, <1>2 DEF Types, LifeType
<1>6. QED
  BY <1>2, <1>3, <1>4, <1>5, NotDroppedStep
-----------------------------------------------------------------------------
(***************************************************************************)
(* What the application starts on a lease, and what the collector does.    *)
(***************************************************************************)

\* commit, abort or release, and abandon start with the end of the exports.
LEMMA TransfersStep ==
  ASSUME IInv, NEW t \in Threads, NEW l \in Leases, NEW a \in Acts, Transfers(t, l, a)
  PROVE  IInv'
<1>1. TaskInv(t) /\ Types /\ NoThread \notin Threads
  BY LeaseAssumption DEF IInv
<1>2. /\ task[t] = NoTask /\ task[t].lease = 0 /\ task[t].pc = "idle"
      /\ lock = NoThread /\ lock' = t /\ t # NoThread /\ l \in app.leases
      /\ UNCHANGED <<native, life, state, app, failed, interrupts>>
  BY <1>1 DEF TaskInv, Shape, NoTask, Transfers, At
<1>3. /\ LeaseInv(l) /\ state[l].made /\ ~state[l].finalized /\ ~state[l].cleanupRequested
      /\ ~exporter[l].closeRequested /\ l # 0 /\ ~Gone(l)
      /\ \A u \in Threads : task[u].lease = l => ~Finalizer(u)
  BY <1>2, Held, Reached
<1>4. /\ state' \in [Leases -> StateType] /\ life' \in LifeType /\ interrupts' \in 0 .. MaxInterrupts
      /\ (Healthy' => Healthy) /\ Health' /\ exporter \in [Leases -> ExportType]
  BY <1>1, <1>2 DEF Types, IInv, Health, Healthy
<1>5. /\ ~exporter[l].closing
      /\ state[l].viewPin => exporter[l].rooted \/ l \in failed
      /\ ~exporter[l].closed => exporter[l].rooted /\ state[l].viewPin
      /\ exporter[l].closed => ~exporter[l].rooted
  BY <1>1, <1>2, <1>3, NoCloser DEF LeaseInv, Exports
<1>6. Pins(l)' /\ Token(l)'
  <2>1. Pins(l)'
    BY <1>1, <1>2, <1>3 DEF LeaseInv, Pins, Pinned
  <2>2. Token(l)'
    BY <1>1, <1>2, <1>3 DEF LeaseInv, Token
  <2>3. QED
    BY <2>1, <2>2
\* What is left to show for the two ways it may start.
<1>7. ASSUME NEW p \in {"finish", "drop"}, NEW x \in ExportType,
             Become(t, [NoTask EXCEPT !.lease = l, !.act = a, !.pc = p]),
             exporter' = [exporter EXCEPT ![l] = x],
             x.exports = exporter[l].exports, x.closeRequested = exporter[l].closeRequested,
             x.rooted = exporter[l].rooted, x.closing <=> p = "drop",
             p = "drop" => x.closed /\ ~exporter[l].closed /\ x.exports = 0,
             p = "finish" => x.closed = exporter[l].closed /\ exporter[l].closed
      PROVE  IInv'
  <2>1. [NoTask EXCEPT !.lease = l, !.act = a, !.pc = p] \in TaskType
    BY DEF NoTask, TaskType, Steps
  <2>2. /\ task' \in [Threads -> TaskType] /\ \A u \in Threads \ {t} : task'[u] = task[u]
        /\ task'[t] = [NoTask EXCEPT !.lease = l, !.act = a, !.pc = p]
    BY <1>1, <1>7, <2>1, Becomes
  <2>3. task'[t].pc = p /\ task'[t].lease = l /\ task'[t].by = "app" /\ task'[t].act = a
    BY <2>2 DEF NoTask
  <2>4. /\ exporter' \in [Leases -> ExportType] /\ exporter'[l] = x
        /\ \A k \in Leases \ {l} : exporter'[k] = exporter[k]
    BY <1>1, <1>7, ExporterBecomes
  <2>5. TaskInv(t)'
    <3>1. Shape(t)' /\ Locked(t)' /\ Retains(t)' /\ Relies(t)' /\ Reports(t)'
      BY <1>2, <1>3, <1>7, <2>3 DEF Shape, Locked, Retains, Relies, Reports, InLock, LockSteps,
         Begins, Drops, Ends, Cleans, Detaches, Answered, Unpinned, Obtaining, LiveSteps,
         Finalizer, At
    <3>2. Works(t)'
      BY <1>2, <1>3, <2>3 DEF Works, Finalizer
    <3>3. Closes(t)'
      BY <1>2, <1>5, <1>7, <2>3, <2>4 DEF Closes, Closer, Pinning, Drops, Finalizer, At
    <3>4. QED
      BY <3>1, <3>2, <3>3 DEF TaskInv
  <2>6. Exports(l)'
    <3>1. p = "drop" => Closer(t, l)'
      BY <2>3 DEF Closer, Drops
    <3>2. x.exports > 0 => ~x.closed /\ ~state[l].uncertain
      BY <1>3, <1>7 DEF LeaseInv, Exports
    <3>3. /\ exporter'[l].exports > 0 => ~exporter'[l].closed /\ ~state'[l].uncertain
          /\ ~exporter'[l].closed => exporter'[l].rooted /\ state'[l].viewPin /\ ~exporter'[l].closing
          /\ exporter'[l].rooted /\ exporter'[l].closed => exporter'[l].closing
      BY <1>2, <1>5, <1>7, <2>4, <3>2
    <3>4. exporter'[l].closing => exporter'[l].rooted /\ \E u \in Threads : Closer(u, l)'
      BY <1>5, <1>7, <2>4, <3>1
    <3>5. /\ ~exporter'[l].closeRequested
          /\ state'[l].viewPin => exporter'[l].rooted \/ l \in failed'
      BY <1>2, <1>3, <1>5, <1>7, <2>4
    <3>6. QED
      BY <3>3, <3>4, <3>5 DEF Exports
  <2>7. /\ task'[t].lease = l => task'[t].by \in {"exporter", "pin"} \/ l = 0 \/ ~Gone(l)
        /\ task[t].lease \in {0, l} /\ task'[t].lease \in {0, l}
        /\ task[t].pc \notin {"export", "reexport"} /\ task'[t].pc \notin {"export", "reexport"}
        /\ \/ task[t].lease = l
           \/ \A u \in Threads \ {t} : task[u].lease = l => ~Finalizer(u)
        /\ lock' = lock \/ (lock \in {NoThread, t} /\ lock' \in {NoThread, t})
        /\ lock \notin {NoThread, t} => Kept(l)
    BY <1>2, <1>3, <1>7, <2>3
  <2>8. /\ \A k \in Leases \ {l} : state'[k] = state[k] /\ exporter'[k] = exporter[k]
        /\ l # 0 =>
             /\ state[l].made /\ state'[l].made
             /\ state'[l].active => state[l].active
             /\ state'[l].acquiring = state[l].acquiring
             /\ state'[l].cleanupRequested = state'[l].finalized
             /\ state'[l].finalized \/ exporter'[l].closeRequested => Gone(l)
             /\ exporter'[l].exports = exporter[l].exports
    BY <1>2, <1>3, <1>7, <2>4 DEF LeaseInv, Life
  <2>9. /\ UNCHANGED <<native, app>> /\ failed \subseteq failed' /\ failed' \subseteq failed \cup {0, l}
        /\ life.poisoned => life'.poisoned
        /\ life'.pin = life.pin \/ (native.owner = 0 /\ life'.pin = 0)
    BY <1>2
  <2>10. task' \in [Threads -> TaskType] /\ exporter' \in [Leases -> ExportType]
    BY <2>2, <2>4
  <2>11. \A u \in Threads \ {t} : task'[u] = task[u]
    BY <2>2
  <2>12. Goes(t, l)
    BY <1>4, <1>6, <2>5, <2>6, <2>7, <2>8, <2>9, <2>10, <2>11 DEF Goes
  <2>13. QED
    BY <2>12, TaskGoes
<1>8. exporter[l] \in ExportType /\ exporter = [exporter EXCEPT ![l] = exporter[l]]
  BY <1>4
<1>9. ASSUME exporter[l].closed, UNCHANGED exporter,
             Become(t, [NoTask EXCEPT !.lease = l, !.act = a, !.pc = "finish"])
      PROVE  IInv'
  <2>1. exporter' = [exporter EXCEPT ![l] = exporter[l]]
    BY <1>8, <1>9
  <2>2. "finish" \in {"finish", "drop"}
    OBVIOUS
  <2>3. exporter[l].closing <=> "finish" = "drop"
    BY <1>5
  <2>4. QED
    BY <1>7, <1>8, <1>9, <2>1, <2>2, <2>3
<1>10. ASSUME ~exporter[l].closed, exporter[l].exports = 0,
              exporter' = [exporter EXCEPT ![l] = StartClose(exporter[l])],
              Become(t, [NoTask EXCEPT !.lease = l, !.act = a, !.pc = "drop"])
       PROVE  IInv'
  <2>1. /\ StartClose(exporter[l]) \in ExportType
        /\ StartClose(exporter[l]).closed /\ StartClose(exporter[l]).closing
        /\ StartClose(exporter[l]).rooted = exporter[l].rooted
        /\ StartClose(exporter[l]).exports = exporter[l].exports
        /\ StartClose(exporter[l]).closeRequested = exporter[l].closeRequested
    BY <1>8, Reopens
  <2>2. "drop" \in {"finish", "drop"}
    OBVIOUS
  <2>3. QED
    BY <1>7, <1>10, <2>1, <2>2
<1>11. QED
  <2>1. /\ [[NoTask EXCEPT !.lease = l, !.act = a] EXCEPT !.pc = "finish"]
             = [NoTask EXCEPT !.lease = l, !.act = a, !.pc = "finish"]
        /\ [[NoTask EXCEPT !.lease = l, !.act = a] EXCEPT !.pc = "drop"]
             = [NoTask EXCEPT !.lease = l, !.act = a, !.pc = "drop"]
    BY DEF NoTask
  <2>2. \/ /\ exporter[l].closed /\ UNCHANGED exporter
           /\ Become(t, [[NoTask EXCEPT !.lease = l, !.act = a] EXCEPT !.pc = "finish"])
        \/ /\ ~exporter[l].closed /\ exporter[l].exports = 0
           /\ exporter' = [exporter EXCEPT ![l] = StartClose(exporter[l])]
           /\ Become(t, [[NoTask EXCEPT !.lease = l, !.act = a] EXCEPT !.pc = "drop"])
    BY DEF Transfers
  <2>3. QED
    BY <1>9, <1>10, <2>1, <2>2

\* A lease that is garbage is nobody's any more, and nobody works on it.
LEMMA Unworked ==
  ASSUME IInv, NEW l \in Leases, Garbage(l)
  PROVE  /\ Types /\ LeaseInv(l) /\ l # 0 /\ Gone(l) /\ state[l].made
         /\ \A u \in Threads : task[u].lease # l
         /\ ~exporter[l].closing /\ ~state[l].acquiring
         /\ exporter[l].rooted <=> ~exporter[l].closed
         /\ state[l].viewPin => exporter[l].rooted \/ l \in failed
<1>1. Types /\ LeaseInv(l) /\ l # 0 /\ app \in AppType
  BY LeaseAssumption DEF IInv, Types, Leases
<1>2. \A u \in Threads : task[u].lease # l
  <2>1. SUFFICES ASSUME NEW u \in Threads, task[u].lease = l
                 PROVE  FALSE
    OBVIOUS
  <2>2. ~At(u, "idle")
    BY <1>1, <2>1 DEF IInv, TaskInv, Shape, NoTask
  <2>3. QED
    BY <2>1, <2>2 DEF Garbage, WorkedOn
<1>3. l \notin app.leases /\ app.views[l] = 0 /\ state[l].made
  BY <1>1 DEF Garbage, Reachable, AppType
<1>4. Gone(l)
  BY <1>2, <1>3 DEF Gone
<1>5. \A u \in Threads : ~Closer(u, l) /\ ~Pinning(u, l)
  BY <1>2 DEF Closer, Pinning
<1>6. ~exporter[l].closing
  BY <1>1, <1>5 DEF LeaseInv, Exports
<1>7. exporter[l] \in ExportType
  BY <1>1 DEF Types
<1>8. exporter[l].rooted <=> ~exporter[l].closed
  BY <1>1, <1>6, <1>7 DEF LeaseInv, Exports, ExportType
<1>9. state[l].viewPin => exporter[l].rooted \/ l \in failed
  BY <1>1, <1>5 DEF LeaseInv, Exports
<1>10. ~state[l].acquiring
  BY <1>1, <1>2 DEF LeaseInv, Token
<1>11. QED
  BY <1>1, <1>2, <1>3, <1>4, <1>6, <1>8, <1>9, <1>10

\* What nobody works on stays pinned, and its token tracked, as long as its
\* state and the connection stay as they are.
LEMMA UnworkedStays ==
  ASSUME IInv, NEW l \in Leases, Garbage(l), UNCHANGED <<native, life, failed>>,
         /\ state'[l].viewPin = state[l].viewPin /\ state'[l].uncertain = state[l].uncertain
         /\ state'[l].active = state[l].active /\ state'[l].acquiring = state[l].acquiring,
         native.owner = l =>
           \/ ~state'[l].finalized \/ exporter'[l].rooted \/ l \in failed
           \/ \E t \in Threads : task'[t].lease = l
  PROVE  Pins(l)' /\ Token(l)'
<1>1. LeaseInv(l) /\ (\A u \in Threads : task[u].lease # l) /\ ~state[l].acquiring
  BY Unworked
<1>2. Pins(l)'
  BY <1>1 DEF LeaseInv, Pins, Pinned
<1>3. Token(l)'
  BY <1>1 DEF LeaseInv, Token
<1>4. QED
  BY <1>2, <1>3

\* An idle thread finalizes a _Pin.
LEMMA FinalizePinStep ==
  ASSUME IInv, NEW t \in Threads, NEW l \in Leases, FinalizePin(t, l)
  PROVE  IInv'
<1>1. /\ LeaseInv(l) /\ l # 0 /\ Gone(l) /\ Types /\ TaskInv(t)
      /\ \A u \in Threads : task[u].lease # l
      /\ ~exporter[l].closing /\ state[l].made
      /\ state[l].viewPin => exporter[l].rooted \/ l \in failed
  BY Unworked DEF FinalizePin, IInv
<1>2. /\ task[t] = NoTask /\ task[t].lease = 0 /\ task[t].pc = "idle" /\ lock # t /\ Garbage(l)
      /\ state' = [state EXCEPT ![l].finalized = TRUE, ![l].cleanupRequested = TRUE]
      /\ Become(t, [NoTask EXCEPT !.pc = "cleanup", !.lease = l, !.by = "pin"])
      /\ UNCHANGED <<native, life, lock, exporter, app, failed, interrupts>>
  BY <1>1 DEF TaskInv, Shape, Locked, InLock, LockSteps, NoTask, FinalizePin, At
<1>3. [NoTask EXCEPT !.pc = "cleanup", !.lease = l, !.by = "pin"] \in TaskType
  BY DEF NoTask, TaskType, Steps
<1>4. /\ task' \in [Threads -> TaskType] /\ \A u \in Threads \ {t} : task'[u] = task[u]
      /\ task'[t] = [NoTask EXCEPT !.pc = "cleanup", !.lease = l, !.by = "pin"]
  BY <1>1, <1>2, <1>3, Becomes
<1>5. task'[t].pc = "cleanup" /\ task'[t].lease = l /\ task'[t].by = "pin"
  BY <1>4 DEF NoTask
<1>6. /\ state' \in [Leases -> StateType] /\ \A k \in Leases \ {l} : state'[k] = state[k]
      /\ state'[l].made /\ state'[l].finalized /\ state'[l].cleanupRequested
      /\ state'[l].active = state[l].active /\ state'[l].acquiring = state[l].acquiring
      /\ state'[l].uncertain = state[l].uncertain /\ state'[l].viewPin = state[l].viewPin
  BY <1>1, <1>2 DEF Types, StateType
<1>7. TaskInv(t)'
  <2>1. \A u \in Threads \ {t} : task'[u].lease # l
    BY <1>1, <1>4
  <2>2. Finalizer(t)'
    BY <1>5 DEF Finalizer
  <2>3. Gone(l)'
    BY <1>1, <1>2, <1>6, <2>1, <2>2 DEF Gone
  <2>4. QED
    BY <1>1, <1>2, <1>5, <1>6, <2>1, <2>3 DEF TaskInv, Shape, Locked, Works, Closes, Retains,
       Relies, Reports, InLock, LockSteps, Begins, Drops, Ends, Cleans, Detaches, Answered,
       Unpinned, Obtaining, LiveSteps, Closer, Pinning, Finalizer, At
<1>8. Exports(l)'
  BY <1>1, <1>2, <1>6 DEF LeaseInv, Exports
<1>9. Pins(l)' /\ Token(l)'
  BY <1>2, <1>5, <1>6, UnworkedStays
<1>10. /\ exporter' \in [Leases -> ExportType] /\ life' \in LifeType
       /\ interrupts' \in 0 .. MaxInterrupts /\ (Healthy' => Healthy) /\ Health'
  BY <1>1, <1>2 DEF Types, IInv, Health, Healthy
<1>11. /\ lock' = lock \/ (lock \in {NoThread, t} /\ lock' \in {NoThread, t})
       /\ lock \notin {NoThread, t} => Kept(l)
       /\ task'[t].lease = l => task'[t].by \in {"exporter", "pin"} \/ l = 0 \/ ~Gone(l)
       /\ task[t].lease \in {0, l} /\ task'[t].lease \in {0, l}
       /\ task[t].pc \notin {"export", "reexport"} /\ task'[t].pc \notin {"export", "reexport"}
       /\ \/ task[t].lease = l
          \/ \A u \in Threads \ {t} : task[u].lease = l => ~Finalizer(u)
  BY <1>1, <1>2, <1>5, <1>6 DEF Kept
<1>12. /\ \A k \in Leases \ {l} : state'[k] = state[k] /\ exporter'[k] = exporter[k]
       /\ l # 0 =>
            /\ state[l].made /\ state'[l].made
            /\ state'[l].active => state[l].active
            /\ state'[l].acquiring = state[l].acquiring
            /\ state'[l].cleanupRequested = state'[l].finalized
            /\ state'[l].finalized \/ exporter'[l].closeRequested => Gone(l)
            /\ exporter'[l].exports = exporter[l].exports
  BY <1>1, <1>2, <1>6
<1>13. /\ UNCHANGED <<native, app>> /\ failed \subseteq failed' /\ failed' \subseteq failed \cup {0, l}
       /\ life.poisoned => life'.poisoned
       /\ life'.pin = life.pin \/ (native.owner = 0 /\ life'.pin = 0)
  BY <1>2
<1>14. state' \in [Leases -> StateType] /\ task' \in [Threads -> TaskType]
  BY <1>4, <1>6
<1>15. \A u \in Threads \ {t} : task'[u] = task[u]
  BY <1>4
<1>16. Goes(t, l)
  BY <1>7, <1>8, <1>9, <1>10, <1>11, <1>12, <1>13, <1>14, <1>15 DEF Goes
<1>17. QED
  BY <1>16, TaskGoes

\* An exporter nobody refers to is asked to close, and closes if it can.
LEMMA FinalizeExporterStep ==
  ASSUME IInv, NEW t \in Threads, NEW l \in Leases, FinalizeExporter(t, l)
  PROVE  IInv'
<1>1. /\ LeaseInv(l) /\ l # 0 /\ Gone(l) /\ Types /\ TaskInv(t)
      /\ \A u \in Threads : task[u].lease # l
      /\ ~exporter[l].closing /\ state[l].made
      /\ exporter[l].rooted <=> ~exporter[l].closed
  BY Unworked DEF FinalizeExporter, IInv
<1>2. /\ task[t] = NoTask /\ task[t].lease = 0 /\ task[t].pc = "idle" /\ lock # t /\ Garbage(l)
      /\ exporter[l].rooted /\ ~exporter[l].closed
      /\ UNCHANGED <<native, life, lock, state, app, failed, interrupts>>
  BY <1>1 DEF TaskInv, Shape, Locked, InLock, LockSteps, NoTask, FinalizeExporter, At
<1>3. /\ state' \in [Leases -> StateType] /\ life' \in LifeType
      /\ interrupts' \in 0 .. MaxInterrupts /\ (Healthy' => Healthy) /\ Health'
      /\ exporter[l] \in ExportType /\ state[l].viewPin /\ state[l].cleanupRequested = state[l].finalized
  BY <1>1, <1>2 DEF Types, IInv, Health, Healthy, LeaseInv, Exports, Life
<1>4. PICK x \in ExportType : /\ x = [exporter[l] EXCEPT !.closeRequested = TRUE]
                              /\ x.closeRequested /\ x.rooted /\ ~x.closed /\ ~x.closing
                              /\ x.exports = exporter[l].exports
  <2>1. [exporter[l] EXCEPT !.closeRequested = TRUE] \in ExportType
    BY <1>3 DEF ExportType
  <2>2. LET x == [exporter[l] EXCEPT !.closeRequested = TRUE]
        IN  /\ x.closeRequested /\ x.rooted /\ ~x.closed /\ ~x.closing
            /\ x.exports = exporter[l].exports
    BY <1>1, <1>2, <1>3 DEF ExportType
  <2>3. QED
    BY <2>1, <2>2
\* What is left to show for a close that starts and for one that has to wait.
<1>5. ASSUME NEW y \in ExportType, exporter' = [exporter EXCEPT ![l] = y],
             y.exports = exporter[l].exports, y.rooted,
             task' \in [Threads -> TaskType], \A u \in Threads \ {t} : task'[u] = task[u],
             \/ y.closing /\ y.closed /\ y.exports = 0 /\ task'[t].lease = l
             \/ ~y.closing /\ ~y.closed /\ y.exports # 0 /\ task'[t].lease = 0,
             y.closing => Closer(t, l)',
             task'[t].pc \in {"idle", "drop"}, task'[t].lease = l => task'[t].by = "exporter",
             TaskInv(t)'
      PROVE  IInv'
  <2>1. /\ exporter' \in [Leases -> ExportType] /\ exporter'[l] = y
        /\ \A k \in Leases \ {l} : exporter'[k] = exporter[k]
    BY <1>1, <1>5, ExporterBecomes
  <2>2. Exports(l)'
    <3>1. y.exports > 0 => ~state[l].uncertain
      BY <1>1, <1>5 DEF LeaseInv, Exports
    <3>2. y.exports \in Nat
      BY <1>5 DEF ExportType
    <3>3. QED
      BY <1>2, <1>3, <1>5, <2>1, <3>1, <3>2 DEF Exports
  <2>3. Pins(l)' /\ Token(l)'
    BY <1>2, <1>5, <2>1, UnworkedStays
  <2>4. /\ lock' = lock \/ (lock \in {NoThread, t} /\ lock' \in {NoThread, t})
        /\ lock \notin {NoThread, t} => Kept(l)
        /\ task'[t].lease = l => task'[t].by \in {"exporter", "pin"} \/ l = 0 \/ ~Gone(l)
        /\ task[t].lease \in {0, l} /\ task'[t].lease \in {0, l}
        /\ task[t].pc \notin {"export", "reexport"} /\ task'[t].pc \notin {"export", "reexport"}
        /\ \/ task[t].lease = l
           \/ \A u \in Threads \ {t} : task[u].lease = l => ~Finalizer(u)
    BY <1>1, <1>2, <1>5 DEF Kept
  <2>5. /\ \A k \in Leases \ {l} : state'[k] = state[k] /\ exporter'[k] = exporter[k]
        /\ l # 0 =>
             /\ state[l].made /\ state'[l].made
             /\ state'[l].active => state[l].active
             /\ state'[l].acquiring = state[l].acquiring
             /\ state'[l].cleanupRequested = state'[l].finalized
             /\ state'[l].finalized \/ exporter'[l].closeRequested => Gone(l)
             /\ exporter'[l].exports = exporter[l].exports
    BY <1>1, <1>2, <1>3, <1>5, <2>1
  <2>6. /\ UNCHANGED <<native, app>> /\ failed \subseteq failed' /\ failed' \subseteq failed \cup {0, l}
        /\ life.poisoned => life'.poisoned
        /\ life'.pin = life.pin \/ (native.owner = 0 /\ life'.pin = 0)
    BY <1>2
  <2>7. exporter' \in [Leases -> ExportType]
    BY <2>1
  <2>8. Goes(t, l)
    BY <1>3, <1>5, <2>2, <2>3, <2>4, <2>5, <2>6, <2>7 DEF Goes
  <2>9. QED
    BY <2>8, TaskGoes
<1>6. CASE x.exports = 0
  <2>1. /\ exporter' = [exporter EXCEPT ![l] = StartClose(x)]
        /\ Become(t, [NoTask EXCEPT !.pc = "drop", !.lease = l, !.by = "exporter"])
    BY <1>4, <1>6 DEF FinalizeExporter
  <2>2. /\ StartClose(x) \in ExportType /\ StartClose(x).closed /\ StartClose(x).closing
        /\ StartClose(x).rooted /\ StartClose(x).exports = exporter[l].exports
    BY <1>4, Reopens
  <2>3. [NoTask EXCEPT !.pc = "drop", !.lease = l, !.by = "exporter"] \in TaskType
    BY DEF NoTask, TaskType, Steps
  <2>4. /\ task' \in [Threads -> TaskType] /\ \A u \in Threads \ {t} : task'[u] = task[u]
        /\ task'[t] = [NoTask EXCEPT !.pc = "drop", !.lease = l, !.by = "exporter"]
    BY <1>1, <2>1, <2>3, Becomes
  <2>5. task'[t].pc = "drop" /\ task'[t].lease = l /\ task'[t].by = "exporter"
    BY <2>4 DEF NoTask
  <2>6. exporter'[l] = StartClose(x)
    BY <1>1, <2>1, <2>2, ExporterBecomes
  <2>7. TaskInv(t)'
    <3>1. \A u \in Threads \ {t} : task'[u].lease # l
      BY <1>1, <2>4
    <3>2. Finalizer(t)'
      BY <2>5 DEF Finalizer
    <3>3. Gone(l)'
      BY <1>1, <1>2, <3>1, <3>2 DEF Gone
    <3>4. QED
      BY <1>1, <1>2, <1>3, <2>2, <2>5, <2>6, <3>1, <3>3 DEF TaskInv, Shape, Locked, Works,
         Closes, Retains, Relies, Reports, InLock, LockSteps, Begins, Drops, Ends, Cleans,
         Detaches, Answered, Unpinned, Obtaining, LiveSteps, Closer, Pinning, Finalizer, At
  <2>8. Closer(t, l)'
    BY <2>5 DEF Closer
  <2>9. QED
    BY <1>4, <1>5, <1>6, <2>1, <2>2, <2>4, <2>5, <2>7, <2>8
<1>7. CASE x.exports # 0
  <2>1. exporter' = [exporter EXCEPT ![l] = x] /\ task' = task
    BY <1>4, <1>7 DEF FinalizeExporter
  <2>2. TaskInv(t)'
    BY <1>2, <2>1, Idle
  <2>3. QED
    BY <1>1, <1>2, <1>4, <1>5, <1>7, <2>1, <2>2 DEF Types
<1>8. QED
  BY <1>6, <1>7

\* The collector clears an exporter that is asked to close and is not open.
LEMMA ClearExporterStep ==
  ASSUME IInv, NEW l \in Leases, ClearExporter(l)
  PROVE  IInv'
<1>1. /\ LeaseInv(l) /\ l # 0 /\ Gone(l) /\ Types /\ state[l].made
      /\ \A u \in Threads : task[u].lease # l
      /\ ~exporter[l].closing /\ NoThread \notin Threads
      /\ exporter[l].rooted <=> ~exporter[l].closed
  BY LeaseAssumption, Unworked DEF ClearExporter
<1>2. /\ Garbage(l) /\ l \in failed /\ exporter[l].exports = 0
      /\ exporter' = [exporter EXCEPT ![l].closed = TRUE, ![l].rooted = FALSE]
      /\ UNCHANGED <<native, life, lock, state, app, failed, task, interrupts>>
  BY <1>1 DEF LeaseInv, Exports, ClearExporter
<1>3. /\ exporter' \in [Leases -> ExportType] /\ \A k \in Leases \ {l} : exporter'[k] = exporter[k]
      /\ exporter'[l].closed /\ ~exporter'[l].rooted /\ ~exporter'[l].closing
      /\ exporter'[l].exports = 0 /\ exporter'[l].closeRequested = exporter[l].closeRequested
  BY <1>1, <1>2 DEF Types, ExportType
<1>4. Types' /\ Native' /\ Health' /\ (Healthy' => Healthy)
  BY <1>1, <1>2, <1>3 DEF Types, IInv, Native, Health, Healthy
<1>5. Local(NoThread, l)
  BY <1>1, <1>2, <1>3 DEF Local, Same, Kept, Healthy
<1>6. LeaseInv(l)'
  <2>1. Life(l)'
    BY <1>1, <1>2, <1>3 DEF LeaseInv, Life, Gone, Finalizer
  <2>2. Counted(l)'
    BY <1>1, <1>2, <1>3, KeepsCount DEF LeaseInv
  <2>3. Exports(l)'
    BY <1>2, <1>3 DEF Exports
  <2>4. Pins(l)' /\ Token(l)'
    BY <1>2, UnworkedStays
  <2>5. QED
    BY <2>1, <2>2, <2>3, <2>4 DEF LeaseInv
<1>7. QED
  BY <1>1, <1>4, <1>5, <1>6, LocalStep

\* The application forgets a lease or a view.
LEMMA ForgetsLease ==
  ASSUME IInv, NEW l \in Leases, app' \in AppType, state[l].made,
         UNCHANGED <<native, life, lock, state, exporter, failed, task, interrupts>>,
         app'.endpoint = app.endpoint,
         app'.views[l] + app'.stale[l] = app.views[l] + app.stale[l],
         Gone(l) => l \notin app'.leases /\ app'.views[l] = 0,
         \A k \in Leases \ {l} : /\ app'.views[k] = app.views[k] /\ app'.stale[k] = app.stale[k]
                                 /\ k \in app'.leases <=> k \in app.leases,
         \A u \in Threads : task[u].lease = l => ~Finalizer(u)
  PROVE  IInv'
<1>1. Types /\ LeaseInv(l) /\ l # 0 /\ NoThread \notin Threads
  BY LeaseAssumption DEF IInv, Leases
<1>2. Types' /\ Native' /\ Health' /\ (Healthy' => Healthy)
  BY <1>1 DEF Types, IInv, Native, Health, Healthy
<1>3. Local(NoThread, l)
  BY <1>1 DEF Local, Same, Kept, Healthy
<1>4. LeaseInv(l)'
  <2>1. Life(l)'
    BY <1>1 DEF LeaseInv, Life, Gone, Finalizer
  <2>2. Counted(l)'
    BY <1>1, KeepsCount DEF LeaseInv
  <2>3. Exports(l)' /\ Pins(l)' /\ Token(l)'
    BY <1>1 DEF LeaseInv, Exports, Closer, Pinning, Pins, Pinned, Unpinned, Token, Obtaining, At
  <2>4. QED
    BY <2>1, <2>2, <2>3 DEF LeaseInv
<1>5. QED
  BY <1>1, <1>2, <1>3, <1>4, LocalStep

\* The application forgets something.
LEMMA ForgetStep ==
  ASSUME IInv, Forget
  PROVE  IInv'
<1>1. /\ Types /\ app \in AppType /\ NoThread \notin Threads /\ 0 \notin Leases
      /\ UNCHANGED <<native, life, lock, state, exporter, failed, task, interrupts>>
  <2>1. UNCHANGED <<native, life, lock, state, exporter, failed, task, interrupts>>
    BY DEF Forget
  <2>2. QED
    BY <2>1, LeaseAssumption DEF IInv, Types, Leases
<1>2. ASSUME NEW l \in app.leases, app' = [app EXCEPT !.leases = @ \ {l}]
      PROVE  IInv'
  <2>1. l \in Leases
    BY <1>1 DEF AppType
  <2>2. state[l].made /\ ~Gone(l) /\ (\A u \in Threads : task[u].lease = l => ~Finalizer(u))
    BY <2>1, Reached, Held
  <2>3. /\ app' \in AppType /\ app'.endpoint = app.endpoint
        /\ app'.views = app.views /\ app'.stale = app.stale
        /\ \A k \in Leases \ {l} : k \in app'.leases <=> k \in app.leases
    BY <1>1, <1>2 DEF AppType
  <2>4. QED
    BY <1>1, <2>1, <2>2, <2>3, ForgetsLease
<1>3. ASSUME NEW l \in Leases, app.views[l] > 0,
             app' = [app EXCEPT !.views[l] = @ - 1, !.stale[l] = @ + 1]
      PROVE  IInv'
  <2>1. state[l].made /\ ~Gone(l) /\ (\A u \in Threads : task[u].lease = l => ~Finalizer(u))
    BY <1>3, Reached, Held
  <2>2. app.views[l] \in Nat /\ app.stale[l] \in Nat
    BY <1>1 DEF AppType
  <2>3. /\ app' \in AppType /\ app'.endpoint = app.endpoint /\ app'.leases = app.leases
        /\ app'.views[l] = app.views[l] - 1 /\ app'.stale[l] = app.stale[l] + 1
        /\ \A k \in Leases \ {l} : app'.views[k] = app.views[k] /\ app'.stale[k] = app.stale[k]
    <3>1. app.views[l] - 1 \in Nat /\ app.stale[l] + 1 \in Nat
      BY <1>3, <2>2
    <3>2. /\ app'.endpoint = app.endpoint /\ app'.leases = app.leases
          /\ app'.views = [app.views EXCEPT ![l] = app.views[l] - 1]
          /\ app'.stale = [app.stale EXCEPT ![l] = app.stale[l] + 1]
      BY <1>1, <1>3 DEF AppType
    <3>3. app' \in AppType
      BY <1>1, <1>3, <3>1 DEF AppType
    <3>4. QED
      BY <1>1, <3>2, <3>3 DEF AppType
  <2>4. app'.views[l] + app'.stale[l] = app.views[l] + app.stale[l]
    BY <2>2, <2>3
  <2>5. QED
    BY <1>1, <2>1, <2>3, <2>4, ForgetsLease
<1>4. ASSUME app' = [app EXCEPT !.endpoint = FALSE]
      PROVE  IInv'
  <2>1. /\ app' \in AppType /\ ~app'.endpoint /\ app'.leases = app.leases
        /\ app'.views = app.views /\ app'.stale = app.stale
    BY <1>1, <1>4 DEF AppType
  <2>2. Types' /\ Native' /\ Health' /\ (Healthy' => Healthy)
    BY <1>1, <2>1 DEF Types, IInv, Native, Health, Healthy
  <2>3. Local(NoThread, 0)
    BY <1>1, <2>1 DEF Local, Same, Kept, Healthy
  <2>4. QED
    BY <1>1, <2>2, <2>3, LocalStep
<1>5. QED
  BY <1>2, <1>3, <1>4 DEF Forget
-----------------------------------------------------------------------------
(***************************************************************************)
(* The invariant holds.                                                    *)
(***************************************************************************)

\* At the start nothing is taken and every thread is idle.
LEMMA InitInv == Init => IInv
<1>1. SUFFICES ASSUME Init
               PROVE  IInv
  OBVIOUS
<1>2. /\ native = [attached |-> TRUE, owner |-> 0, views |-> 0, gate |-> "READY", poisoned |-> FALSE]
      /\ life = [pin |-> 0, poisoned |-> FALSE, closeRequested |-> FALSE, receipt |-> "none"]
      /\ lock = NoThread /\ failed = {} /\ interrupts = 0
      /\ state = [l \in Leases |-> NewState] /\ exporter = [l \in Leases |-> NoExporter]
      /\ app = [endpoint |-> TRUE, leases |-> {}, views |-> [l \in Leases |-> 0],
                stale |-> [l \in Leases |-> 0]]
      /\ task = [t \in Threads |-> NoTask]
  BY <1>1 DEF Init
<1>3. Types
  <2>1. NoTask \in TaskType /\ NewState \in StateType /\ NoExporter \in ExportType
    BY LeaseAssumption DEF NoTask, TaskType, Steps, NewState, StateType, NoExporter, ExportType
  <2>2. native \in NativeType /\ life \in LifeType /\ app \in AppType
    BY <1>2 DEF NativeType, LifeType, AppType
  <2>3. QED
    BY <1>2, <2>1, <2>2, LeaseAssumption DEF Types
<1>4. Native /\ Health
  BY <1>2 DEF Native, Health
<1>5. ASSUME NEW l \in Leases
      PROVE  LeaseInv(l)
  <2>1. state[l] = NewState /\ exporter[l] = NoExporter /\ l # 0
    BY <1>2, <1>5 DEF Leases
  <2>2. \A t \in Threads : task[t] = NoTask
    BY <1>2
  <2>3. app.views[l] = 0 /\ app.stale[l] = 0 /\ app.leases = {}
    BY <1>2
  <2>4. Life(l)
    BY <2>1, <2>3 DEF Life, NewState, NoExporter
  <2>5. Counted(l)
    <3>1. Exporting(l) = {}
      BY <2>2 DEF Exporting, NoTask
    <3>2. QED
      BY <2>1, <2>3, <3>1, FS_EmptySet DEF Counted, NoExporter
  <2>6. Exports(l)
    BY <2>1 DEF Exports, NewState, NoExporter
  <2>7. Pins(l) /\ Token(l)
    BY <1>2, <2>1 DEF Pins, Pinned, Token, NewState
  <2>8. QED
    BY <2>4, <2>5, <2>6, <2>7 DEF LeaseInv
<1>6. ASSUME NEW t \in Threads
      PROVE  TaskInv(t)
  <2>1. task[t] = NoTask /\ lock # t
    BY <1>2, <1>6, LeaseAssumption
  <2>2. QED
    BY <2>1 DEF TaskInv, Shape, Locked, Works, Closes, Retains, Relies, Reports, NoTask, InLock,
       LockSteps, Begins, Drops, Ends, Cleans, Detaches, Answered, Unpinned, Obtaining,
       LiveSteps, Finalizer, At
<1>7. QED
  BY <1>3, <1>4, <1>5, <1>6 DEF IInv

\* What a thread goes on with.
LEMMA ContinuesStep ==
  ASSUME IInv, NEW t \in Threads, Continues(t) \/ Interrupted(t)
  PROVE  IInv'
<1>1. PICK l \in {0} \cup Leases : task[t].lease = l
  BY DEF IInv, Types, TaskType
<1>2. CASE Acquire(t) \/ AcquireReturns(t) \/ AcquireInterrupted(t)
  BY <1>1, <1>2, AcquireStep, AcquireReturnsStep, AcquireInterruptedStep
<1>3. CASE ViewRetain(t) \/ RetainReturns(t) \/ RetainInterrupted(t) \/ Exported(t)
  BY <1>1, <1>3, ViewRetainStep, RetainReturnsStep, RetainInterruptedStep, ExportedStep
<1>4. CASE Drop(t) \/ ViewEnd(t) \/ EndViewReturns(t) \/ EndViewInterrupted(t)
  BY <1>1, <1>4, DropStep, ViewEndStep, EndViewReturnsStep, EndViewInterruptedStep
<1>5. CASE Finish(t) \/ Transfer(t) \/ TransferReturns(t) \/ TransferInterrupted(t)
  BY <1>1, <1>5, FinishStep, TransferStep, TransferReturnsStep, TransferInterruptedStep
<1>6. CASE Cleanup(t) \/ Retire(t) \/ RetireReturns(t) \/ RetireInterrupted(t)
  BY <1>1, <1>6, CleanupStep, RetireStep, RetireReturnsStep
<1>7. CASE Drain(t) \/ DrainReturns(t) \/ TryClose(t)
  BY <1>1, <1>7, DrainStep, DrainReturnsStep, TryCloseStep
<1>8. CASE Detach(t) \/ DetachReturns(t) \/ DetachInterrupted(t)
  BY <1>1, <1>8, DetachStep, DetachReturnsStep, DetachInterruptedStep
<1>9. QED
  BY <1>2, <1>3, <1>4, <1>5, <1>6, <1>7, <1>8 DEF Continues, Interrupted

\* What a thread starts.
LEMMA StartsStep ==
  ASSUME IInv, NEW t \in Threads, Application(t) \/ Collector(t)
  PROVE  IInv'
<1>1. CASE Obtain(t) \/ EnableDrain(t) \/ Close(t) \/ FinalizeEndpoint(t)
  BY <1>1, ObtainStep, EnableDrainStep, CloseStep, FinalizeEndpointStep
<1>2. ASSUME NEW l \in Leases, Buffer(t, l) \/ Reexport(t, l) \/ ReleaseView(t, l)
      PROVE  IInv'
  BY <1>2, BufferStep, ReexportStep, ReleaseViewStep
<1>3. ASSUME NEW l \in Leases, NEW a \in Acts, Transfers(t, l, a)
      PROVE  IInv'
  BY <1>3, TransfersStep
<1>4. ASSUME NEW l \in Leases,
             FinalizePin(t, l) \/ FinalizeExporter(t, l) \/ CollectView(t, l) \/ ClearExporter(l)
      PROVE  IInv'
  BY <1>4, FinalizePinStep, FinalizeExporterStep, CollectViewStep, ClearExporterStep
<1>5. QED
  BY <1>1, <1>2, <1>3, <1>4 DEF Application, Collector

\* Every step keeps the invariant.
LEMMA NextInv == IInv /\ [Next]_vars => IInv'
<1>1. ASSUME IInv, Next
      PROVE  IInv'
  BY <1>1, ContinuesStep, StartsStep, ForgetStep, PeerRetiresStep DEF Next
<1>2. ASSUME IInv, UNCHANGED vars
      PROVE  IInv'
  <2>1. Types' /\ Native' /\ Health'
    BY <1>2 DEF vars, IInv, Types, Native, Health, Healthy
  <2>2. \A l \in Leases : LeaseInv(l)'
    BY <1>2 DEF vars, IInv, LeaseInv, Life, Gone, Finalizer, Counted, Exporting, Exports,
       Closer, Pinning, Pins, Pinned, Unpinned, Token, Obtaining, At
  <2>3. \A t \in Threads : TaskInv(t)'
    <3>1. SUFFICES ASSUME NEW t \in Threads
                   PROVE  TaskInv(t)'
      OBVIOUS
    <3>2. TaskInv(t)
      BY <1>2 DEF IInv
    <3>3. Shape(t)' /\ Locked(t)' /\ Works(t)'
      BY <1>2, <3>2 DEF vars, TaskInv, Shape, Locked, InLock, Works, Gone, Finalizer, At
    <3>4. Closes(t)' /\ Retains(t)'
      BY <1>2, <3>2 DEF vars, TaskInv, Closes, Closer, Pinning, Finalizer, Retains, Unpinned,
         Pinned, At
    <3>5. Relies(t)' /\ Reports(t)'
      BY <1>2, <3>2 DEF vars, TaskInv, Relies, Obtaining, Owning, Live, Reports, Healthy,
         Finalizer, At
    <3>6. QED
      BY <3>3, <3>4, <3>5 DEF TaskInv
  <2>4. QED
    BY <2>1, <2>2, <2>3 DEF IInv
<1>3. QED
  BY <1>1, <1>2

\* The inductive invariant always holds: what each thread relies on at its step, and for
\* each lease who closes its exporter, who holds its pin and who answers for its token.
THEOREM Invariance == Spec => []IInv
<1>1. QED
  BY InitInv, NextInv, PTL DEF Spec
-----------------------------------------------------------------------------
(***************************************************************************)
(* What the leases promise.                                                *)
(***************************************************************************)

\* Every variable keeps its type; no view is counted that no export stands
\* for.
THEOREM TypeCorrect == Spec => []TypeOK
<1>1. ASSUME IInv
      PROVE  TypeOK
  <2>1. Types /\ app \in AppType
    BY <1>1 DEF IInv, Types
  <2>2. ASSUME NEW l \in Leases
        PROVE  app.views[l] \in 0 .. MaxViews /\ app.stale[l] \in 0 .. MaxViews
    <3>1. Counted(l) /\ Cardinality(Exporting(l)) \in Nat
      BY <1>1, FS_CardinalityType DEF IInv, LeaseInv, Counted
    <3>2. app.views[l] \in Nat /\ app.stale[l] \in Nat /\ exporter[l].exports \in 0 .. MaxViews
      BY <2>1 DEF Types, AppType, ExportType
    <3>3. QED
      BY <3>1, <3>2, LeaseAssumption DEF Counted
  <2>3. app \in [endpoint : BOOLEAN, leases : SUBSET Leases,
                 views : [Leases -> 0 .. MaxViews], stale : [Leases -> 0 .. MaxViews]]
    BY <2>1, <2>2 DEF AppType
  <2>4. QED
    BY <2>1, <2>3 DEF Types, TypeOK, NativeType, LifeType, StateType, ExportType, TaskType
<1>2. QED
  BY <1>1, Invariance, PTL

\* A view anyone may still touch keeps the mapping and the slot: its exporter
\* is open, so nobody is dropping the pin or about to take it, and a pin that
\* the endpoint believes in is then the native one.
THEOREM ViewsKeepTheSlot == Spec => []ViewsPinned
<1>1. ASSUME IInv, NEW l \in Leases, app.views[l] + app.stale[l] > 0
      PROVE  native.attached /\ native.owner = l /\ native.views = 1
  <2>1. LeaseInv(l) /\ l # 0 /\ exporter[l].exports > 0
    <3>1. app.views[l] \in Nat /\ app.stale[l] \in Nat
      BY <1>1 DEF IInv, Types, AppType
    <3>2. app.views[l] > 0 \/ app.stale[l] > 0
      BY <1>1, <3>1
    <3>3. QED
      BY <1>1, <3>2, CountedExports, LeaseAssumption DEF IInv, Leases
  <2>2. ~exporter[l].closed /\ ~exporter[l].closing /\ state[l].viewPin /\ ~state[l].uncertain
    BY <2>1 DEF LeaseInv, Exports
  <2>3. ASSUME lock \in Threads, task[lock].lease = l, Unpinned(lock)
        PROVE  FALSE
    <3>1. Shape(lock) /\ Closes(lock)
      BY <1>1, <2>3 DEF IInv, TaskInv
    <3>2. Closer(lock, l) \/ Pinning(lock, l)
      BY <2>3, <3>1 DEF Shape, Unpinned, Closer, Pinning, Drops, At
    <3>3. QED
      BY <2>1, <2>2, <2>3, <3>1, <3>2 DEF Closes
  <2>4. Pinned(l)
    BY <2>1, <2>2, <2>3 DEF LeaseInv, Pins
  <2>5. QED
    BY <1>1, <2>1, <2>4 DEF IInv, Native, Pinned
<1>2. IInv => ViewsPinned
  BY <1>1 DEF ViewsPinned
<1>3. QED
  BY <1>2, Invariance, PTL

\* A token that no thread is busy with keeps the endpoint from taking another
\* and from closing, and somebody is left who can return it.
THEOREM TokensTracked == Spec => []TokenTracked
<1>1. ASSUME IInv, NEW l \in Leases, native.owner = l, ~WorkedOn(l)
      PROVE  /\ Busy
             /\ Reachable(l) \/ ~state[l].finalized \/ exporter[l].rooted \/ l \in failed
  <2>1. LeaseInv(l) /\ l # 0
    BY <1>1, LeaseAssumption DEF IInv, Leases
  <2>2. \A u \in Threads : task[u].lease # l
    BY <1>1, <2>1 DEF WorkedOn, IInv, TaskInv, Shape, NoTask
  <2>3. /\ life.poisoned \/ life.pin = l
        /\ state[l].active
        /\ ~state[l].finalized \/ exporter[l].rooted \/ l \in failed
    BY <1>1, <2>1, <2>2 DEF LeaseInv, Token
  <2>4. state[l].made
    BY <2>1, <2>3 DEF LeaseInv, Life, NewState
  <2>5. QED
    BY <2>1, <2>3, <2>4 DEF Busy, Alive
<1>2. IInv => TokenTracked
  BY <1>1 DEF TokenTracked
<1>3. QED
  BY <1>2, Invariance, PTL

\* A process that was never interrupted, on a connection that reports no
\* failure, has no failed cleanup to report.
THEOREM HealthyRetainsNothing == Spec => []HealthyNeverRetained
<1>1. IInv => HealthyNeverRetained
  BY DEF IInv, Health, Healthy, HealthyNeverRetained
<1>2. QED
  BY <1>1, Invariance, PTL

\* Only an acquisition and a transfer move a token, and a thread is in one of
\* them only with a lease that is not uncertain.
THEOREM UncertainStaysPut == Spec => NeverRetried
<1>1. ASSUME IInv, Next, NEW l \in Leases, state[l].uncertain
      PROVE  native'.owner = l <=> native.owner = l
  <2>1. native \in NativeType /\ l # 0 /\ (\A t \in Threads : Relies(t))
    BY <1>1, LeaseAssumption DEF IInv, Types, TaskInv, Leases
  <2>2. ASSUME NEW t \in Threads, Acquire(t)
        PROVE  native'.owner = l <=> native.owner = l
    <3>1. task[t].lease # l
      BY <1>1, <2>1, <2>2 DEF Relies, Obtaining, Acquire, At
    <3>2. native'.owner = native.owner \/ (native.owner = 0 /\ native'.owner = task[t].lease)
      BY <2>1, <2>2 DEF Acquire, NativeType
    <3>3. QED
      BY <2>1, <3>1, <3>2
  <2>3. ASSUME NEW t \in Threads, Transfer(t)
        PROVE  native'.owner = l <=> native.owner = l
    <3>1. task[t].lease # l
      BY <1>1, <2>1, <2>3 DEF Relies, LiveSteps, Live, Transfer, At
    <3>2. native'.owner = native.owner \/ (native.owner = task[t].lease /\ native'.owner = 0)
      BY <2>1, <2>3 DEF Transfer, Admitted, NativeType
    <3>3. QED
      BY <2>1, <3>1, <3>2
  <2>4. ASSUME NEW t \in Threads, ViewRetain(t) \/ ViewEnd(t) \/ Retire(t) \/ Detach(t)
        PROVE  native'.owner = native.owner
    BY <2>1, <2>4 DEF ViewRetain, ViewEnd, Retire, Detach, NativeType
  <2>5. ASSUME PeerRetires
        PROVE  native'.owner = native.owner
    BY <2>1, <2>5 DEF PeerRetires, NativeType
  <2>6. ASSUME NEW t \in Threads, Interrupted(t)
        PROVE  native' = native
    BY <2>6 DEF Interrupted, AcquireInterrupted, RetainInterrupted, EndViewInterrupted,
       TransferInterrupted, RetireInterrupted, DetachInterrupted
  <2>7. ASSUME NEW t \in Threads, Application(t) \/ Collector(t)
        PROVE  native' = native
    BY <2>7 DEF Application, Collector, Obtain, EnableDrain, Close, Buffer, Reexport, ReleaseView,
       Transfers, FinalizeEndpoint, FinalizePin, FinalizeExporter, CollectView, ClearExporter
  <2>8. ASSUME NEW t \in Threads, Continues(t),
               ~(Acquire(t) \/ Transfer(t) \/ ViewRetain(t) \/ ViewEnd(t) \/ Retire(t) \/ Detach(t))
        PROVE  native' = native
    BY <2>8 DEF Continues, AcquireReturns, RetainReturns, Exported, Drop, EndViewReturns, Finish,
       TransferReturns, Cleanup, RetireReturns, Drain, DrainReturns, TryClose, DetachReturns
  <2>9. QED
    BY <1>1, <2>2, <2>3, <2>4, <2>5, <2>6, <2>7, <2>8 DEF Next, Forget
<1>2. IInv /\ [Next]_vars =>
        [\A l \in Leases : state[l].uncertain => (native'.owner = l <=> native.owner = l)]_vars
  BY <1>1
<1>3. QED
  BY <1>2, Invariance, PTL DEF Spec, NeverRetried
=============================================================================
