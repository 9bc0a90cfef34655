--------------------------- MODULE ManagerProofs ---------------------------
(***************************************************************************)
(* The management half of the Python binding, for any number of threads,   *)
(* endpoints and interrupts: threads never wait for each other in a        *)
(* circle, whatever is open has somebody who will close it, and an object  *)
(* is destroyed only when nobody can use it.                               *)
(*                                                                         *)
(* A garbage collection lies over whatever its thread was doing, with the  *)
(* locks that holds, and its finalizers take locks in the reverse order.   *)
(* Two things make that harmless: at most one collection lies over a call, *)
(* and what it finalizes is used by nobody.                                *)
(***************************************************************************)
EXTENDS Manager, SequenceTheorems, TLAPS

(***************************************************************************)
(* Frames and stacks.                                                      *)
(***************************************************************************)
Locks == Endpoints \cup {A}
FrameSet ==
  [op : {"grant", "method", "close", "life_close", "close_shm", "manage", "collect", "finish"},
   pc : {"in", "attach", "enter", "ack", "acking", "closed", "busy", "close", "run"},
   on : Locks, by : {"app", "gc"}, locks : SUBSET Locks,
   rest : SUBSET (Locals \cup Objects), all : SUBSET (Locals \cup Objects)]

\* The frames of each operation: who runs it, and which locks it has where.
Formed(f) ==
  \/ f.op = "grant" /\ f.by = "app" /\ f.pc = "in" /\ f.on \in Endpoints /\ f.locks = {A}
  \/ f.op = "grant" /\ f.by = "app" /\ f.pc = "attach" /\ f.on \in Locals /\ f.locks = {}
  \/ f.op = "method" /\ f.by = "app" /\ f.pc = "in" /\ f.on \in Locals /\ f.locks = {f.on}
  \/ f.op = "close" /\ f.pc = "enter" /\ f.on \in Locals /\ f.locks = {}
  \/ f.op = "close" /\ f.pc \in {"ack", "closed"} /\ f.on \in Locals /\ f.locks = {f.on}
  \/ f.op = "close" /\ f.pc = "acking" /\ f.on \in Locals /\ f.locks = {f.on, A}
  \/ f.op = "life_close" /\ f.by = "gc" /\ f.pc = "enter" /\ f.locks = {}
  \/ f.op = "close_shm" /\ f.by = "app" /\ f.pc \in {"busy", "close"} /\ f.locks = {}
     /\ f.rest \subseteq f.all /\ f.all \subseteq Locals
  \/ f.op = "close_shm" /\ f.by = "app" /\ f.pc = "in" /\ f.locks = {A}
     /\ f.all \subseteq Locals
  \/ f.op = "manage" /\ f.by = "app" /\ f.pc = "in" /\ f.locks = {A}
  \/ f.op = "collect" /\ f.by = "gc" /\ f.pc = "run" /\ f.locks = {}
     /\ f.rest \subseteq f.all /\ f.all \subseteq Objects
  \/ f.op = "finish" /\ f.by = "gc" /\ f.pc = "enter" /\ f.on \in Locals /\ f.locks = {}

\* What a collection has finalized so far.
Done(c) == c.all \ c.rest

\* g runs directly on top of f: a collection over any frame of the application,
\* over a collection what a finalizer calls.
Over(g, f) ==
  \/ g.op = "collect" /\ f.by = "app"
  \/ g.op = "close" /\ g.by = "app" /\ f.op = "close_shm" /\ f.pc = "close" /\ g.on \in f.all
  \/ g.op = "close" /\ g.by = "gc" /\ f.op = "collect" /\ Wrap(g.on) \in Done(f)
  \/ g.op = "finish" /\ f.op = "collect" /\ Pin(g.on) \in Done(f)
  \/ g.op = "life_close" /\ f.op = "collect" /\ Shm \in Done(f)
  \/ g.op = "life_close" /\ f.op = "close" /\ f.by = "gc" /\ f.pc = "closed"

\* A resting thread starts a call of the application or a collection.
Outermost(f) == f.by = "app" \/ f.op = "collect"

Shape(s) ==
  /\ s \in Seq(FrameSet)
  /\ \A i \in 1 .. Len(s) : Formed(s[i])
  /\ \A i \in 1 .. Len(s) - 1 : Over(s[i], s[i + 1])
  /\ s # <<>> => Outermost(s[Len(s)])

\* The endpoints a call of the application works on.
Works(f, e) ==
  /\ f.by = "app"
  /\ (f.op \in {"method", "close"} /\ f.on = e) \/ (f.op = "close_shm" /\ e \in f.all)

\* What a thread is in the middle of: a collection; its batch, and the part it
\* has finalized; a call of the application, and the endpoints it works on.
Batches(t)     == {f \in Frames(t) : f.op = "collect"}
Collects(t)    == Batches(t) # {}
InBatch(t, o)  == \E c \in Batches(t) : o \in c.all
Finalized(t, o) == \E c \in Batches(t) : o \in Done(c)
App(t)         == \E f \in Frames(t) : f.by = "app"
WorksOn(t, e)  == \E f \in Frames(t) : Works(f, e)
Attaching(t, e) == \E f \in Frames(t) : f.op = "grant" /\ f.pc = "attach" /\ f.on = e
Closing(t, e, by, pc) ==
  \E f \in Frames(t) : f.op = "close" /\ f.on = e /\ f.by = by /\ f.pc = pc
Finishing(t, e) == \E f \in Frames(t) : f.op = "finish" /\ f.on = e
LifeClosing(t)  == \E f \in Frames(t) : f.op = "life_close"

(***************************************************************************)
(* The inductive invariant.                                                *)
(***************************************************************************)
EndpointSet ==
  [holder : {"none", "registered", "issued", "resolved"},
   conn : {"none", "open", "rejected", "gone"},
   closeRequested : BOOLEAN, leased : BOOLEAN]

TypeOK ==
  /\ object \in [alive : BOOLEAN, gate : {"READY", "RETIRED"}, granting : BOOLEAN,
                 closeRequested : BOOLEAN]
  /\ endpoint \in [Endpoints -> EndpointSet]
  /\ ref \in [Objects -> {"none", "live", "dying", "dead"}]
  /\ held \subseteq Objects /\ failed \subseteq Objects
  /\ child \in {"running", "dead", "reaped"}
  /\ stack \in [Threads -> Seq(FrameSet)]
  /\ interrupts \in Nat

Shapes == \A t \in Threads : Shape(stack[t])

\* A lock has one owner; one collection at most runs over a call.
Mutex ==
  /\ \A t, u \in Threads : \A l \in Locks : Has(t, l) /\ Has(u, l) => t = u
  /\ \A t, u \in Threads : App(t) /\ Collects(t) /\ App(u) /\ Collects(u) => t = u

\* What the application refers to, or works on, is not garbage.
InService ==
  /\ \A o \in held : ref[o] = "live"
  /\ \A t \in Threads : App(t) => ref[Shm] = "live"
  /\ \A t \in Threads, e \in Locals : WorksOn(t, e) => ref[Wrap(e)] = "live"

\* What is dying is in the batch of one collection, with all that refers to it.
Garbage ==
  /\ \A t \in Threads, o \in Objects : InBatch(t, o) => ref[o] = "dying"
  /\ \A t, u \in Threads, o \in Objects : InBatch(t, o) /\ InBatch(u, o) => t = u
  /\ \A o \in Objects : ref[o] = "dying" => \E t \in Threads : InBatch(t, o)
  /\ \A o \in Objects : \A r \in Referrers(o) : Alive(r) =>
       Alive(o) /\ \A t \in Threads : InBatch(t, o) => InBatch(t, r)

\* What the status of an endpoint says of its wrapper and its lease.
Statuses ==
  /\ \A e \in Endpoints :
       /\ endpoint[e].holder = "issued" => object.alive
       /\ Connected(e) /\ (e \in Locals \/ child = "running") => endpoint[e].holder = "issued"
  /\ \A e \in Locals :
       /\ endpoint[e].conn = "none" <=> ref[Wrap(e)] = "none"
       /\ endpoint[e].holder \in {"none", "registered"} => endpoint[e].conn = "none"
       /\ endpoint[e].holder = "resolved" => endpoint[e].conn = "gone"
       /\ endpoint[e].leased => endpoint[e].conn = "open"

\* What the calls that work on an endpoint know of it.
Informed ==
  /\ \A t \in Threads, e \in Locals :
       /\ Attaching(t, e) => endpoint[e].holder = "issued" /\ endpoint[e].conn = "none"
       /\ Finishing(t, e) => endpoint[e].leased
       /\ Closing(t, e, "gc", "enter") => ~endpoint[e].leased
       /\ \A by \in {"app", "gc"}, pc \in {"ack", "acking", "closed"} :
            Closing(t, e, by, pc) => endpoint[e].conn = "gone"
       /\ \A by \in {"app", "gc"} : Closing(t, e, by, "closed") => endpoint[e].holder # "issued"
  /\ \A t, u \in Threads, e \in Locals : Attaching(t, e) /\ Attaching(u, e) => t = u

\* Who will finish what has been begun.
Attended ==
  \A e \in Locals :
    /\ endpoint[e].conn = "none" /\ endpoint[e].holder = "issued" =>
         \E t \in Threads : Attaching(t, e)
    /\ endpoint[e].conn = "gone" /\ endpoint[e].holder = "issued" /\ interrupts = 0 =>
         \E t \in Threads : \E by \in {"app", "gc"}, pc \in {"ack", "acking"} :
           Closing(t, e, by, pc)
    /\ endpoint[e].leased =>
         \/ ref[Pin(e)] = "live"
         \/ \E t \in Threads : /\ InBatch(t, Pin(e))
                               /\ Finalized(t, Pin(e)) => Finishing(t, e)

\* A finalizer leaves a request.
Requested ==
  /\ \A e \in Locals : endpoint[e].closeRequested =>
       ref[Wrap(e)] = "dead" \/ \E t \in Threads : Finalized(t, Wrap(e))
  /\ object.closeRequested =>
       ref[Shm] = "dead" \/ \E t \in Threads : Finalized(t, Shm)
  /\ \A t \in Threads :
       /\ \A e \in Locals : Finalized(t, Wrap(e)) => endpoint[e].closeRequested
       /\ Finalized(t, Shm) => object.closeRequested

\* The request is met before the batch is freed, or its failure recorded.
Outstanding == Shm \in failed \/ \E e \in Locals : Connected(e) \/ Wrap(e) \in failed
Pursued ==
  /\ \A e \in Locals : Connected(e) /\ Wrap(e) \notin failed =>
       /\ ref[Wrap(e)] # "dead"
       /\ \A t \in Threads : Finalized(t, Wrap(e)) =>
            endpoint[e].leased \/ Closing(t, e, "gc", "enter")
  /\ object.alive /\ ~Outstanding =>
       /\ ref[Shm] # "dead"
       /\ \A t \in Threads : Finalized(t, Shm) =>
            \/ LifeClosing(t)
            \/ \E e \in Locals, pc \in {"ack", "acking"} : Closing(t, e, "gc", pc)
  /\ ref[Shm] # "none"
  /\ \A t \in Threads : LifeClosing(t) => Closable

IInv == /\ TypeOK /\ Shapes /\ Mutex /\ InService /\ Garbage
        /\ Statuses /\ Informed /\ Attended /\ Requested /\ Pursued /\ HealthyNeverRetained
-----------------------------------------------------------------------------
(***************************************************************************)
(* Objects and their names.                                                *)
(***************************************************************************)

\* Different objects have different names, and each knows its referrers.
LEMMA Names ==
  /\ Shm \in Objects /\ \A e \in Locals : Wrap(e) \in Objects /\ Pin(e) \in Objects
  /\ \A e, x : /\ Wrap(e) # Shm /\ Pin(e) # Shm /\ Wrap(e) # Pin(x)
               /\ Wrap(e) = Wrap(x) => e = x
               /\ Pin(e) = Pin(x) => e = x
  /\ \A o \in Objects : o = Shm \/ \E e \in Locals : o = Wrap(e) \/ o = Pin(e)
  /\ Referrers(Shm) = {Wrap(e) : e \in Locals}
  /\ \A e : Referrers(Wrap(e)) = {Pin(e)} /\ Referrers(Pin(e)) = {}
  /\ Shm[1] = "shm" /\ \A e : /\ Wrap(e)[1] = "endpoint" /\ Wrap(e)[2] = e
                              /\ Pin(e)[1] = "pin" /\ Pin(e)[2] = e
  BY DEF Shm, Wrap, Pin, Objects, Referrers

\* Only objects refer to objects.
LEMMA Referring == \A o \in Objects : Referrers(o) \subseteq Objects
  <1>1. ASSUME NEW o \in Objects PROVE Referrers(o) \subseteq Objects
    <2>1. CASE o = Shm
      BY <2>1, Names
    <2>2. CASE o # Shm
      BY <1>1, <2>2, Names
    <2> QED BY <2>1, <2>2
  <1> QED BY <1>1

\* Every endpoint taken locally is one of the generation, and no lock is A's but A.
LEMMA Sides ==
  /\ Locals \subseteq Endpoints /\ A \notin Endpoints /\ Locals \cap Remote = {}
  /\ Endpoints \subseteq Locks /\ A \in Locks /\ Remote \subseteq Endpoints
  BY ManagerAssumption DEF Endpoints, Locks
-----------------------------------------------------------------------------
(***************************************************************************)
(* Stacks.                                                                 *)
(***************************************************************************)
FramesOf(s) == {s[i] : i \in 1 .. Len(s)}

\* A frame is put on top.
LEMMA Pushed ==
  ASSUME NEW s \in Seq(FrameSet), NEW f \in FrameSet
  PROVE  /\ <<f>> \o s \in Seq(FrameSet) /\ <<f>> \o s # <<>>
         /\ Len(<<f>> \o s) = Len(s) + 1
         /\ (<<f>> \o s)[1] = f /\ Head(<<f>> \o s) = f
         /\ \A i \in 1 .. Len(s) : (<<f>> \o s)[i + 1] = s[i]
         /\ Tail(<<f>> \o s) = s
         /\ FramesOf(<<f>> \o s) = {f} \cup FramesOf(s)
  <1>1. PICK p : p = <<f>> \o s
    OBVIOUS
  <1>2. <<f>> \in Seq(FrameSet) /\ Len(<<f>>) = 1 /\ <<f>>[1] = f
    OBVIOUS
  <1>3. Len(s) \in Nat
    BY LenProperties
  <1>4. /\ p \in Seq(FrameSet) /\ Len(p) = Len(s) + 1
        /\ \A i \in 1 .. Len(s) + 1 : p[i] = IF i <= 1 THEN <<f>>[i] ELSE s[i - 1]
    BY <1>1, <1>2, <1>3, ConcatProperties
  <1>5. p[1] = f
    BY <1>2, <1>3, <1>4
  <1>6. \A i \in 1 .. Len(s) : p[i + 1] = s[i]
    BY <1>3, <1>4
  <1>7. p # <<>>
    BY <1>3, <1>4, EmptySeq
  <1>8. Head(p) = f
    BY <1>4, <1>5, <1>7
  <1>9. Tail(p) = s
    <2>1. /\ Tail(p) \in Seq(FrameSet) /\ Len(Tail(p)) = Len(s)
          /\ \A i \in 1 .. Len(s) : Tail(p)[i] = p[i + 1]
      BY <1>3, <1>4, <1>7, HeadTailProperties
    <2> QED BY <1>6, <2>1, SeqEqual
  <1>10. FramesOf(p) = {f} \cup FramesOf(s)
    <2>1. \A i \in 1 .. Len(s) + 1 : i = 1 \/ (i - 1 \in 1 .. Len(s) /\ i = (i - 1) + 1)
      BY <1>3
    <2>2. ASSUME NEW g \in FramesOf(p) PROVE g \in {f} \cup FramesOf(s)
      <3>1. PICK i \in 1 .. Len(s) + 1 : g = p[i]
        BY <1>4, <2>2 DEF FramesOf
      <3>2. CASE i = 1
        BY <1>5, <3>1, <3>2
      <3>3. CASE i # 1
        <4>1. PICK j \in 1 .. Len(s) : i = j + 1
          BY <2>1, <3>3
        <4>2. g = s[j]
          BY <1>6, <3>1, <4>1
        <4> QED BY <4>2 DEF FramesOf
      <3> QED BY <3>2, <3>3
    <2>3. ASSUME NEW g \in FramesOf(s) PROVE g \in FramesOf(p)
      <3>1. PICK i \in 1 .. Len(s) : g = s[i]
        BY <2>3 DEF FramesOf
      <3>2. i + 1 \in 1 .. Len(p) /\ g = p[i + 1]
        BY <1>3, <1>4, <1>6, <3>1
      <3> QED BY <3>2 DEF FramesOf
    <2>4. f \in FramesOf(p)
      <3>1. 1 \in 1 .. Len(p)
        BY <1>3, <1>4
      <3> QED BY <1>5, <3>1 DEF FramesOf
    <2> QED BY <2>2, <2>3, <2>4
  <1> QED BY <1>1, <1>4, <1>5, <1>6, <1>7, <1>8, <1>9, <1>10

\* What is left when the top is taken off.
LEMMA Popped ==
  ASSUME NEW s \in Seq(FrameSet), s # <<>>
  PROVE  /\ Tail(s) \in Seq(FrameSet) /\ Head(s) \in FrameSet /\ Head(s) = s[1]
         /\ Len(s) \in Nat \ {0} /\ Len(Tail(s)) = Len(s) - 1
         /\ \A i \in 1 .. Len(s) - 1 : Tail(s)[i] = s[i + 1]
         /\ s = <<Head(s)>> \o Tail(s)
         /\ FramesOf(s) = {Head(s)} \cup FramesOf(Tail(s))
  <1>1. Len(s) \in Nat \ {0}
    BY EmptySeq
  <1>2. /\ Head(s) \in FrameSet /\ Tail(s) \in Seq(FrameSet) /\ Len(Tail(s)) = Len(s) - 1
        /\ \A i \in 1 .. Len(Tail(s)) : Tail(s)[i] = s[i + 1]
    BY HeadTailProperties
  <1>3. Head(s) = s[1]
    OBVIOUS
  <1>4. PICK h, r : h = Head(s) /\ r = Tail(s)
    OBVIOUS
  <1>5. s = <<h>> \o r
    <2>1. /\ <<h>> \o r \in Seq(FrameSet) /\ Len(<<h>> \o r) = Len(r) + 1
          /\ (<<h>> \o r)[1] = h
          /\ \A i \in 1 .. Len(r) : (<<h>> \o r)[i + 1] = r[i]
      BY <1>2, <1>4, Pushed
    <2>2. \A i \in 1 .. Len(s) : i = 1 \/ (i - 1 \in 1 .. Len(r) /\ i = (i - 1) + 1)
      BY <1>1, <1>2, <1>4
    <2>3. \A i \in 1 .. Len(s) : s[i] = (<<h>> \o r)[i]
      BY <1>2, <1>3, <1>4, <2>1, <2>2
    <2>4. Len(<<h>> \o r) = Len(s)
      BY <1>1, <1>2, <1>4, <2>1
    <2> QED BY <2>1, <2>3, <2>4, SeqEqual
  <1>6. FramesOf(<<h>> \o r) = {h} \cup FramesOf(r)
    BY <1>2, <1>4, Pushed
  <1> QED BY <1>1, <1>2, <1>3, <1>4, <1>5, <1>6

\* A well-shaped stack stays one when a fitting frame is put on top.
LEMMA ShapePush ==
  ASSUME NEW s, Shape(s), NEW f \in FrameSet, Formed(f),
         s = <<>> => Outermost(f), s # <<>> => Over(f, Head(s))
  PROVE  Shape(<<f>> \o s)
  <1>1. PICK p : p = <<f>> \o s
    OBVIOUS
  <1>2. s \in Seq(FrameSet) /\ Len(s) \in Nat
    BY LenProperties DEF Shape
  <1>3. /\ p \in Seq(FrameSet) /\ Len(p) = Len(s) + 1 /\ p[1] = f
        /\ \A i \in 1 .. Len(s) : p[i + 1] = s[i]
    BY <1>1, <1>2, Pushed
  <1>4. \A i \in 1 .. Len(p) : i = 1 \/ (i - 1 \in 1 .. Len(s) /\ i = (i - 1) + 1)
    BY <1>2, <1>3
  <1>5. \A i \in 1 .. Len(p) : Formed(p[i])
    BY <1>3, <1>4 DEF Shape
  <1>6. ASSUME NEW i \in 1 .. Len(p) - 1 PROVE Over(p[i], p[i + 1])
    <2>1. CASE i = 1
      <3>1. s # <<>> /\ 1 \in 1 .. Len(s)
        BY <1>2, <1>3, <1>6, <2>1, EmptySeq
      <3>2. Head(s) = s[1] /\ p[i + 1] = s[1]
        BY <1>2, <1>3, <2>1, <3>1
      <3> QED BY <1>3, <2>1, <3>1, <3>2
    <2>2. CASE i # 1
      <3>1. PICK j \in 1 .. Len(s) - 1 : i = j + 1 /\ j \in 1 .. Len(s) /\ j + 1 \in 1 .. Len(s)
        <4>1. i - 1 \in 1 .. Len(s) - 1 /\ i = (i - 1) + 1
          BY <1>2, <1>3, <1>6, <2>2
        <4>2. i - 1 \in 1 .. Len(s) /\ (i - 1) + 1 \in 1 .. Len(s)
          BY <1>2, <4>1
        <4> QED BY <4>1, <4>2
      <3>2. p[i] = s[j] /\ p[i + 1] = s[j + 1]
        BY <1>3, <3>1
      <3> QED BY <3>1, <3>2 DEF Shape
    <2> QED BY <2>1, <2>2
  <1>7. Outermost(p[Len(p)])
    <2>1. CASE s = <<>>
      <3>1. Len(p) = 1
        BY <1>2, <1>3, <2>1, EmptySeq
      <3> QED BY <1>3, <2>1, <3>1
    <2>2. CASE s # <<>>
      <3>1. Len(s) \in 1 .. Len(s)
        BY <1>2, <2>2, EmptySeq
      <3> QED BY <1>3, <2>2, <3>1 DEF Shape
    <2> QED BY <2>1, <2>2
  <1> QED BY <1>1, <1>3, <1>5, <1>6, <1>7 DEF Shape

\* It also stays one when the top is taken off.
LEMMA ShapePop ==
  ASSUME NEW s, Shape(s), s # <<>>
  PROVE  /\ Shape(Tail(s)) /\ Formed(Head(s)) /\ Head(s) \in FrameSet
         /\ Tail(s) = <<>> => Outermost(Head(s))
         /\ Tail(s) # <<>> => Over(Head(s), Head(Tail(s)))
  <1>1. PICK r : r = Tail(s)
    OBVIOUS
  <1>2. s \in Seq(FrameSet)
    BY DEF Shape
  <1>3. /\ r \in Seq(FrameSet) /\ Head(s) \in FrameSet /\ Head(s) = s[1]
        /\ Len(s) \in Nat \ {0} /\ Len(r) = Len(s) - 1
        /\ \A i \in 1 .. Len(s) - 1 : r[i] = s[i + 1]
    BY <1>1, <1>2, Popped
  <1>4. \A i \in 1 .. Len(r) : i \in 1 .. Len(s) - 1 /\ i + 1 \in 1 .. Len(s)
    BY <1>3
  <1>5. \A i \in 1 .. Len(r) : Formed(r[i])
    BY <1>3, <1>4 DEF Shape
  <1>6. ASSUME NEW i \in 1 .. Len(r) - 1 PROVE Over(r[i], r[i + 1])
    <2>1. i \in 1 .. Len(s) - 1 /\ i + 1 \in 1 .. Len(s) - 1
      BY <1>3
    <2>2. r[i] = s[i + 1] /\ r[i + 1] = s[(i + 1) + 1]
      BY <1>3, <2>1
    <2> QED BY <2>1, <2>2 DEF Shape
  <1>7. r # <<>> => Len(r) \in Nat \ {0}
    BY <1>3, EmptySeq
  <1>8. r # <<>> => Outermost(r[Len(r)])
    <2>1. SUFFICES ASSUME r # <<>> PROVE Outermost(r[Len(r)])
      OBVIOUS
    <2>2. Len(r) \in 1 .. Len(s) - 1 /\ Len(r) + 1 = Len(s)
      BY <1>3, <1>7, <2>1
    <2>3. r[Len(r)] = s[Len(s)]
      BY <1>3, <2>2
    <2> QED BY <2>3, <1>2, <1>3, EmptySeq DEF Shape
  <1>9. r = <<>> => Outermost(s[1])
    <2>1. r = <<>> => Len(s) = 1
      BY <1>3, EmptySeq
    <2> QED BY <2>1 DEF Shape
  <1>10. r # <<>> => Over(s[1], Head(r))
    <2>1. SUFFICES ASSUME r # <<>> PROVE Over(s[1], Head(r))
      OBVIOUS
    <2>2. 1 \in 1 .. Len(s) - 1 /\ Head(r) = r[1]
      BY <1>3, <1>7, <2>1
    <2>3. Head(r) = s[1 + 1]
      BY <1>3, <2>2
    <2> QED BY <2>2, <2>3 DEF Shape
  <1>11. Formed(s[1])
    <2>1. 1 \in 1 .. Len(s)
      BY <1>3
    <2> QED BY <2>1 DEF Shape
  <1> QED BY <1>1, <1>3, <1>5, <1>6, <1>8, <1>9, <1>10, <1>11 DEF Shape

\* Above a call of the application lies nothing but a close that its manager's
\* close has called.
LEMMA AppOnTop ==
  ASSUME NEW s, Shape(s), s # <<>>, Head(s).by = "app"
  PROVE  \A g \in FramesOf(Tail(s)) :
           /\ g.by = "app" /\ g.op = "close_shm" /\ g.pc = "close"
           /\ Head(s).op = "close" /\ Head(s).on \in g.all
  <1>1. PICK f, r : f = Head(s) /\ r = Tail(s)
    OBVIOUS
  <1>2. /\ Shape(r) /\ Formed(f)
        /\ r # <<>> => Over(f, Head(r))
    BY <1>1, ShapePop
  <1>3. CASE r = <<>>
    <2>1. FramesOf(<<>>) = {}
      BY DEF FramesOf
    <2> QED BY <1>1, <1>3, <2>1
  <1>4. CASE r # <<>>
    <2>1. /\ f.op = "close" /\ Head(r).op = "close_shm" /\ Head(r).pc = "close"
          /\ f.on \in Head(r).all
      BY <1>1, <1>2, <1>4 DEF Over, Formed
    <2>2. /\ Formed(Head(r)) /\ (Tail(r) # <<>> => Over(Head(r), Head(Tail(r))))
          /\ FramesOf(r) = {Head(r)} \cup FramesOf(Tail(r))
      BY <1>2, <1>4, ShapePop, Popped DEF Shape
    <2>3. Tail(r) = <<>> /\ Head(r).by = "app"
      BY <2>1, <2>2 DEF Over, Formed
    <2>4. FramesOf(r) = {Head(r)}
      <3>1. FramesOf(<<>>) = {}
        BY DEF FramesOf
      <3> QED BY <2>2, <2>3, <3>1
    <2> QED BY <1>1, <2>1, <2>3, <2>4
  <1> QED BY <1>3, <1>4

\* Below a collection lie calls of the application.
LEMMA CollectOnTop ==
  ASSUME NEW s, Shape(s), s # <<>>, Head(s).op = "collect"
  PROVE  \A g \in FramesOf(Tail(s)) : g.by = "app"
  <1>1. PICK r : r = Tail(s)
    OBVIOUS
  <1>2. Shape(r) /\ (r # <<>> => Over(Head(s), Head(r)))
    BY <1>1, ShapePop
  <1>3. CASE r = <<>>
    <2>1. FramesOf(<<>>) = {}
      BY DEF FramesOf
    <2> QED BY <1>1, <1>3, <2>1
  <1>4. CASE r # <<>>
    <2>1. Head(r).by = "app"
      BY <1>2, <1>4 DEF Over
    <2>2. \A g \in FramesOf(Tail(r)) : g.by = "app"
      BY <1>2, <1>4, <2>1, AppOnTop
    <2>3. FramesOf(r) = {Head(r)} \cup FramesOf(Tail(r))
      BY <1>2, <1>4, Popped DEF Shape
    <2> QED BY <1>1, <2>1, <2>2, <2>3
  <1> QED BY <1>3, <1>4

\* A finalizer's close or finish lies on its collection.
LEMMA FinalizerOnTop ==
  ASSUME NEW s, Shape(s), s # <<>>, Head(s).by = "gc", Head(s).op \in {"close", "finish"}
  PROVE  \E c \in FramesOf(Tail(s)) :
           /\ c.op = "collect" /\ \A g \in FramesOf(Tail(s)) : g = c \/ g.by = "app"
           /\ (IF Head(s).op = "close" THEN Wrap(Head(s).on) ELSE Pin(Head(s).on)) \in Done(c)
           /\ c = Head(Tail(s)) /\ Tail(s) # <<>>
  <1>1. PICK f, r : f = Head(s) /\ r = Tail(s)
    OBVIOUS
  <1>2. /\ Shape(r) /\ (r = <<>> => Outermost(f))
        /\ r # <<>> => Over(f, Head(r))
    BY <1>1, ShapePop
  <1>3. r # <<>>
    BY <1>1, <1>2 DEF Outermost
  <1>4. /\ Head(r).op = "collect"
        /\ (IF f.op = "close" THEN Wrap(f.on) ELSE Pin(f.on)) \in Done(Head(r))
    BY <1>1, <1>2, <1>3 DEF Over
  <1>5. FramesOf(r) = {Head(r)} \cup FramesOf(Tail(r))
    BY <1>2, <1>3, Popped DEF Shape
  <1>6. \A g \in FramesOf(Tail(r)) : g.by = "app"
    BY <1>2, <1>3, <1>4, CollectOnTop
  <1> QED BY <1>1, <1>3, <1>4, <1>5, <1>6

\* The close of an object lies on its collection, or on the close of its last
\* endpoint, which lies on one.
LEMMA LifeCloseOnTop ==
  ASSUME NEW s, Shape(s), s # <<>>, Head(s).op = "life_close"
  PROVE  \/ \E c \in FramesOf(Tail(s)) :
              /\ c.op = "collect" /\ Shm \in Done(c)
              /\ \A g \in FramesOf(Tail(s)) : g = c \/ g.by = "app"
         \/ \E c, k \in FramesOf(Tail(s)) :
              /\ c.op = "collect" /\ k.op = "close" /\ k.by = "gc" /\ k.pc = "closed"
              /\ Wrap(k.on) \in Done(c)
              /\ \A g \in FramesOf(Tail(s)) : g = c \/ g = k \/ g.by = "app"
  <1>1. PICK f, r : f = Head(s) /\ r = Tail(s)
    OBVIOUS
  <1>2. /\ Shape(r) /\ (r = <<>> => Outermost(f)) /\ Formed(f)
        /\ r # <<>> => Over(f, Head(r))
    BY <1>1, ShapePop
  <1>3. r # <<>>
    BY <1>1, <1>2 DEF Outermost, Formed
  <1>4. FramesOf(r) = {Head(r)} \cup FramesOf(Tail(r))
    BY <1>2, <1>3, Popped DEF Shape
  <1>5. \/ Head(r).op = "collect" /\ Shm \in Done(Head(r))
        \/ Head(r).op = "close" /\ Head(r).by = "gc" /\ Head(r).pc = "closed"
    BY <1>1, <1>2, <1>3 DEF Over
  <1>6. CASE Head(r).op = "collect" /\ Shm \in Done(Head(r))
    <2>1. \A g \in FramesOf(Tail(r)) : g.by = "app"
      BY <1>2, <1>3, <1>6, CollectOnTop
    <2> QED BY <1>1, <1>4, <1>6, <2>1
  <1>7. CASE Head(r).op = "close" /\ Head(r).by = "gc" /\ Head(r).pc = "closed"
    <2>1. PICK c \in FramesOf(Tail(r)) :
            /\ c.op = "collect" /\ Wrap(Head(r).on) \in Done(c)
            /\ \A g \in FramesOf(Tail(r)) : g = c \/ g.by = "app"
      BY <1>2, <1>3, <1>7, FinalizerOnTop
    <2>2. c \in FramesOf(r) /\ Head(r) \in FramesOf(r)
      BY <1>4
    <2>3. \A g \in FramesOf(r) : g = c \/ g = Head(r) \/ g.by = "app"
      BY <1>4, <2>1
    <2> QED BY <1>1, <1>7, <2>1, <2>2, <2>3
  <1> QED BY <1>5, <1>6, <1>7
-----------------------------------------------------------------------------
(***************************************************************************)
(* The frames of a thread, and how a step changes them.                    *)
(***************************************************************************)

\* The frames below the innermost one.
Below(t)  == FramesOf(Tail(stack[t]))
Others(t) == \A u \in Threads \ {t} : Frames(u)' = Frames(u)

\* What lies below the innermost frame, by its kind.
LEMMA TopFacts ==
  ASSUME TypeOK, Shapes, NEW t \in Threads, ~Resting(t), NEW f, f = Top(t)
  PROVE  /\ f \in FrameSet /\ Formed(f) /\ Frames(t) = {f} \cup Below(t)
         /\ \A g \in Below(t) : /\ g \in FrameSet /\ Formed(g)
                                /\ g.op \notin {"life_close", "finish"}
                                /\ g.op = "collect" => f.by = "gc" /\ f.op # "collect"
                                /\ g.op = "close" /\ g.by = "gc" =>
                                     f.op = "life_close" /\ g.pc = "closed"
                                /\ f.by = "app" => g.op = "close_shm" /\ f.op = "close"
         /\ f.by = "app" => \A g \in Below(t) : f.on \in g.all
         /\ \A c, d \in Below(t) : c.op = "collect" /\ d.op = "collect" => c = d
         /\ f.by = "gc" /\ f.op # "collect" => \E c \in Below(t) : c.op = "collect"
         /\ f.by = "gc" /\ f.op \in {"close", "finish"} =>
              \E c \in Below(t) : /\ c.op = "collect" /\ c = Head(Tail(stack[t])) /\ Tail(stack[t]) # <<>>
                                  /\ IF f.op = "close" THEN Wrap(f.on) \in Done(c)
                                                       ELSE Pin(f.on) \in Done(c)
         /\ f.op = "life_close" =>
              \/ \E c \in Below(t) : c.op = "collect" /\ Shm \in Done(c)
              \/ \E k \in Below(t) : k.op = "close" /\ k.by = "gc" /\ k.pc = "closed"
         /\ f.op = "life_close" =>
              \E c \in Below(t) : /\ c.op = "collect"
                                  /\ \A k \in Below(t) : k.op = "close" /\ k.by = "gc" =>
                                                           Wrap(k.on) \in Done(c)
  <1>1. PICK s, r : s = stack[t] /\ r = Tail(s)
    OBVIOUS
  <1>2. Shape(s) /\ s # <<>> /\ f = Head(s) /\ s \in Seq(FrameSet)
    BY <1>1 DEF Shapes, Resting, Top, Shape
  <1>3. Frames(t) = {f} \cup FramesOf(r) /\ f \in FrameSet /\ Formed(f) /\ Shape(r)
    <2>1. Frames(t) = FramesOf(s)
      BY <1>1 DEF Frames, FramesOf
    <2>2. FramesOf(s) = {f} \cup FramesOf(r)
      BY <1>1, <1>2, Popped
    <2> QED BY <1>1, <1>2, <2>1, <2>2, ShapePop
  <1>4. \A g \in FramesOf(r) : g \in FrameSet /\ Formed(g)
    <2>1. \A i \in 1 .. Len(r) : r[i] \in FrameSet
      BY <1>3, ElementOfSeq DEF Shape
    <2> QED BY <1>3, <2>1 DEF FramesOf, Shape
  <1>5. Below(t) = FramesOf(r)
    BY <1>1 DEF Below
  <1>6. CASE f.by = "app"
    <2>1. \A g \in FramesOf(r) : /\ g.by = "app" /\ g.op = "close_shm" /\ g.pc = "close"
                                 /\ f.op = "close" /\ f.on \in g.all
      BY <1>1, <1>2, <1>6, AppOnTop
    <2>2. f.op # "life_close"
      BY <1>3, <1>6 DEF Formed
    <2> QED BY <1>3, <1>4, <1>5, <1>6, <2>1, <2>2
  <1>7. CASE f.op = "collect"
    <2>1. \A g \in FramesOf(r) : g.by = "app"
      BY <1>1, <1>2, <1>7, CollectOnTop
    <2>2. \A g \in FramesOf(r) : g.op \notin {"life_close", "finish", "collect"} /\ g.by # "gc"
      BY <1>4, <2>1 DEF Formed
    <2>3. f.by = "gc"
      BY <1>3, <1>7 DEF Formed
    <2> QED BY <1>3, <1>4, <1>5, <1>7, <2>2, <2>3
  <1>8. CASE f.by = "gc" /\ f.op \in {"close", "finish"}
    <2>1. PICK c \in FramesOf(r) :
           /\ c.op = "collect" /\ \A g \in FramesOf(r) : g = c \/ g.by = "app"
           /\ (IF f.op = "close" THEN Wrap(f.on) ELSE Pin(f.on)) \in Done(c)
           /\ c = Head(r) /\ r # <<>>
      BY <1>1, <1>2, <1>8, FinalizerOnTop
    <2>2. \A g \in FramesOf(r) : /\ g.op \notin {"life_close", "finish"}
                                 /\ g.op = "collect" => g = c
                                 /\ ~(g.op = "close" /\ g.by = "gc")
      BY <1>4, <2>1 DEF Formed
    <2> QED BY <1>1, <1>3, <1>4, <1>5, <1>8, <2>1, <2>2
  <1>9. CASE f.op = "life_close"
    <2>1. PICK c \in FramesOf(r) :
           /\ c.op = "collect"
           /\ \A g \in FramesOf(r) : \/ g = c \/ g.by = "app"
                                     \/ g.op = "close" /\ g.pc = "closed" /\ Wrap(g.on) \in Done(c)
           /\ \/ Shm \in Done(c)
              \/ \E k \in FramesOf(r) : k.op = "close" /\ k.by = "gc" /\ k.pc = "closed"
      BY <1>1, <1>2, <1>9, LifeCloseOnTop
    <2>2. \A g \in FramesOf(r) : /\ g.op \notin {"life_close", "finish"}
                                 /\ g.op = "collect" => g = c
                                 /\ g.op = "close" /\ g.by = "gc" =>
                                      g.pc = "closed" /\ Wrap(g.on) \in Done(c)
      BY <1>4, <2>1 DEF Formed
    <2>3. f.by = "gc"
      BY <1>3, <1>9 DEF Formed
    <2> QED BY <1>3, <1>4, <1>5, <1>9, <2>1, <2>2, <2>3
  <1>10. f.by = "app" \/ f.op = "collect" \/ (f.by = "gc" /\ f.op \in {"close", "finish"})
         \/ f.op = "life_close"
    BY <1>3 DEF Formed, FrameSet
  <1> QED BY <1>6, <1>7, <1>8, <1>9, <1>10

\* A step of t that gives it another well-shaped stack.
LEMMA Restack ==
  ASSUME TypeOK, Shapes, NEW t \in Threads, NEW s, Shape(s),
         stack' = [stack EXCEPT ![t] = s]
  PROVE  /\ stack' \in [Threads -> Seq(FrameSet)] /\ Shapes'
         /\ Frames(t)' = FramesOf(s) /\ Others(t)
  <1>1. s \in Seq(FrameSet) /\ stack \in [Threads -> Seq(FrameSet)]
    BY DEF Shape, TypeOK
  <1>2. stack'[t] = s /\ \A u \in Threads \ {t} : stack'[u] = stack[u]
    BY <1>1
  <1> QED BY <1>1, <1>2 DEF Shapes, Frames, FramesOf, Others

\* A call returns.
LEMMA ReturnStack ==
  ASSUME TypeOK, Shapes, NEW t \in Threads, ~Resting(t), Return(t)
  PROVE  /\ stack' \in [Threads -> Seq(FrameSet)] /\ Shapes'
         /\ Frames(t)' = Below(t) /\ Others(t)
  <1>1. Shape(stack[t]) /\ stack[t] # <<>>
    BY DEF Shapes, Resting
  <1>2. PICK s : s = Tail(stack[t])
    OBVIOUS
  <1>3. Shape(s) /\ stack' = [stack EXCEPT ![t] = s]
    BY <1>1, <1>2, ShapePop DEF Return
  <1> QED BY <1>2, <1>3, Restack DEF Below

\* The innermost frame is replaced by one that fits in its place.
LEMMA ReplaceStack ==
  ASSUME TypeOK, Shapes, NEW t \in Threads, ~Resting(t), NEW f \in FrameSet, Formed(f),
         Replace(t, f),
         \/ f.op = Top(t).op /\ f.by = Top(t).by /\ f.on = Top(t).on
         \/ Tail(stack[t]) # <<>> /\ Over(f, Head(Tail(stack[t])))
  PROVE  /\ stack' \in [Threads -> Seq(FrameSet)] /\ Shapes'
         /\ Frames(t)' = {f} \cup Below(t) /\ Others(t)
  <1>1. Shape(stack[t]) /\ stack[t] # <<>> /\ Top(t) = Head(stack[t])
    BY DEF Shapes, Resting, Top
  <1>2. PICK r : r = Tail(stack[t])
    OBVIOUS
  <1>3. /\ Shape(r) /\ (r = <<>> => Outermost(f)) /\ (r # <<>> => Over(f, Head(r)))
    BY <1>1, <1>2, ShapePop DEF Outermost, Over
  <1>4. Shape(<<f>> \o r)
    BY <1>3, ShapePush
  <1>5. FramesOf(<<f>> \o r) = {f} \cup FramesOf(r)
    BY <1>3, Pushed DEF Shape
  <1>6. stack' = [stack EXCEPT ![t] = <<f>> \o r]
    BY <1>2 DEF Replace
  <1> QED BY <1>2, <1>4, <1>5, <1>6, Restack DEF Below

\* A frame is put on top of the others.
LEMMA StartStack ==
  ASSUME TypeOK, Shapes, NEW t \in Threads, NEW f \in FrameSet, Formed(f), Start(t, f),
         Resting(t) => Outermost(f), ~Resting(t) => Over(f, Top(t))
  PROVE  /\ stack' \in [Threads -> Seq(FrameSet)] /\ Shapes'
         /\ Frames(t)' = {f} \cup Frames(t) /\ Others(t)
  <1>1. PICK s : s = stack[t]
    OBVIOUS
  <1>2. Shape(s) /\ (s = <<>> => Outermost(f)) /\ (s # <<>> => Over(f, Head(s)))
    BY <1>1 DEF Shapes, Resting, Top
  <1>3. Shape(<<f>> \o s)
    BY <1>2, ShapePush
  <1>4. FramesOf(<<f>> \o s) = {f} \cup FramesOf(s)
    BY <1>2, Pushed DEF Shape
  <1>5. stack' = [stack EXCEPT ![t] = <<f>> \o s]
    BY <1>1 DEF Start
  <1>6. Frames(t) = FramesOf(s)
    BY <1>1 DEF Frames, FramesOf
  <1> QED BY <1>3, <1>4, <1>5, <1>6, Restack

\* The innermost frame goes on in another place and calls one.
LEMMA CallStack ==
  ASSUME TypeOK, Shapes, NEW t \in Threads, ~Resting(t), NEW g \in FrameSet, Formed(g),
         NEW h \in FrameSet, Formed(h), Over(g, h),
         h.op = Top(t).op, h.by = Top(t).by, h.on = Top(t).on,
         Call(t, g, h)
  PROVE  /\ stack' \in [Threads -> Seq(FrameSet)] /\ Shapes'
         /\ Frames(t)' = {g, h} \cup Below(t) /\ Others(t)
  <1>1. Shape(stack[t]) /\ stack[t] # <<>> /\ Top(t) = Head(stack[t])
    BY DEF Shapes, Resting, Top
  <1>2. PICK r : r = Tail(stack[t])
    OBVIOUS
  <1>3. /\ Shape(r) /\ (r = <<>> => Outermost(h)) /\ (r # <<>> => Over(h, Head(r)))
    BY <1>1, <1>2, ShapePop DEF Outermost, Over
  <1>4. PICK s : s = <<h>> \o r
    OBVIOUS
  <1>5. /\ Shape(s) /\ r \in Seq(FrameSet) /\ s \in Seq(FrameSet) /\ s # <<>> /\ Head(s) = h
        /\ FramesOf(s) = {h} \cup FramesOf(r)
    BY <1>3, <1>4, ShapePush, Pushed DEF Shape
  <1>6. Shape(<<g>> \o s) /\ FramesOf(<<g>> \o s) = {g} \cup FramesOf(s)
    BY <1>5, ShapePush, Pushed
  <1>7. <<g, h>> \o r = <<g>> \o s
    <2>1. /\ <<g>> \in Seq(FrameSet) /\ Len(<<g>>) = 1 /\ <<g>>[1] = g
          /\ <<h>> \in Seq(FrameSet) /\ Len(<<h>>) = 1 /\ <<h>>[1] = h
          /\ <<g, h>> \in Seq(FrameSet) /\ Len(<<g, h>>) = 2
          /\ <<g, h>>[1] = g /\ <<g, h>>[2] = h
      OBVIOUS
    <2>2. /\ <<g>> \o <<h>> \in Seq(FrameSet) /\ Len(<<g>> \o <<h>>) = 2
          /\ (<<g>> \o <<h>>)[1] = g /\ (<<g>> \o <<h>>)[2] = h
      BY <2>1, ConcatProperties
    <2>3. <<g>> \o <<h>> = <<g, h>>
      <3>1. \A i \in 1 .. 2 : i = 1 \/ i = 2
        OBVIOUS
      <3> QED BY <2>1, <2>2, <3>1, SeqEqual
    <2> QED BY <1>4, <1>5, <2>1, <2>3, ConcatAssociative
  <1>8. stack' = [stack EXCEPT ![t] = <<g>> \o s]
    BY <1>2, <1>7 DEF Call
  <1>9. FramesOf(<<g>> \o s) = {g, h} \cup FramesOf(r)
    BY <1>5, <1>6
  <1> QED BY <1>2, <1>6, <1>8, <1>9, Restack DEF Below

\* An exception leaves a close, and the close of the manager that called it.
LEMMA RaiseStack ==
  ASSUME TypeOK, Shapes, NEW t \in Threads, ~Resting(t), Raise(t)
  PROVE  /\ stack' \in [Threads -> Seq(FrameSet)] /\ Shapes' /\ Others(t)
         /\ Frames(t)' \subseteq Below(t)
         /\ \A g \in Below(t) : g.op # "close_shm" => g \in Frames(t)'
  <1>1. Shape(stack[t]) /\ stack[t] # <<>>
    BY DEF Shapes, Resting
  <1>2. PICK r : r = Tail(stack[t])
    OBVIOUS
  <1>3. Shape(r)
    BY <1>1, <1>2, ShapePop
  <1>4. CASE r # <<>> /\ Head(r).op = "close_shm"
    <2>1. stack' = [stack EXCEPT ![t] = Tail(r)]
      BY <1>2, <1>4 DEF Raise
    <2>2. Shape(Tail(r)) /\ FramesOf(r) = {Head(r)} \cup FramesOf(Tail(r))
      BY <1>3, <1>4, ShapePop, Popped DEF Shape
    <2>3. /\ stack' \in [Threads -> Seq(FrameSet)] /\ Shapes' /\ Others(t)
          /\ Frames(t)' = FramesOf(Tail(r))
      BY <2>1, <2>2, Restack
    <2>4. Below(t) = FramesOf(r)
      BY <1>2 DEF Below
    <2> QED BY <1>4, <2>2, <2>3, <2>4
  <1>5. CASE ~(r # <<>> /\ Head(r).op = "close_shm")
    <2>1. stack' = [stack EXCEPT ![t] = r]
      BY <1>2, <1>5 DEF Raise
    <2> QED BY <1>2, <1>3, <2>1, Restack DEF Below
  <1> QED BY <1>4, <1>5

\* What a thread is in the middle of, by its innermost frame.
LEMMA Doing ==
  ASSUME TypeOK, Shapes, NEW t \in Threads, ~Resting(t), NEW f, f = Top(t)
  PROVE  /\ App(t) <=> f.by = "app" \/ \E g \in Below(t) : g.by = "app"
         /\ f.by = "app" => App(t) /\ ~Collects(t)
         /\ f.by = "gc" => Collects(t)
         /\ f.op \in {"method", "close"} /\ f.by = "app" => WorksOn(t, f.on)
         /\ f.op = "close_shm" => \A e \in f.all : WorksOn(t, e)
         /\ \A e : Attaching(t, e) /\ f.by = "app" <=>
                     f.op = "grant" /\ f.pc = "attach" /\ f.on = e
         /\ \A e : Finishing(t, e) <=> f.op = "finish" /\ f.on = e
         /\ LifeClosing(t) <=> f.op = "life_close"
         /\ f.op = "close" => \A e, pc : Closing(t, e, f.by, pc) <=> f.on = e /\ f.pc = pc
         /\ \A e, pc : Closing(t, e, "gc", pc) =>
              f.by = "gc" /\ (f.op = "close" \/ (f.op = "life_close" /\ pc = "closed"))
         /\ \A l \in f.locks : Has(t, l)
         /\ f.op = "collect" => \A o : /\ InBatch(t, o) <=> o \in f.all
                                       /\ Finalized(t, o) <=> o \in Done(f)
         /\ f.op = "finish" => Finalized(t, Pin(f.on))
         /\ f.op = "close" /\ f.by = "gc" => Finalized(t, Wrap(f.on))
         /\ f.op = "life_close" =>
              \/ Finalized(t, Shm)
              \/ \E e \in Locals : Closing(t, e, "gc", "closed") /\ Finalized(t, Wrap(e))
  <1>1. PICK B : B = Below(t)
    OBVIOUS
  <1>2. /\ f \in FrameSet /\ Formed(f) /\ Frames(t) = {f} \cup B
        /\ \A g \in B : /\ g \in FrameSet /\ Formed(g)
                        /\ g.op \notin {"life_close", "finish"}
                        /\ g.op = "collect" => f.by = "gc" /\ f.op # "collect"
                        /\ g.op = "close" /\ g.by = "gc" => f.op = "life_close" /\ g.pc = "closed"
                        /\ f.by = "app" => g.op = "close_shm" /\ f.op = "close"
        /\ \A c, d \in B : c.op = "collect" /\ d.op = "collect" => c = d
    BY <1>1, TopFacts
  <1>3. f.by = "gc" /\ f.op # "collect" => \E c \in B : c.op = "collect"
    BY <1>1, TopFacts
  <1>4. /\ f.op = "collect" => f.by = "gc"
        /\ f.op \in {"close_shm", "method", "grant"} => f.by = "app"
        /\ f.op \in {"finish", "life_close"} => f.by = "gc"
        /\ f.by \in {"app", "gc"}
    BY <1>2 DEF Formed, FrameSet
  <1>5. App(t) <=> f.by = "app" \/ \E g \in B : g.by = "app"
    BY <1>2 DEF App
  <1>6. f.by = "app" => App(t) /\ ~Collects(t)
    BY <1>2, <1>4 DEF App, Collects, Batches
  <1>7. f.by = "gc" => Collects(t)
    BY <1>2, <1>3 DEF Collects, Batches
  <1>8. /\ f.op \in {"method", "close"} /\ f.by = "app" => WorksOn(t, f.on)
        /\ f.op = "close_shm" => \A e \in f.all : WorksOn(t, e)
    BY <1>2, <1>4 DEF WorksOn, Works
  <1>9. \A e : Attaching(t, e) /\ f.by = "app" <=> f.op = "grant" /\ f.pc = "attach" /\ f.on = e
    BY <1>2, <1>4 DEF Attaching
  <1>10. /\ \A e : Finishing(t, e) <=> f.op = "finish" /\ f.on = e
         /\ LifeClosing(t) <=> f.op = "life_close"
    BY <1>2 DEF Finishing, LifeClosing
  <1>11. f.op = "close" => \A e, pc : Closing(t, e, f.by, pc) <=> f.on = e /\ f.pc = pc
    <2>1. \A g \in B : f.op = "close" => ~(g.op = "close" /\ g.by = f.by)
      BY <1>2, <1>4
    <2> QED BY <1>2, <2>1 DEF Closing
  <1>12. \A e, pc : Closing(t, e, "gc", pc) =>
           f.by = "gc" /\ (f.op = "close" \/ (f.op = "life_close" /\ pc = "closed"))
    BY <1>2, <1>4 DEF Closing
  <1>13. \A l \in f.locks : Has(t, l)
    BY <1>2 DEF Has
  <1>14. f.op = "collect" => \A o : /\ InBatch(t, o) <=> o \in f.all
                                    /\ Finalized(t, o) <=> o \in Done(f)
    <2>1. f.op = "collect" => Batches(t) = {f}
      BY <1>2 DEF Batches
    <2> QED BY <2>1 DEF InBatch, Finalized
  <1>15. ASSUME f.by = "gc", f.op \in {"close", "finish"}
         PROVE  IF f.op = "close" THEN Finalized(t, Wrap(f.on)) ELSE Finalized(t, Pin(f.on))
    <2>1. PICK c \in B : /\ c.op = "collect"
                         /\ IF f.op = "close" THEN Wrap(f.on) \in Done(c)
                                              ELSE Pin(f.on) \in Done(c)
      BY <1>1, <1>15, TopFacts
    <2> QED BY <1>2, <2>1 DEF Finalized, Batches
  <1>16. ASSUME f.op = "life_close"
         PROVE  \/ Finalized(t, Shm)
                \/ \E e \in Locals : Closing(t, e, "gc", "closed") /\ Finalized(t, Wrap(e))
    <2>1. \/ \E c \in B : c.op = "collect" /\ Shm \in Done(c)
          \/ \E k \in B : k.op = "close" /\ k.by = "gc" /\ k.pc = "closed"
      BY <1>1, <1>16, TopFacts
    <2>2. \E c \in B : /\ c.op = "collect"
                       /\ \A k \in B : k.op = "close" /\ k.by = "gc" => Wrap(k.on) \in Done(c)
      BY <1>1, <1>16, TopFacts
    <2>3. ASSUME NEW c \in B, c.op = "collect", Shm \in Done(c) PROVE Finalized(t, Shm)
      BY <1>2, <2>3 DEF Finalized, Batches
    <2>4. ASSUME NEW k \in B, k.op = "close", k.by = "gc", k.pc = "closed"
          PROVE  \E e \in Locals : Closing(t, e, "gc", "closed") /\ Finalized(t, Wrap(e))
      <3>1. k.on \in Locals
        BY <1>2, <2>4 DEF Formed
      <3>2. Closing(t, k.on, "gc", "closed")
        BY <1>2, <2>4 DEF Closing
      <3>3. Finalized(t, Wrap(k.on))
        BY <1>2, <2>2, <2>4 DEF Finalized, Batches
      <3> QED BY <3>1, <3>2, <3>3
    <2> QED BY <2>1, <2>3, <2>4
  <1> QED BY <1>1, <1>4, <1>5, <1>6, <1>7, <1>8, <1>9, <1>10, <1>11, <1>12, <1>13, <1>14, <1>15, <1>16
-----------------------------------------------------------------------------
(***************************************************************************)
(* What follows from the invariant at one moment.                          *)
(***************************************************************************)

\* What a finalizer works on is what it has finalized, and what a call of the
\* application works on is in service.
LEMMA Finalizers ==
  ASSUME TypeOK, Shapes, NEW t \in Threads
  PROVE  /\ \A o : Finalized(t, o) => InBatch(t, o)
         /\ \A e : Finishing(t, e) => Finalized(t, Pin(e))
         /\ \A e, pc : Closing(t, e, "gc", pc) => Finalized(t, Wrap(e))
         /\ LifeClosing(t) => \/ Finalized(t, Shm)
                              \/ \E e \in Locals : Finalized(t, Wrap(e))
         /\ \A e : Attaching(t, e) => App(t)
         /\ \A e, pc : Closing(t, e, "app", pc) => App(t) /\ WorksOn(t, e)
         /\ \A e, x, pc : Finishing(t, e) \/ (LifeClosing(t) /\ pc # "closed") =>
              ~Closing(t, x, "gc", pc)
  <1>1. \A o : Finalized(t, o) => InBatch(t, o)
    BY DEF Finalized, InBatch, Done
  <1>2. CASE Resting(t)
    <2>1. Frames(t) = {}
      <3>1. stack[t] = <<>> /\ Len(<<>>) = 0
        BY <1>2 DEF Resting
      <3> QED BY <3>1 DEF Frames
    <2> QED BY <1>1, <2>1 DEF Finishing, Closing, LifeClosing, Attaching
  <1>3. CASE ~Resting(t)
    <2>1. PICK f, B : f = Top(t) /\ B = Below(t)
      OBVIOUS
    <2>2. /\ f \in FrameSet /\ Formed(f) /\ Frames(t) = {f} \cup B
          /\ \A g \in B : /\ Formed(g)
                          /\ g.op = "close" /\ g.by = "gc" => f.op = "life_close" /\ g.pc = "closed"
      BY <1>3, <2>1, TopFacts
    <2>3. /\ \A e : Finishing(t, e) <=> f.op = "finish" /\ f.on = e
          /\ LifeClosing(t) <=> f.op = "life_close"
          /\ f.op = "finish" => Finalized(t, Pin(f.on))
          /\ f.op = "close" /\ f.by = "gc" => Finalized(t, Wrap(f.on))
          /\ f.op = "life_close" =>
               \/ Finalized(t, Shm)
               \/ \E e \in Locals : Closing(t, e, "gc", "closed") /\ Finalized(t, Wrap(e))
          /\ \A e, pc : Closing(t, e, "gc", pc) =>
               f.by = "gc" /\ (f.op = "close" \/ (f.op = "life_close" /\ pc = "closed"))
          /\ f.op = "close" => \A e, pc : Closing(t, e, f.by, pc) <=> f.on = e /\ f.pc = pc
      BY <1>3, <2>1, Doing
    <2>4. f.op = "life_close" =>
            \E c \in B : /\ c.op = "collect"
                         /\ \A k \in B : k.op = "close" /\ k.by = "gc" => Wrap(k.on) \in Done(c)
      BY <1>3, <2>1, TopFacts
    <2>5. ASSUME NEW e, NEW pc, Closing(t, e, "gc", pc) PROVE Finalized(t, Wrap(e))
      <3>1. CASE f.op = "close"
        BY <2>3, <2>5, <3>1
      <3>2. CASE f.op = "life_close"
        <4>1. PICK k \in B : k.op = "close" /\ k.on = e /\ k.by = "gc"
          BY <2>2, <2>5, <3>2 DEF Closing
        <4>2. PICK c \in B : c.op = "collect" /\ Wrap(e) \in Done(c)
          BY <2>4, <3>2, <4>1
        <4> QED BY <2>2, <4>2 DEF Finalized, Batches
      <3> QED BY <2>3, <2>5, <3>1, <3>2
    <2>6. \A e : Attaching(t, e) => App(t)
      BY <2>2 DEF Attaching, App, Formed
    <2>7. \A e, pc : Closing(t, e, "app", pc) => App(t) /\ WorksOn(t, e)
      BY DEF Closing, App, WorksOn, Works
    <2>8. \A e, x, pc : Finishing(t, e) \/ (LifeClosing(t) /\ pc # "closed") =>
            ~Closing(t, x, "gc", pc)
      BY <2>3
    <2> QED BY <1>1, <2>3, <2>5, <2>6, <2>7, <2>8
  <1> QED BY <1>2, <1>3

\* Whatever something live refers to is live.
LEMMA Upward ==
  ASSUME TypeOK, Garbage, NEW o \in Objects, NEW r \in Referrers(o), ref[r] = "live"
  PROVE  ref[o] = "live"
  <1>1. r \in Objects
    BY Names
  <1>2. Alive(o) /\ \A t \in Threads : InBatch(t, o) => InBatch(t, r)
    BY DEF Garbage, Alive
  <1>3. ref[o] # "dying"
    BY <1>1, <1>2 DEF Garbage
  <1> QED BY <1>2, <1>3 DEF Alive

\* Nothing is finalized that the application works on, nor the manager while it
\* is in any call.
LEMMA Untouched ==
  ASSUME TypeOK, InService, Garbage, NEW t \in Threads
  PROVE  /\ App(t) => \A u \in Threads : ~InBatch(u, Shm)
         /\ \A e \in Locals : WorksOn(t, e) => \A u \in Threads : ~InBatch(u, Wrap(e))
  BY Names DEF InService, Garbage

\* A wrapper is finalized with its lease, and the manager with every wrapper, by
\* the same collection.
LEMMA Together ==
  ASSUME TypeOK, Garbage, NEW t \in Threads, NEW u \in Threads, NEW e \in Locals
  PROVE  /\ InBatch(t, Wrap(e)) /\ InBatch(u, Pin(e)) => t = u
         /\ InBatch(t, Shm) /\ InBatch(u, Wrap(e)) => t = u
         /\ InBatch(u, Pin(e)) => Alive(Wrap(e))
         /\ InBatch(u, Wrap(e)) => Alive(Shm)
  BY Names DEF Garbage, Alive

\* While the manager's last request is met nobody is in any call of the
\* application, and nobody else meets it.
LEMMA Alone ==
  ASSUME IInv, NEW t \in Threads, LifeClosing(t)
  PROVE  /\ object.closeRequested /\ \A u \in Threads : ~App(u)
         /\ \A u \in Threads : LifeClosing(u) => u = t
         /\ \A u \in Threads, e \in Locals : InBatch(u, Wrap(e)) => u = t
  <1> USE DEF IInv
  <1>1. object.closeRequested
    BY DEF Pursued, Closable
  <1>2. ref[Shm] # "live"
    BY <1>1, Finalizers, Names DEF Requested, Garbage
  <1>3. \A u \in Threads : ~App(u)
    BY <1>2 DEF InService
  <1>4. ASSUME NEW u \in Threads, NEW e \in Locals, InBatch(u, Wrap(e))
        PROVE  \A v \in Threads, x \in Locals : InBatch(v, Wrap(x)) => u = v
    <2>1. Alive(Shm)
      BY <1>4, Together
    <2>2. PICK w \in Threads : InBatch(w, Shm)
      BY <1>2, <2>1, Names DEF Garbage, Alive
    <2> QED BY <1>4, <2>2, Together
  <1>5. \A u \in Threads : LifeClosing(u) =>
          InBatch(u, Shm) \/ \E e \in Locals : InBatch(u, Wrap(e))
    BY Finalizers
  <1>6. \A u \in Threads : LifeClosing(u) => u = t
    BY <1>4, <1>5, Together, Names DEF Garbage
  <1>7. ASSUME NEW u \in Threads, NEW e \in Locals, InBatch(u, Wrap(e)) PROVE u = t
    BY <1>4, <1>5, <1>7, Together
  <1> QED BY <1>1, <1>3, <1>6, <1>7
-----------------------------------------------------------------------------
(***************************************************************************)
(* Steps that leave the collections, the calls in progress, or both alone. *)
(***************************************************************************)
SameBatches ==
  \A u \in Threads :
    /\ Collects(u)' <=> Collects(u)
    /\ \A o : (InBatch(u, o)' <=> InBatch(u, o)) /\ (Finalized(u, o)' <=> Finalized(u, o))

SameCalls ==
  \A u \in Threads :
    /\ LifeClosing(u)' <=> LifeClosing(u)
    /\ \A e : (Attaching(u, e)' <=> Attaching(u, e)) /\ (Finishing(u, e)' <=> Finishing(u, e))
    /\ \A e, pc : Closing(u, e, "gc", pc)' <=> Closing(u, e, "gc", pc)
    /\ \A e, by, pc : pc # "enter" => (Closing(u, e, by, pc)' <=> Closing(u, e, by, pc))

\* A frame whose coming and going changes neither.
Plain(g) ==
  /\ g.by = "app" /\ g.op \notin {"collect", "finish", "life_close"}
  /\ ~(g.op = "grant" /\ g.pc = "attach") /\ ~(g.op = "close" /\ g.pc # "enter")

\* A step of a thread that touches no collection of its own leaves every batch alone.
LEMMA CalmBatches ==
  ASSUME NEW t \in Threads, Others(t), NEW B, NEW X, NEW Y,
         Frames(t) = X \cup B, Frames(t)' = Y \cup B,
         \A g \in X \cup Y : g.op # "collect"
  PROVE  SameBatches
  <1>1. \A u \in Threads : Batches(u)' = Batches(u)
    <2>1. Batches(t)' = Batches(t)
      BY DEF Batches
    <2>2. \A u \in Threads \ {t} : Batches(u)' = Batches(u)
      BY DEF Batches, Others
    <2> QED BY <2>1, <2>2
  <1> QED BY <1>1 DEF SameBatches, Collects, InBatch, Finalized

\* A step of a thread between plain frames also leaves alone what calls are in progress.
LEMMA Calm ==
  ASSUME NEW t \in Threads, Others(t), NEW B, NEW X, NEW Y,
         Frames(t) = X \cup B, Frames(t)' = Y \cup B,
         \A g \in X \cup Y : Plain(g)
  PROVE  SameBatches /\ SameCalls
  <1>1. SameBatches
    BY CalmBatches DEF Plain
  <1>2. \A u \in Threads \ {t} : Frames(u)' = Frames(u)
    BY DEF Others
  <1>3. ASSUME NEW u \in Threads PROVE LifeClosing(u)' <=> LifeClosing(u)
    BY <1>2 DEF LifeClosing, Plain
  <1>4. ASSUME NEW u \in Threads, NEW e PROVE Attaching(u, e)' <=> Attaching(u, e)
    BY <1>2 DEF Attaching, Plain
  <1>5. ASSUME NEW u \in Threads, NEW e PROVE Finishing(u, e)' <=> Finishing(u, e)
    BY <1>2 DEF Finishing, Plain
  <1>6. ASSUME NEW u \in Threads, NEW e, NEW by, NEW pc, by = "gc" \/ pc # "enter"
        PROVE  Closing(u, e, by, pc)' <=> Closing(u, e, by, pc)
    BY <1>2, <1>6 DEF Closing, Plain
  <1> QED BY <1>1, <1>3, <1>4, <1>5, <1>6 DEF SameCalls

\* One thread takes locks that are free, and no second collection lies over a call.
LEMMA KeepMutex ==
  ASSUME Mutex, NEW t \in Threads, Others(t),
         \A l \in Locks : Has(t, l)' => Has(t, l) \/ Free(t, l),
         App(t)' /\ Collects(t)' =>
           \/ App(t) /\ Collects(t)
           \/ \A u \in Threads \ {t} : ~(App(u) /\ Collects(u))
  PROVE  Mutex'
  <1>1. \A u \in Threads \ {t} : /\ \A l : Has(u, l)' <=> Has(u, l)
                                 /\ App(u)' <=> App(u)
                                 /\ Collects(u)' <=> Collects(u)
    BY DEF Others, Has, App, Collects, Batches
  <1>2. ASSUME NEW u \in Threads, NEW v \in Threads, NEW l \in Locks, Has(u, l)', Has(v, l)'
        PROVE  u = v
    <2>1. ASSUME NEW w \in Threads \ {t}, Has(w, l), Has(t, l)' PROVE FALSE
      BY <2>1 DEF Mutex, Free
    <2> QED BY <1>1, <1>2, <2>1 DEF Mutex
  <1>3. ASSUME NEW u \in Threads, NEW v \in Threads, (App(u) /\ Collects(u))', (App(v) /\ Collects(v))'
        PROVE  u = v
    <2>1. ASSUME NEW w \in Threads \ {t}, App(w) /\ Collects(w), (App(t) /\ Collects(t))' PROVE FALSE
      BY <2>1 DEF Mutex
    <2> QED BY <1>1, <1>3, <2>1 DEF Mutex
  <1> QED BY <1>2, <1>3 DEF Mutex

\* What the application refers to, or newly works on, is live, and stays it.
LEMMA KeepInService ==
  ASSUME InService, NEW t \in Threads, Others(t),
         \A o \in held' : ref'[o] = "live",
         \A u \in Threads : App(u) => ref'[Shm] = "live",
         \A u \in Threads, e \in Locals : WorksOn(u, e) => ref'[Wrap(e)] = "live",
         App(t)' => App(t) \/ ref'[Shm] = "live",
         \A e \in Locals : WorksOn(t, e)' => WorksOn(t, e) \/ ref'[Wrap(e)] = "live"
  PROVE  InService'
  <1>1. \A u \in Threads \ {t} : /\ App(u)' <=> App(u)
                                 /\ \A e : WorksOn(u, e)' <=> WorksOn(u, e)
    BY DEF Others, App, WorksOn
  <1>2. \A u \in Threads : App(u)' => ref'[Shm] = "live"
    BY <1>1
  <1>3. \A u \in Threads, e \in Locals : WorksOn(u, e)' => ref'[Wrap(e)] = "live"
    BY <1>1
  <1> QED BY <1>2, <1>3, Names DEF InService, Shm, Wrap

\* While no batch and no object changes, garbage stays garbage.
LEMMA KeepGarbage ==
  ASSUME Garbage, SameBatches, ref' = ref
  PROVE  Garbage'
  <1>1. \A u \in Threads, o \in Objects : InBatch(u, o)' <=> InBatch(u, o)
    BY DEF SameBatches
  <1>2. \A o \in Objects : Referrers(o) \subseteq Objects
    BY Referring
  <1>3. \A o \in Objects : \A r \in Referrers(o) : Alive(r)' =>
          Alive(o)' /\ \A u \in Threads : InBatch(u, o)' => InBatch(u, r)'
    BY <1>1, <1>2 DEF Garbage, Alive
  <1>4. /\ \A u \in Threads, o \in Objects : InBatch(u, o)' => ref'[o] = "dying"
        /\ \A u, v \in Threads, o \in Objects : InBatch(u, o)' /\ InBatch(v, o)' => u = v
        /\ \A o \in Objects : ref'[o] = "dying" => \E u \in Threads : InBatch(u, o)'
    BY <1>1 DEF Garbage
  <1> QED BY <1>3, <1>4 DEF Garbage, Referrers, Objects, Shm, Wrap, Pin

\* What the remaining parts say of frames they say of collections and of calls
\* in progress.
LEMMA KeepInformed ==
  ASSUME Informed, SameCalls, \A e \in Locals : endpoint'[e] = endpoint[e]
  PROVE  Informed'
  <1>1. \A u \in Threads, e \in Locals :
          /\ Attaching(u, e)' => endpoint'[e].holder = "issued" /\ endpoint'[e].conn = "none"
          /\ Finishing(u, e)' => endpoint'[e].leased
          /\ Closing(u, e, "gc", "enter")' => ~endpoint'[e].leased
    BY DEF Informed, SameCalls
  <1>2. \A u \in Threads, e \in Locals : \A by \in {"app", "gc"} :
          /\ \A pc \in {"ack", "acking", "closed"} :
               Closing(u, e, by, pc)' => endpoint'[e].conn = "gone"
          /\ Closing(u, e, by, "closed")' => endpoint'[e].holder # "issued"
    BY DEF Informed, SameCalls
  <1>3. \A u, v \in Threads, e \in Locals : Attaching(u, e)' /\ Attaching(v, e)' => u = v
    BY DEF Informed, SameCalls
  <1> QED BY <1>1, <1>2, <1>3 DEF Informed

\* While no connection, lease or call changes and no holder is issued, whoever
\* attended an endpoint still does.
LEMMA KeepAttended ==
  ASSUME Attended, SameBatches, SameCalls, ref' = ref, interrupts' = interrupts,
         \A e \in Locals : /\ endpoint'[e].conn = endpoint[e].conn
                           /\ endpoint'[e].leased = endpoint[e].leased
                           /\ endpoint'[e].holder = "issued" => endpoint[e].holder = "issued"
  PROVE  Attended'
  <1> SUFFICES ASSUME NEW e \in Locals
      PROVE /\ endpoint'[e].conn = "none" /\ endpoint'[e].holder = "issued" =>
                 \E u \in Threads : Attaching(u, e)'
            /\ endpoint'[e].conn = "gone" /\ endpoint'[e].holder = "issued" /\ interrupts' = 0 =>
                 \E u \in Threads : \E by \in {"app", "gc"}, pc \in {"ack", "acking"} :
                   Closing(u, e, by, pc)'
            /\ endpoint'[e].leased =>
                 \/ ref'[Pin(e)] = "live"
                 \/ \E u \in Threads : /\ InBatch(u, Pin(e))'
                                       /\ Finalized(u, Pin(e))' => Finishing(u, e)'
    BY DEF Attended, Pin
  <1>1. endpoint[e].conn = "none" /\ endpoint[e].holder = "issued" =>
          \E u \in Threads : Attaching(u, e)'
    BY DEF Attended, SameCalls
  <1>2. endpoint[e].conn = "gone" /\ endpoint[e].holder = "issued" /\ interrupts = 0 =>
          \E u \in Threads : \E by \in {"app", "gc"}, pc \in {"ack", "acking"} :
            Closing(u, e, by, pc)'
    BY DEF Attended, SameCalls
  <1>3. endpoint[e].leased =>
          \/ ref[Pin(e)] = "live"
          \/ \E u \in Threads : /\ InBatch(u, Pin(e))'
                                /\ Finalized(u, Pin(e))' => Finishing(u, e)'
    <2>1. CASE endpoint[e].leased /\ ref[Pin(e)] # "live"
      <3>1. PICK u \in Threads : InBatch(u, Pin(e)) /\ (Finalized(u, Pin(e)) => Finishing(u, e))
        BY <2>1 DEF Attended
      <3>2. InBatch(u, Pin(e))' /\ (Finalized(u, Pin(e))' => Finishing(u, e)')
        BY <3>1 DEF SameBatches, SameCalls
      <3> QED BY <3>2
    <2> QED BY <2>1
  <1> QED BY <1>1, <1>2, <1>3

\* While no batch changes, no request to close is lost.
LEMMA KeepRequested ==
  ASSUME Requested, SameBatches, ref' = ref, object'.closeRequested = object.closeRequested,
         \A e \in Locals : endpoint'[e].closeRequested = endpoint[e].closeRequested
  PROVE  Requested'
  <1>1. \A e \in Locals : endpoint'[e].closeRequested =>
          ref'[Wrap(e)] = "dead" \/ \E u \in Threads : Finalized(u, Wrap(e))'
    BY DEF Requested, SameBatches
  <1>2. object'.closeRequested => ref'[Shm] = "dead" \/ \E u \in Threads : Finalized(u, Shm)'
    BY DEF Requested, SameBatches
  <1>3. \A u \in Threads : /\ \A e \in Locals : Finalized(u, Wrap(e))' => endpoint'[e].closeRequested
                           /\ Finalized(u, Shm)' => object'.closeRequested
    BY DEF Requested, SameBatches
  <1> QED BY <1>1, <1>2, <1>3 DEF Requested, Wrap, Shm

\* While no connection and no call changes, what pursued a request still does.
LEMMA KeepPursued ==
  ASSUME Pursued, SameBatches, SameCalls, ref' = ref, failed' = failed,
         object'.alive = object.alive, object'.closeRequested = object.closeRequested,
         \A e \in Locals : /\ endpoint'[e].conn = endpoint[e].conn
                           /\ endpoint'[e].leased = endpoint[e].leased
  PROVE  Pursued'
  <1>1. /\ \A e \in Locals : Connected(e)' <=> Connected(e)
        /\ Connections' = {} <=> Connections = {}
    BY DEF Connected, Connections
  <1>2. \A e \in Locals : Connected(e)' /\ Wrap(e) \notin failed' =>
          /\ ref'[Wrap(e)] # "dead"
          /\ \A u \in Threads : Finalized(u, Wrap(e))' =>
               endpoint'[e].leased \/ Closing(u, e, "gc", "enter")'
    BY <1>1 DEF Pursued, SameBatches, SameCalls
  <1>3. Outstanding' <=> Outstanding
    BY <1>1 DEF Outstanding, Shm, Wrap
  <1>4. object'.alive /\ ~Outstanding' =>
          /\ ref'[Shm] # "dead"
          /\ \A u \in Threads : Finalized(u, Shm)' =>
               \/ LifeClosing(u)'
               \/ \E e \in Locals, pc \in {"ack", "acking"} : Closing(u, e, "gc", pc)'
    BY <1>3 DEF Pursued, SameBatches, SameCalls
  <1>5. ref'[Shm] # "none" /\ \A u \in Threads : LifeClosing(u)' => Closable'
    BY <1>1 DEF Pursued, SameCalls, Closable
  <1> QED BY <1>2, <1>4, <1>5 DEF Pursued, Wrap, Shm

\* A step that changes no more than who runs, what is held and whether the
\* generation still grants.
LEMMA Quiet ==
  ASSUME IInv, TypeOK', Shapes', Mutex', InService', SameBatches, SameCalls,
         endpoint' = endpoint, ref' = ref, failed' = failed, interrupts' = interrupts,
         child' = "running" => child = "running",
         object'.alive = object.alive, object'.closeRequested = object.closeRequested
  PROVE  IInv'
  <1>1. Garbage' /\ Informed' /\ Attended' /\ Requested' /\ Pursued'
    BY KeepGarbage, KeepInformed, KeepAttended, KeepRequested, KeepPursued DEF IInv
  <1>2. Statuses'
    <2>1. \A e \in Endpoints : Connected(e)' <=> Connected(e)
      BY DEF Connected
    <2> QED BY <2>1 DEF IInv, Statuses, Wrap
  <1>3. HealthyNeverRetained'
    BY DEF IInv, HealthyNeverRetained
  <1> QED BY <1>1, <1>2, <1>3 DEF IInv
-----------------------------------------------------------------------------
(***************************************************************************)
(* Steps of one thread within its calls of the application.                *)
(***************************************************************************)

\* The thread enters no new call and works on nothing new; it takes locks that
\* are free.
Lessens(t) ==
  /\ Others(t)
  /\ App(t)' => App(t)
  /\ \A e : WorksOn(t, e)' => WorksOn(t, e)
  /\ \A l : Has(t, l)' => Has(t, l) \/ Free(t, l)

\* A frame that gives its thread nothing new to do.
Continuing(t, g) ==
  /\ g.by = "app" => \E f \in Frames(t) : f.by = "app" /\ \A e : Works(g, e) => Works(f, e)
  /\ \A l \in g.locks : Has(t, l) \/ Free(t, l)

\* A thread whose frames only go on or return works on nothing new.
LEMMA Lesser ==
  ASSUME NEW t \in Threads, Others(t), NEW F, F = Frames(t)',
         \A g \in F : g \in Frames(t) \/ Continuing(t, g)
  PROVE  Lessens(t)
  <1>1. App(t)' => App(t)
    BY DEF App, Continuing
  <1>2. ASSUME NEW e, WorksOn(t, e)' PROVE WorksOn(t, e)
    <2>1. PICK g \in F : Works(g, e)
      BY <1>2 DEF WorksOn, Works
    <2>2. g.by = "app"
      BY <2>1 DEF Works
    <2>3. \E f \in Frames(t) : Works(f, e)
      BY <2>1, <2>2 DEF Continuing
    <2> QED BY <2>3 DEF WorksOn
  <1>3. \A l : Has(t, l)' => Has(t, l) \/ Free(t, l)
    BY DEF Has, Continuing
  <1> QED BY <1>1, <1>2, <1>3 DEF Lessens

\* A step that only lessens what its thread does keeps everything in service.
LEMMA KeepService ==
  ASSUME Mutex, InService, NEW t \in Threads, Lessens(t), SameBatches, ref' = ref, held' \subseteq held
  PROVE  Mutex' /\ InService'
  <1>1. Mutex'
    BY KeepMutex DEF Lessens, SameBatches
  <1>2. InService'
    BY KeepInService, Names DEF Lessens, InService
  <1> QED BY <1>1, <1>2

\* A call of the application returns.
LEMMA Returned ==
  ASSUME IInv, NEW t \in Threads, ~Resting(t), Plain(Top(t)), Return(t)
  PROVE  /\ stack' \in [Threads -> Seq(FrameSet)] /\ Shapes'
         /\ Lessens(t) /\ SameBatches /\ SameCalls
  <1>1. PICK f, B : f = Top(t) /\ B = Below(t)
    OBVIOUS
  <1>2. Frames(t) = {f} \cup B
    BY <1>1, TopFacts DEF IInv
  <1>3. /\ stack' \in [Threads -> Seq(FrameSet)] /\ Shapes'
        /\ Frames(t)' = B /\ Others(t)
    BY <1>1, ReturnStack DEF IInv
  <1>4. PICK Y : Y = {}
    OBVIOUS
  <1>5. /\ Frames(t)' = Y \cup B /\ Plain(f) /\ \A g \in {f} \cup Y : Plain(g)
        /\ Frames(t)' \subseteq Y \cup B
    BY <1>1, <1>3, <1>4
  <1>6. SameBatches /\ SameCalls
    BY <1>2, <1>3, <1>5, Calm
  <1>7. Lessens(t)
    BY <1>2, <1>3, Lesser
  <1> QED BY <1>3, <1>6, <1>7

\* A call of the application goes on.
LEMMA Moved ==
  ASSUME IInv, NEW t \in Threads, ~Resting(t), NEW g \in FrameSet, Formed(g), Replace(t, g),
         g.op = Top(t).op, g.by = Top(t).by, g.on = Top(t).on, g.all = Top(t).all,
         \A l \in g.locks : l \in Top(t).locks \/ Free(t, l)
  PROVE  /\ stack' \in [Threads -> Seq(FrameSet)] /\ Shapes' /\ Lessens(t)
         /\ Plain(Top(t)) /\ Plain(g) => SameBatches /\ SameCalls
         /\ g.op # "collect" => SameBatches
  <1>1. PICK f, B, X, Y : f = Top(t) /\ B = Below(t) /\ X = {f} /\ Y = {g}
    OBVIOUS
  <1>2. Frames(t) = X \cup B
    BY <1>1, TopFacts DEF IInv
  <1>3. /\ stack' \in [Threads -> Seq(FrameSet)] /\ Shapes'
        /\ Frames(t)' = Y \cup B /\ Others(t)
    BY <1>1, ReplaceStack DEF IInv
  <1>4. \A h \in X \cup Y : h = f \/ h = g
    BY <1>1
  <1>5. Plain(f) /\ Plain(g) => SameBatches /\ SameCalls
    <2>1. Plain(f) /\ Plain(g) => \A h \in X \cup Y : Plain(h)
      BY <1>4
    <2> QED BY <1>2, <1>3, <2>1, Calm
  <1>6. g.op # "collect" => SameBatches
    <2> SUFFICES ASSUME g.op # "collect" PROVE SameBatches
      OBVIOUS
    <2>1. \A h \in X \cup Y : h.op # "collect"
      BY <1>1, <1>4
    <2>2. Others(t) /\ Frames(t)' = Y \cup B
      BY <1>3
    <2> QED BY <1>2, <2>1, <2>2, CalmBatches, ZenonT(30)
  <1>7. Lessens(t)
    <2>1. f \in Frames(t) /\ \A l \in f.locks : Has(t, l)
      BY <1>1, <1>2 DEF Has
    <2>2. Continuing(t, g)
      BY <1>1, <2>1 DEF Works, Continuing
    <2>3. \A h \in Y \cup B : h \in Frames(t) \/ Continuing(t, h)
      BY <1>1, <1>2, <2>2
    <2> QED BY <1>3, <2>3, Lesser
  <1> QED BY <1>1, <1>3, <1>5, <1>6, <1>7

\* A resting thread begins a call of the application.
LEMMA Begun ==
  ASSUME IInv, NEW t \in Threads, Resting(t), NEW g \in FrameSet, Formed(g), Plain(g),
         Start(t, g), \A l \in g.locks : Free(t, l),
         ref[Shm] = "live", \A e \in Locals : Works(g, e) => ref[Wrap(e)] = "live",
         UNCHANGED <<object, endpoint, ref, held, child, failed, interrupts>>
  PROVE  IInv'
  <1>1. /\ stack' \in [Threads -> Seq(FrameSet)] /\ Shapes'
        /\ Frames(t)' = {g} \cup Frames(t) /\ Others(t)
    BY StartStack DEF IInv, Outermost, Plain
  <1>2. Frames(t) = {}
    <2>1. stack[t] = <<>> /\ Len(<<>>) = 0
      BY DEF Resting
    <2> QED BY <2>1 DEF Frames
  <1>3. PICK B, X, Y : B = {} /\ X = {} /\ Y = {g}
    OBVIOUS
  <1>4. Frames(t) = X \cup B /\ Frames(t)' = Y \cup B /\ \A h \in X \cup Y : Plain(h)
    BY <1>1, <1>2, <1>3
  <1>5. SameBatches /\ SameCalls
    BY <1>1, <1>4, Calm
  <1>6. /\ App(t)' /\ ~Collects(t)' /\ ~App(t)
        /\ \A e : WorksOn(t, e)' => Works(g, e)
        /\ \A l : Has(t, l)' => Free(t, l)
    BY <1>1, <1>2 DEF App, Collects, Batches, WorksOn, Works, Has, Plain
  <1>7. Mutex'
    BY <1>1, <1>6, KeepMutex DEF IInv
  <1>8. InService'
    <2>1. /\ \A o \in held' : ref'[o] = "live"
          /\ \A u \in Threads : App(u) => ref'[Shm] = "live"
          /\ \A u \in Threads, e \in Locals : WorksOn(u, e) => ref'[Wrap(e)] = "live"
          /\ \A e \in Locals : WorksOn(t, e)' => WorksOn(t, e) \/ ref'[Wrap(e)] = "live"
          /\ App(t)' => App(t) \/ ref'[Shm] = "live"
      BY <1>6 DEF IInv, InService
    <2> QED BY <1>1, <2>1, KeepInService DEF IInv
  <1>9. TypeOK'
    BY <1>1 DEF IInv, TypeOK
  <1> QED BY <1>1, <1>5, <1>7, <1>8, <1>9, Quiet

\* begin_grant starts: the authority's lock is taken.
LEMMA GrantStep ==
  ASSUME IInv, NEW t \in Threads, NEW e \in Endpoints, Grant(t, e)
  PROVE  IInv'
  <1>1. PICK g : g = [Frame("grant", "in", e, "app") EXCEPT !.locks = {A}]
    OBVIOUS
  <1>2. /\ g \in FrameSet /\ g.op = "grant" /\ g.pc = "in" /\ g.on = e /\ g.by = "app"
        /\ g.locks = {A} /\ g.all = {}
    BY <1>1, Sides DEF Frame, FrameSet
  <1>3. Formed(g) /\ Plain(g) /\ \A x : ~Works(g, x)
    BY <1>2 DEF Formed, Plain, Works
  <1>4. /\ Resting(t) /\ Start(t, g) /\ ref[Shm] = "live" /\ \A l \in g.locks : Free(t, l)
        /\ UNCHANGED <<object, endpoint, ref, held, child, failed, interrupts>>
    BY <1>1, <1>2 DEF Grant, IInv, InService
  <1> QED BY <1>2, <1>3, <1>4, Begun

\* A call on the authority starts under its lock.
LEMMA ManageStep ==
  ASSUME IInv, NEW t \in Threads, Manage(t)
  PROVE  IInv'
  <1>1. PICK g : g = [Frame("manage", "in", A, "app") EXCEPT !.locks = {A}]
    OBVIOUS
  <1>2. /\ g \in FrameSet /\ g.op = "manage" /\ g.pc = "in" /\ g.by = "app"
        /\ g.locks = {A} /\ g.all = {}
    BY <1>1, Sides DEF Frame, FrameSet
  <1>3. Formed(g) /\ Plain(g) /\ \A x : ~Works(g, x)
    BY <1>2 DEF Formed, Plain, Works
  <1>4. /\ Resting(t) /\ Start(t, g) /\ ref[Shm] = "live" /\ \A l \in g.locks : Free(t, l)
        /\ UNCHANGED <<object, endpoint, ref, held, child, failed, interrupts>>
    BY <1>1, <1>2 DEF Manage, IInv, InService
  <1> QED BY <1>2, <1>3, <1>4, Begun

\* A call on an endpoint starts under that endpoint's lock.
LEMMA MethodStep ==
  ASSUME IInv, NEW t \in Threads, NEW e \in Locals, Method(t, e)
  PROVE  IInv'
  <1>1. PICK g : g = [Frame("method", "in", e, "app") EXCEPT !.locks = {e}]
    OBVIOUS
  <1>2. /\ g \in FrameSet /\ g.op = "method" /\ g.pc = "in" /\ g.on = e /\ g.by = "app"
        /\ g.locks = {e} /\ g.all = {}
    BY <1>1, Sides DEF Frame, FrameSet
  <1>3. Formed(g) /\ Plain(g) /\ \A x : Works(g, x) => x = e
    BY <1>2 DEF Formed, Plain, Works
  <1>4. ref[Wrap(e)] = "live" /\ ref[Shm] = "live"
    <2>1. ref[Wrap(e)] = "live" \/ ref[Pin(e)] = "live"
      BY DEF Method, IInv, InService
    <2>2. Pin(e) \in Referrers(Wrap(e)) /\ Wrap(e) \in Referrers(Shm) /\ Wrap(e) \in Objects /\ Shm \in Objects
      BY Names
    <2> QED BY <2>1, <2>2, Upward DEF IInv
  <1>5. /\ Resting(t) /\ Start(t, g) /\ \A l \in g.locks : Free(t, l)
        /\ UNCHANGED <<object, endpoint, ref, held, child, failed, interrupts>>
    BY <1>1, <1>2 DEF Method
  <1> QED BY <1>2, <1>3, <1>4, <1>5, Begun

\* EliteEndpoint.close is called; its lock is not yet taken.
LEMMA CloseStep ==
  ASSUME IInv, NEW t \in Threads, NEW e \in Locals, Close(t, e)
  PROVE  IInv'
  <1>1. PICK g : g = Frame("close", "enter", e, "app")
    OBVIOUS
  <1>2. /\ g \in FrameSet /\ g.op = "close" /\ g.pc = "enter" /\ g.on = e /\ g.by = "app"
        /\ g.locks = {} /\ g.all = {}
    BY <1>1, Sides DEF Frame, FrameSet
  <1>3. Formed(g) /\ Plain(g) /\ \A x : Works(g, x) => x = e
    BY <1>2 DEF Formed, Plain, Works
  <1>4. ref[Wrap(e)] = "live" /\ ref[Shm] = "live"
    <2>1. ref[Wrap(e)] = "live"
      BY DEF Close, IInv, InService
    <2>2. Wrap(e) \in Referrers(Shm) /\ Shm \in Objects
      BY Names
    <2> QED BY <2>1, <2>2, Upward DEF IInv
  <1>5. /\ Resting(t) /\ Start(t, g) /\ \A l \in g.locks : Free(t, l)
        /\ UNCHANGED <<object, endpoint, ref, held, child, failed, interrupts>>
    BY <1>1, <1>2 DEF Close
  <1> QED BY <1>2, <1>3, <1>4, <1>5, Begun

\* EliteShm.close is called, over the endpoints listed then.
LEMMA CloseShmStep ==
  ASSUME IInv, NEW t \in Threads, CloseShm(t)
  PROVE  IInv'
  <1>1. PICK g : g = [Frame("close_shm", "busy", A, "app") EXCEPT !.rest = Listed, !.all = Listed]
    OBVIOUS
  <1>2. Listed \subseteq Locals /\ \A e \in Listed : ref[Wrap(e)] = "live"
    BY DEF Listed
  <1>3. /\ g \in FrameSet /\ g.op = "close_shm" /\ g.pc = "busy" /\ g.on = A /\ g.by = "app"
        /\ g.locks = {} /\ g.rest = Listed /\ g.all = Listed
    BY <1>1, <1>2, Sides DEF Frame, FrameSet
  <1>4. Formed(g) /\ Plain(g) /\ \A x : Works(g, x) => ref[Wrap(x)] = "live"
    BY <1>2, <1>3 DEF Formed, Plain, Works
  <1>5. /\ Resting(t) /\ Start(t, g) /\ ref[Shm] = "live" /\ \A l \in g.locks : Free(t, l)
        /\ UNCHANGED <<object, endpoint, ref, held, child, failed, interrupts>>
    BY <1>1, <1>3 DEF CloseShm, IInv, InService
  <1> QED BY <1>3, <1>4, <1>5, Begun

\* A call returns that has changed no more than Quiet allows.
LEMMA QuietReturn ==
  ASSUME IInv, NEW t \in Threads, ~Resting(t), Plain(Top(t)), Return(t),
         object' \in [alive : BOOLEAN, gate : {"READY", "RETIRED"}, granting : BOOLEAN,
                      closeRequested : BOOLEAN],
         object'.alive = object.alive, object'.closeRequested = object.closeRequested,
         UNCHANGED <<endpoint, ref, held, child, failed, interrupts>>
  PROVE  IInv'
  <1>1. /\ stack' \in [Threads -> Seq(FrameSet)] /\ Shapes'
        /\ Lessens(t) /\ SameBatches /\ SameCalls
    BY Returned
  <1>2. Mutex' /\ InService'
    BY <1>1, KeepService DEF IInv
  <1>3. TypeOK'
    BY <1>1 DEF IInv, TypeOK
  <1> QED BY <1>1, <1>2, <1>3, Quiet

\* A call goes on and has changed nothing yet.
LEMMA QuietMove ==
  ASSUME IInv, NEW t \in Threads, ~Resting(t), NEW g \in FrameSet, Formed(g), Replace(t, g),
         g.op = Top(t).op, g.by = Top(t).by, g.on = Top(t).on, g.all = Top(t).all,
         Plain(Top(t)), Plain(g),
         \A l \in g.locks : l \in Top(t).locks \/ Free(t, l),
         UNCHANGED <<object, endpoint, ref, held, child, failed, interrupts>>
  PROVE  IInv'
  <1>1. /\ stack' \in [Threads -> Seq(FrameSet)] /\ Shapes'
        /\ Lessens(t) /\ SameBatches /\ SameCalls
    BY Moved
  <1>2. Mutex' /\ InService'
    BY <1>1, KeepService DEF IInv
  <1>3. TypeOK'
    BY <1>1 DEF IInv, TypeOK
  <1> QED BY <1>1, <1>2, <1>3, Quiet

\* The innermost frame of a thread.
LEMMA Running ==
  ASSUME TypeOK, Shapes, NEW t \in Threads, NEW op, NEW pc, At(t, op, pc)
  PROVE  /\ ~Resting(t) /\ Top(t) \in FrameSet /\ Formed(Top(t))
         /\ Top(t).op = op /\ Top(t).pc = pc
         /\ op \in {"grant", "method", "close_shm", "manage"} => Top(t).by = "app" /\ App(t)
         /\ op \in {"grant", "method", "close_shm", "manage"} /\ pc # "attach" => Plain(Top(t))
  <1>1. PICK f : f = Top(t)
    OBVIOUS
  <1>2. ~Resting(t) /\ f.op = op /\ f.pc = pc
    BY <1>1 DEF At
  <1>3. f \in FrameSet /\ Formed(f) /\ (f.by = "app" => App(t))
    BY <1>1, <1>2, TopFacts, Doing
  <1> QED BY <1>1, <1>2, <1>3 DEF Formed, Plain

\* A call on the authority returns and has changed nothing.
LEMMA NothingDoneStep ==
  ASSUME IInv, NEW t \in Threads, NothingDone(t)
  PROVE  IInv'
  BY Running, QuietReturn DEF NothingDone, IInv, TypeOK

\* The authority retires the generation: its gate alone changes.
LEMMA RetireStep ==
  ASSUME IInv, NEW t \in Threads, Retire(t)
  PROVE  IInv'
  <1>1. ~Resting(t) /\ Plain(Top(t))
    BY Running DEF Retire, IInv
  <1>2. /\ object' \in [alive : BOOLEAN, gate : {"READY", "RETIRED"}, granting : BOOLEAN,
                        closeRequested : BOOLEAN]
        /\ object'.alive = object.alive /\ object'.closeRequested = object.closeRequested
    BY DEF Retire, Retired, IInv, TypeOK
  <1> QED BY <1>1, <1>2, QuietReturn DEF Retire

\* EliteShm.close has found no endpoint busy, or refuses and returns.
LEMMA CloseShmBusyStep ==
  ASSUME IInv, NEW t \in Threads, CloseShmBusy(t)
  PROVE  IInv'
  <1>1. PICK f : f = Top(t)
    OBVIOUS
  <1>2. /\ ~Resting(t) /\ f \in FrameSet /\ Formed(f) /\ f.op = "close_shm" /\ f.pc = "busy"
        /\ f.by = "app" /\ Plain(f)
    BY <1>1, Running DEF CloseShmBusy, IInv
  <1>3. f.locks = {} /\ f.rest \subseteq f.all /\ f.all \subseteq Locals
    BY <1>2 DEF Formed
  <1>4. UNCHANGED <<object, endpoint, ref, held, child, failed, interrupts>>
    BY DEF CloseShmBusy
  <1>5. CASE Return(t)
    BY <1>1, <1>2, <1>4, <1>5, QuietReturn DEF IInv, TypeOK
  <1>6. ASSUME NEW g, \/ g = [f EXCEPT !.pc = "close", !.rest = f.all]
                      \/ \E e \in f.rest : g = [f EXCEPT !.rest = @ \ {e}],
                    Replace(t, g)
        PROVE  IInv'
    <2>1. /\ g \in FrameSet /\ g.op = f.op /\ g.by = f.by /\ g.on = f.on /\ g.all = f.all
          /\ g.locks = f.locks /\ g.rest \subseteq g.all /\ g.pc \in {"busy", "close"}
      BY <1>2, <1>3, <1>6 DEF FrameSet
    <2>2. Formed(g) /\ Plain(g)
      BY <1>2, <1>3, <2>1 DEF Formed, Plain
    <2> QED BY <1>1, <1>2, <1>4, <1>6, <2>1, <2>2, QuietMove
  <1> QED BY <1>1, <1>5, <1>6 DEF CloseShmBusy

\* EliteShm.close calls the close of its next endpoint, or takes its own lock.
LEMMA CloseShmEachStep ==
  ASSUME IInv, NEW t \in Threads, CloseShmEach(t)
  PROVE  IInv'
  <1>1. PICK f, B : f = Top(t) /\ B = Below(t)
    OBVIOUS
  <1>2. /\ ~Resting(t) /\ f \in FrameSet /\ Formed(f) /\ f.op = "close_shm" /\ f.pc = "close"
        /\ f.by = "app" /\ Plain(f)
    BY <1>1, Running DEF CloseShmEach, IInv
  <1>3. f.locks = {} /\ f.rest \subseteq f.all /\ f.all \subseteq Locals
    BY <1>2 DEF Formed
  <1>4. UNCHANGED <<object, endpoint, ref, held, child, failed, interrupts>>
    BY DEF CloseShmEach
  <1>5. CASE Lock(t, A, "in")
    <2>1. PICK g : g = [f EXCEPT !.pc = "in", !.locks = @ \cup {A}]
      OBVIOUS
    <2>2. /\ g \in FrameSet /\ g.op = f.op /\ g.by = f.by /\ g.on = f.on /\ g.all = f.all
          /\ g.locks = {A} /\ g.pc = "in"
      BY <1>2, <1>3, <2>1, Sides DEF FrameSet
    <2>3. Formed(g) /\ Plain(g)
      BY <1>2, <1>3, <2>2 DEF Formed, Plain
    <2>4. Replace(t, g) /\ Free(t, A)
      BY <1>1, <1>5, <2>1 DEF Lock
    <2> QED BY <1>1, <1>2, <1>4, <2>2, <2>3, <2>4, QuietMove
  <1>6. ASSUME NEW e \in f.rest,
               NEW g, NEW h, g = Frame("close", "enter", e, "app"),
               h = [f EXCEPT !.rest = @ \ {e}], Call(t, g, h)
        PROVE  IInv'
    <2>2. /\ g \in FrameSet /\ g.op = "close" /\ g.pc = "enter" /\ g.on = e /\ g.by = "app"
          /\ g.locks = {} /\ g.all = {}
      BY <1>3, <1>6, Sides DEF Frame, FrameSet
    <2>3. /\ h \in FrameSet /\ h.op = f.op /\ h.pc = f.pc /\ h.by = f.by /\ h.on = f.on
          /\ h.all = f.all /\ h.locks = f.locks /\ h.rest \subseteq f.rest
      BY <1>2, <1>3, <1>6 DEF FrameSet
    <2>4. /\ Formed(g) /\ Formed(h) /\ Over(g, h) /\ Plain(g) /\ Plain(h)
          /\ \A x : Works(g, x) => Works(f, x)
          /\ \A x : Works(h, x) => Works(f, x)
      BY <1>2, <1>3, <2>2, <2>3 DEF Formed, Over, Plain, Works
    <2>6. PICK X, Y : X = {f} /\ Y = {g, h}
      OBVIOUS
    <2>7. /\ stack' \in [Threads -> Seq(FrameSet)] /\ Shapes'
          /\ Frames(t)' = Y \cup B /\ Others(t) /\ Frames(t) = X \cup B
      <3>1. Frames(t) = X \cup B
        BY <1>1, <1>2, <2>6, TopFacts DEF IInv
      <3>2. h.op = Top(t).op /\ h.by = Top(t).by /\ h.on = Top(t).on
        BY <1>1, <2>3
      <3>3. /\ stack' \in [Threads -> Seq(FrameSet)] /\ Shapes'
            /\ Frames(t)' = {g, h} \cup Below(t) /\ Others(t)
        BY <1>2, <1>6, <2>2, <2>3, <2>4, <3>2, CallStack DEF IInv
      <3> QED BY <1>1, <2>6, <3>1, <3>3
    <2>8. /\ Frames(t) = X \cup B /\ Frames(t)' = Y \cup B /\ Frames(t)' \subseteq Y \cup B
          /\ \A k \in X \cup Y : Plain(k)
      BY <1>2, <2>4, <2>6, <2>7
    <2>9. SameBatches /\ SameCalls
      BY <2>7, <2>8, Calm
    <2>10. \A k \in Y \cup B : k \in Frames(t) \/ Continuing(t, k)
      <3>1. f \in Frames(t)
        BY <2>6, <2>7
      <3>2. Continuing(t, g) /\ Continuing(t, h)
        BY <1>2, <1>3, <2>2, <2>3, <2>4, <3>1 DEF Continuing
      <3> QED BY <2>6, <2>7, <3>2
    <2>11. Lessens(t)
      BY <2>7, <2>10, Lesser
    <2>12. Mutex' /\ InService'
      BY <1>4, <2>9, <2>11, KeepService DEF IInv
    <2>13. TypeOK'
      BY <1>4, <2>7 DEF IInv, TypeOK
    <2> QED BY <1>4, <2>7, <2>9, <2>12, <2>13, Quiet
  <1> QED BY <1>1, <1>5, <1>6 DEF CloseShmEach

\* EliteShm.close destroys the object if no connection is left, and returns.
LEMMA CloseShmReturnsStep ==
  ASSUME IInv, NEW t \in Threads, CloseShmReturns(t)
  PROVE  IInv'
  <1>1. /\ ~Resting(t) /\ Plain(Top(t)) /\ App(t) /\ Return(t)
        /\ UNCHANGED <<endpoint, ref, held, child, failed, interrupts>>
    BY Running DEF CloseShmReturns, IInv
  <1>2. CASE object' = object
    BY <1>1, <1>2, QuietReturn DEF IInv, TypeOK
  <1>3. CASE object.alive /\ Connections = {} /\ Destroyed
    <2>1. /\ object' \in [alive : BOOLEAN, gate : {"READY", "RETIRED"}, granting : BOOLEAN,
                          closeRequested : BOOLEAN]
          /\ object'.alive = ~Resolved /\ object'.closeRequested = object.closeRequested
      BY <1>3 DEF Destroyed, Retired, Resolved, IInv, TypeOK
    <2>2. CASE ~Resolved
      BY <1>1, <1>3, <2>1, <2>2, QuietReturn
    <2>3. CASE Resolved
      <3>1. /\ stack' \in [Threads -> Seq(FrameSet)] /\ Shapes'
            /\ Lessens(t) /\ SameBatches /\ SameCalls
        BY <1>1, Returned
      <3>2. Mutex' /\ InService' /\ Garbage' /\ Informed' /\ Attended' /\ Requested'
        BY <1>1, <2>1, <3>1, KeepService, KeepGarbage, KeepInformed, KeepAttended, KeepRequested
           DEF IInv
      <3>3. TypeOK'
        BY <1>1, <2>1, <3>1 DEF IInv, TypeOK
      <3>4. Statuses'
        BY <1>1, <2>3 DEF IInv, Statuses, Resolved, Connected, Wrap
      <3>5. Pursued'
        <4>1. \A u \in Threads : ~LifeClosing(u)
          BY <1>1, Alone
        <4>2. /\ \A e \in Locals : Connected(e)' <=> Connected(e)
              /\ ~object'.alive /\ \A u \in Threads : ~LifeClosing(u)'
          BY <1>1, <2>1, <2>3, <3>1, <4>1 DEF Connected, SameCalls
        <4>3. \A e \in Locals : Connected(e)' /\ Wrap(e) \notin failed' =>
                /\ ref'[Wrap(e)] # "dead"
                /\ \A u \in Threads : Finalized(u, Wrap(e))' =>
                     endpoint'[e].leased \/ Closing(u, e, "gc", "enter")'
          BY <1>1, <3>1, <4>2 DEF IInv, Pursued, SameBatches, SameCalls
        <4> QED BY <1>1, <4>2, <4>3 DEF IInv, Pursued, Wrap, Shm
      <3>6. HealthyNeverRetained'
        BY <1>1 DEF IInv, HealthyNeverRetained
      <3> QED BY <3>1, <3>2, <3>3, <3>4, <3>5, <3>6 DEF IInv
    <2> QED BY <2>2, <2>3
  <1> QED BY <1>2, <1>3 DEF CloseShmReturns
-----------------------------------------------------------------------------
(***************************************************************************)
(* Steps that change an endpoint.                                          *)
(***************************************************************************)
Elsewhere(e)  == \A x \in Endpoints : x # e => endpoint'[x] = endpoint[x]
SameHolders   == \A x \in Endpoints : endpoint'[x].holder = endpoint[x].holder
SameConns     == \A x \in Endpoints : endpoint'[x].conn = endpoint[x].conn
SameLeases    == \A x \in Endpoints : endpoint'[x].leased = endpoint[x].leased
SameRequests  == \A x \in Endpoints : endpoint'[x].closeRequested = endpoint[x].closeRequested

\* A new holder status, and nothing else, at one endpoint.
LEMMA HolderChange ==
  ASSUME endpoint \in [Endpoints -> EndpointSet], NEW e \in Endpoints,
         NEW h \in {"none", "registered", "issued", "resolved"},
         endpoint' = [endpoint EXCEPT ![e].holder = h]
  PROVE  /\ endpoint' \in [Endpoints -> EndpointSet] /\ endpoint'[e].holder = h
         /\ Elsewhere(e) /\ SameConns /\ SameLeases /\ SameRequests
  BY DEF EndpointSet, Elsewhere, SameConns, SameLeases, SameRequests

\* A new connection status, and nothing else, at one endpoint.
LEMMA ConnChange ==
  ASSUME endpoint \in [Endpoints -> EndpointSet], NEW e \in Endpoints,
         NEW c \in {"none", "open", "rejected", "gone"},
         endpoint' = [endpoint EXCEPT ![e].conn = c]
  PROVE  /\ endpoint' \in [Endpoints -> EndpointSet] /\ endpoint'[e].conn = c
         /\ Elsewhere(e) /\ SameHolders /\ SameLeases /\ SameRequests
  BY DEF EndpointSet, Elsewhere, SameHolders, SameLeases, SameRequests

\* A lease taken or given back, and nothing else, at one endpoint.
LEMMA LeaseChange ==
  ASSUME endpoint \in [Endpoints -> EndpointSet], NEW e \in Endpoints, NEW b \in BOOLEAN,
         endpoint' = [endpoint EXCEPT ![e].leased = b]
  PROVE  /\ endpoint' \in [Endpoints -> EndpointSet] /\ endpoint'[e].leased = b
         /\ Elsewhere(e) /\ SameHolders /\ SameConns /\ SameRequests
  BY DEF EndpointSet, Elsewhere, SameHolders, SameConns, SameRequests

\* A request to close, and nothing else, at one endpoint.
LEMMA RequestChange ==
  ASSUME endpoint \in [Endpoints -> EndpointSet], NEW e \in Endpoints, NEW b \in BOOLEAN,
         endpoint' = [endpoint EXCEPT ![e].closeRequested = b]
  PROVE  /\ endpoint' \in [Endpoints -> EndpointSet] /\ endpoint'[e].closeRequested = b
         /\ Elsewhere(e) /\ SameHolders /\ SameConns /\ SameLeases
  BY DEF EndpointSet, Elsewhere, SameHolders, SameConns, SameLeases

\* The receipt of a connection that is gone resolves its holder.
LEMMA AckCleanupStep ==
  ASSUME IInv, NEW t \in Threads, AckCleanup(t)
  PROVE  IInv'
  <1>1. /\ ~Resting(t) /\ Plain(Top(t)) /\ Return(t)
        /\ UNCHANGED <<object, ref, held, child, failed, interrupts>>
    BY Running DEF AckCleanup, IInv
  <1>2. PICK e \in Endpoints : /\ endpoint[e].conn = "gone" /\ object.alive
                               /\ endpoint' = [endpoint EXCEPT ![e].holder = "resolved"]
    BY DEF AckCleanup
  <1>3. /\ endpoint' \in [Endpoints -> EndpointSet] /\ endpoint'[e].holder = "resolved"
        /\ Elsewhere(e) /\ SameConns /\ SameLeases /\ SameRequests
    BY <1>2, HolderChange DEF IInv, TypeOK
  <1>4. /\ stack' \in [Threads -> Seq(FrameSet)] /\ Shapes'
        /\ Lessens(t) /\ SameBatches /\ SameCalls
    BY <1>1, Returned
  <1>5. \A x \in Locals : /\ x \in Endpoints
                          /\ endpoint'[x].conn = endpoint[x].conn
                          /\ endpoint'[x].leased = endpoint[x].leased
                          /\ endpoint'[x].closeRequested = endpoint[x].closeRequested
    BY <1>3, Sides DEF SameConns, SameLeases, SameRequests
  <1>6. Mutex' /\ InService' /\ Garbage' /\ Requested' /\ Pursued'
    BY <1>1, <1>4, <1>5, KeepService, KeepGarbage, KeepRequested, KeepPursued DEF IInv
  <1>7. TypeOK'
    BY <1>1, <1>3, <1>4 DEF IInv, TypeOK
  <1>8. Statuses'
    <2>1. \A x \in Endpoints : endpoint'[x].holder = endpoint[x].holder \/ x = e
      BY <1>3 DEF Elsewhere
    <2>2. \A x \in Endpoints : Connected(x)' <=> Connected(x)
      BY <1>3 DEF Connected, SameConns
    <2>3. \A x \in Endpoints :
            /\ endpoint'[x].holder = "issued" => object'.alive
            /\ Connected(x)' /\ (x \in Locals \/ child' = "running") => endpoint'[x].holder = "issued"
      BY <1>1, <1>2, <1>3, <2>1, <2>2 DEF IInv, Statuses, Connected
    <2>4. \A x \in Locals :
            /\ endpoint'[x].conn = "none" <=> ref'[Wrap(x)] = "none"
            /\ endpoint'[x].holder \in {"none", "registered"} => endpoint'[x].conn = "none"
            /\ endpoint'[x].holder = "resolved" => endpoint'[x].conn = "gone"
            /\ endpoint'[x].leased => endpoint'[x].conn = "open"
      BY <1>1, <1>2, <1>3, <1>5, <2>1 DEF IInv, Statuses
    <2> QED BY <2>3, <2>4 DEF Statuses, Wrap
  <1>9. Informed'
    <2>1. \A x \in Locals : x # e => endpoint'[x] = endpoint[x]
      BY <1>3, <1>5 DEF Elsewhere
    <2> QED BY <1>2, <1>3, <1>4, <1>5, <2>1 DEF IInv, Informed, SameCalls
  <1>10. Attended'
    <2>1. \A x \in Locals : endpoint'[x].holder = "issued" => endpoint[x].holder = "issued"
      BY <1>3, <1>5 DEF Elsewhere
    <2> QED BY <1>1, <1>4, <1>5, <2>1, KeepAttended DEF IInv
  <1>11. HealthyNeverRetained'
    BY <1>1, <1>3, Sides DEF IInv, HealthyNeverRetained, Elsewhere
  <1> QED BY <1>4, <1>6, <1>7, <1>8, <1>9, <1>10, <1>11 DEF IInv

\* What a process abroad does to its endpoints concerns no thread here.
LEMMA Abroad ==
  ASSUME IInv, TypeOK', Shapes', Mutex', InService', Statuses', SameBatches, SameCalls,
         \A e \in Locals : endpoint'[e] = endpoint[e],
         \A e \in Remote : endpoint'[e].holder = "none" => endpoint[e].holder = "none",
         ref' = ref, failed' = failed, interrupts' = interrupts,
         object'.alive = object.alive, object'.closeRequested = object.closeRequested
  PROVE  IInv'
  <1>1. Garbage' /\ Informed' /\ Attended' /\ Requested' /\ Pursued'
    BY KeepGarbage, KeepInformed, KeepAttended, KeepRequested, KeepPursued DEF IInv
  <1>2. HealthyNeverRetained'
    BY DEF IInv, HealthyNeverRetained
  <1> QED BY <1>1, <1>2 DEF IInv

\* The child's death is observed, and the holders it left are resolved.
LEMMA ReapStep ==
  ASSUME IInv, NEW t \in Threads, Reap(t)
  PROVE  IInv'
  <1>1. /\ ~Resting(t) /\ Plain(Top(t)) /\ Return(t) /\ child' = "reaped"
        /\ UNCHANGED <<ref, held, failed, interrupts>> /\ object' = Retired
    BY Running DEF Reap, IInv
  <1>2. PICK S \in SUBSET Remote :
          endpoint' = [e \in Endpoints |->
            IF e \in S THEN [endpoint[e] EXCEPT !.holder = "resolved"] ELSE endpoint[e]]
    BY DEF Reap
  <1>3. /\ endpoint' \in [Endpoints -> EndpointSet]
        /\ \A e \in Locals : endpoint'[e] = endpoint[e]
        /\ \A e \in Endpoints : /\ endpoint'[e].conn = endpoint[e].conn
                                /\ endpoint'[e].holder = endpoint[e].holder \/ endpoint'[e].holder = "resolved"
    <2>1. ASSUME NEW e \in Endpoints
          PROVE  /\ endpoint'[e] \in EndpointSet
                 /\ e \notin S => endpoint'[e] = endpoint[e]
                 /\ endpoint'[e].conn = endpoint[e].conn
                 /\ endpoint'[e].holder = endpoint[e].holder \/ endpoint'[e].holder = "resolved"
      <3>1. endpoint[e] \in EndpointSet
        BY DEF IInv, TypeOK
      <3>2. CASE e \in S
        <4>1. endpoint'[e] = [endpoint[e] EXCEPT !.holder = "resolved"]
          BY <1>2, <3>2
        <4> QED BY <3>1, <3>2, <4>1 DEF EndpointSet
      <3>3. CASE e \notin S
        <4>1. endpoint'[e] = endpoint[e]
          BY <1>2, <3>3
        <4> QED BY <3>1, <4>1
      <3> QED BY <3>2, <3>3
    <2>2. endpoint' \in [Endpoints -> EndpointSet]
      <3>1. \A e \in Endpoints : endpoint'[e] \in EndpointSet
        BY <2>1
      <3>2. endpoint' = [e \in Endpoints |-> endpoint'[e]]
        BY <1>2
      <3> QED BY <3>1, <3>2
    <2>3. \A e \in Locals : e \in Endpoints /\ e \notin S
      BY Sides
    <2> QED BY <2>1, <2>2, <2>3
  <1>4. /\ object' \in [alive : BOOLEAN, gate : {"READY", "RETIRED"}, granting : BOOLEAN,
                        closeRequested : BOOLEAN]
        /\ object'.alive = object.alive /\ object'.closeRequested = object.closeRequested
    BY <1>1 DEF Retired, IInv, TypeOK
  <1>5. /\ stack' \in [Threads -> Seq(FrameSet)] /\ Shapes'
        /\ Lessens(t) /\ SameBatches /\ SameCalls
    BY <1>1, Returned
  <1>6. Mutex' /\ InService'
    BY <1>1, <1>5, KeepService DEF IInv
  <1>7. TypeOK'
    BY <1>1, <1>3, <1>4, <1>5 DEF IInv, TypeOK
  <1>8. Statuses'
    <2>1. \A e \in Endpoints :
            /\ endpoint'[e].holder = "issued" => object'.alive
            /\ Connected(e)' /\ (e \in Locals \/ child' = "running") => endpoint'[e].holder = "issued"
      BY <1>1, <1>3, <1>4 DEF IInv, Statuses, Connected
    <2>2. \A e \in Locals :
            /\ endpoint'[e].conn = "none" <=> ref'[Wrap(e)] = "none"
            /\ endpoint'[e].holder \in {"none", "registered"} => endpoint'[e].conn = "none"
            /\ endpoint'[e].holder = "resolved" => endpoint'[e].conn = "gone"
            /\ endpoint'[e].leased => endpoint'[e].conn = "open"
      BY <1>1, <1>3 DEF IInv, Statuses
    <2> QED BY <2>1, <2>2 DEF Statuses, Wrap
  <1>9. \A e \in Remote : endpoint'[e].holder = "none" => endpoint[e].holder = "none"
    BY <1>3, Sides
  <1> QED BY <1>1, <1>3, <1>4, <1>5, <1>6, <1>7, <1>8, <1>9, Abroad

\* A step that leaves the stacks alone.
LEMMA Idle ==
  ASSUME IInv, UNCHANGED stack, ref' = ref, held' \subseteq held
  PROVE  /\ stack' \in [Threads -> Seq(FrameSet)] /\ Shapes' /\ SameBatches /\ SameCalls
         /\ Mutex' /\ InService'
  <1>1. \A t \in Threads : Frames(t)' = Frames(t)
    BY DEF Frames
  <1>2. stack' \in [Threads -> Seq(FrameSet)] /\ Shapes'
    BY DEF IInv, TypeOK, Shapes
  <1>3. \A t \in Threads : Batches(t)' = Batches(t)
    BY <1>1 DEF Batches
  <1>4. SameBatches
    BY <1>3 DEF SameBatches, Collects, InBatch, Finalized
  <1>5. SameCalls
    BY <1>1 DEF SameCalls, LifeClosing, Attaching, Finishing, Closing
  <1>6. Mutex'
    BY <1>1, <1>4 DEF IInv, Mutex, Has, App, SameBatches
  <1>7. InService'
    BY <1>1 DEF IInv, InService, App, WorksOn, Works, Shm, Wrap
  <1> QED BY <1>2, <1>4, <1>5, <1>6, <1>7

\* The application drops a reference: less is in service.
LEMMA ForgetStep ==
  ASSUME IInv, NEW o \in Objects, Forget(o)
  PROVE  IInv'
  <1>1. /\ held' = held \ {o}
        /\ UNCHANGED <<object, endpoint, ref, child, failed, stack, interrupts>>
    BY DEF Forget
  <1>2. /\ stack' \in [Threads -> Seq(FrameSet)] /\ Shapes' /\ SameBatches /\ SameCalls
        /\ Mutex' /\ InService'
    BY <1>1, Idle
  <1>3. TypeOK'
    BY <1>1, <1>2 DEF IInv, TypeOK
  <1> QED BY <1>1, <1>2, <1>3, Quiet

\* A peer retires the generation.
LEMMA PeerRetiresStep ==
  ASSUME IInv, PeerRetires
  PROVE  IInv'
  <1>1. /\ object' = [object EXCEPT !.gate = "RETIRED"]
        /\ UNCHANGED <<endpoint, ref, held, child, failed, stack, interrupts>>
    BY DEF PeerRetires
  <1>2. /\ object' \in [alive : BOOLEAN, gate : {"READY", "RETIRED"}, granting : BOOLEAN,
                        closeRequested : BOOLEAN]
        /\ object'.alive = object.alive /\ object'.closeRequested = object.closeRequested
    BY <1>1 DEF IInv, TypeOK
  <1>3. /\ stack' \in [Threads -> Seq(FrameSet)] /\ Shapes' /\ SameBatches /\ SameCalls
        /\ Mutex' /\ InService'
    BY <1>1, Idle
  <1>4. TypeOK'
    BY <1>1, <1>2, <1>3 DEF IInv, TypeOK
  <1> QED BY <1>1, <1>2, <1>3, <1>4, Quiet

\* The child dies; its holders stay issued.
LEMMA ChildDiesStep ==
  ASSUME IInv, ChildDies
  PROVE  IInv'
  <1>1. /\ child' = "dead"
        /\ UNCHANGED <<object, endpoint, ref, held, failed, stack, interrupts>>
    BY DEF ChildDies
  <1>2. /\ stack' \in [Threads -> Seq(FrameSet)] /\ Shapes' /\ SameBatches /\ SameCalls
        /\ Mutex' /\ InService'
    BY <1>1, Idle
  <1>3. TypeOK'
    BY <1>1, <1>2 DEF IInv, TypeOK
  <1> QED BY <1>1, <1>2, <1>3, Quiet

\* The child attaches what has been issued to it, or gives it up.
LEMMA ChildStep ==
  ASSUME IInv, NEW e \in Remote, ChildAttaches(e) \/ ChildDetaches(e)
  PROVE  IInv'
  <1>1. e \in Endpoints /\ e \notin Locals
    BY Sides
  <1>2. UNCHANGED <<object, ref, held, child, failed, stack, interrupts>>
    BY DEF ChildAttaches, ChildDetaches
  <1>3. endpoint[e].holder = "issued"
    BY <1>1 DEF ChildAttaches, ChildDetaches, IInv, Statuses
  <1>4. PICK c \in {"open", "rejected", "gone"} : endpoint' = [endpoint EXCEPT ![e].conn = c]
    BY DEF ChildAttaches, ChildDetaches
  <1>5. /\ endpoint' \in [Endpoints -> EndpointSet]
        /\ Elsewhere(e) /\ SameHolders
    BY <1>1, <1>4, ConnChange DEF IInv, TypeOK
  <1>6. /\ \A x \in Locals : endpoint'[x] = endpoint[x]
        /\ \A x \in Remote : endpoint'[x].holder = endpoint[x].holder
    BY <1>1, <1>5, Sides DEF Elsewhere, SameHolders
  <1>7. /\ stack' \in [Threads -> Seq(FrameSet)] /\ Shapes' /\ SameBatches /\ SameCalls
        /\ Mutex' /\ InService'
    BY <1>2, Idle
  <1>8. TypeOK'
    BY <1>2, <1>5, <1>7 DEF IInv, TypeOK
  <1>9. Statuses'
    <2>1. \A x \in Endpoints :
            /\ endpoint'[x].holder = "issued" => object'.alive
            /\ Connected(x)' /\ (x \in Locals \/ child' = "running") => endpoint'[x].holder = "issued"
      BY <1>2, <1>3, <1>5 DEF IInv, Statuses, Connected, Elsewhere, SameHolders
    <2>2. \A x \in Locals :
            /\ endpoint'[x].conn = "none" <=> ref'[Wrap(x)] = "none"
            /\ endpoint'[x].holder \in {"none", "registered"} => endpoint'[x].conn = "none"
            /\ endpoint'[x].holder = "resolved" => endpoint'[x].conn = "gone"
            /\ endpoint'[x].leased => endpoint'[x].conn = "open"
      BY <1>2, <1>6 DEF IInv, Statuses
    <2> QED BY <2>1, <2>2 DEF Statuses, Wrap
  <1> QED BY <1>2, <1>6, <1>7, <1>8, <1>9, Abroad

\* A token is leased: nobody is finalizing the endpoint that a method works on.
LEMMA LeaseStep ==
  ASSUME IInv, NEW t \in Threads, NEW e \in Locals, WorksOn(t, e),
         stack' \in [Threads -> Seq(FrameSet)], Shapes', Lessens(t), SameBatches, SameCalls,
         endpoint[e].conn = "open", ref[Pin(e)] = "none",
         endpoint' = [endpoint EXCEPT ![e].leased = TRUE],
         ref' = [ref EXCEPT ![Pin(e)] = "live"], held' = held \cup {Pin(e)},
         UNCHANGED <<object, child, failed, interrupts>>
  PROVE  IInv'
  <1>1. e \in Endpoints /\ \A x \in Locals : x \in Endpoints
    BY Sides
  <1>2. /\ endpoint' \in [Endpoints -> EndpointSet] /\ endpoint'[e].leased = TRUE
        /\ Elsewhere(e) /\ SameHolders /\ SameConns /\ SameRequests
    BY <1>1, LeaseChange DEF IInv, TypeOK
  <1>3. /\ Pin(e) \in Objects /\ Shm \in Objects
        /\ ref' \in [Objects -> {"none", "live", "dying", "dead"}]
        /\ ref'[Pin(e)] = "live" /\ \A o \in Objects : o # Pin(e) => ref'[o] = ref[o]
        /\ ref'[Shm] = ref[Shm] /\ \A x \in Locals : ref'[Wrap(x)] = ref[Wrap(x)]
    BY Names DEF IInv, TypeOK
  <1>4. TypeOK'
    BY <1>2, <1>3 DEF IInv, TypeOK
  <1>5. ref[Wrap(e)] = "live" /\ \A u \in Threads : ~InBatch(u, Wrap(e)) /\ ~InBatch(u, Pin(e))
    BY <1>3, Untouched DEF IInv, InService, Garbage
  <1>6. Mutex'
    BY KeepMutex DEF Lessens, SameBatches, IInv
  <1>7. InService'
    <2>1. /\ \A o \in held' : ref'[o] = "live"
          /\ \A u \in Threads : App(u) => ref'[Shm] = "live"
          /\ \A u \in Threads, x \in Locals : WorksOn(u, x) => ref'[Wrap(x)] = "live"
      BY <1>3 DEF IInv, InService, TypeOK
    <2> QED BY <2>1, KeepInService DEF Lessens, IInv
  <1>8. Garbage'
    <2>1. \A u \in Threads, o \in Objects : InBatch(u, o)' <=> InBatch(u, o)
      BY DEF SameBatches
    <2>2. /\ \A u \in Threads, o \in Objects : InBatch(u, o)' => ref'[o] = "dying"
          /\ \A u, v \in Threads, o \in Objects : InBatch(u, o)' /\ InBatch(v, o)' => u = v
          /\ \A o \in Objects : ref'[o] = "dying" => \E u \in Threads : InBatch(u, o)'
      BY <1>3, <1>5, <2>1 DEF IInv, Garbage
    <2>3. ASSUME NEW o \in Objects, NEW r \in Referrers(o), Alive(r)'
          PROVE  Alive(o)' /\ \A u \in Threads : InBatch(u, o)' => InBatch(u, r)'
      <3>1. r \in Objects
        BY Referring
      <3>2. CASE r = Pin(e)
        <4>1. o = Wrap(e)
          BY <2>3, <3>2, Names
        <4> QED BY <1>3, <1>5, <2>1, <3>1, <4>1 DEF Alive
      <3>3. CASE r # Pin(e)
        <4>1. Alive(r)
          BY <1>3, <2>3, <3>1, <3>3 DEF Alive
        <4>2. Alive(o) /\ \A u \in Threads : InBatch(u, o) => InBatch(u, r)
          BY <4>1 DEF IInv, Garbage
        <4> QED BY <1>3, <2>1, <3>1, <4>2 DEF Alive
      <3> QED BY <3>2, <3>3
    <2> QED BY <2>2, <2>3 DEF Garbage, Referrers, Objects, Shm, Wrap, Pin
  <1>9. Statuses'
    <2>1. \A x \in Endpoints : /\ Connected(x)' <=> Connected(x)
                               /\ endpoint'[x].holder = endpoint[x].holder
                               /\ endpoint'[x].conn = endpoint[x].conn
      BY <1>2 DEF Connected, SameHolders, SameConns
    <2>2. \A x \in Locals : endpoint'[x].leased => endpoint'[x].conn = "open"
      BY <1>1, <1>2, <2>1 DEF IInv, Statuses, Elsewhere
    <2> QED BY <1>1, <1>3, <2>1, <2>2 DEF IInv, Statuses, Wrap
  <1>10. Informed'
    <2>1. \A x \in Locals : /\ endpoint'[x].holder = endpoint[x].holder
                            /\ endpoint'[x].conn = endpoint[x].conn
                            /\ endpoint[x].leased => endpoint'[x].leased
                            /\ x # e => endpoint'[x].leased = endpoint[x].leased
      BY <1>1, <1>2 DEF SameHolders, SameConns, Elsewhere
    <2>2. \A u \in Threads : ~Closing(u, e, "gc", "enter")
      BY <1>5, Finalizers DEF IInv
    <2>3. \A u \in Threads, x \in Locals :
            /\ Attaching(u, x)' => endpoint'[x].holder = "issued" /\ endpoint'[x].conn = "none"
            /\ Finishing(u, x)' => endpoint'[x].leased
            /\ Closing(u, x, "gc", "enter")' => ~endpoint'[x].leased
      BY <2>1, <2>2 DEF IInv, Informed, SameCalls
    <2>4. \A u \in Threads, x \in Locals : \A by \in {"app", "gc"} :
            /\ \A pc \in {"ack", "acking", "closed"} :
                 Closing(u, x, by, pc)' => endpoint'[x].conn = "gone"
            /\ Closing(u, x, by, "closed")' => endpoint'[x].holder # "issued"
      BY <2>1 DEF IInv, Informed, SameCalls
    <2>5. \A u, v \in Threads, x \in Locals : Attaching(u, x)' /\ Attaching(v, x)' => u = v
      BY DEF IInv, Informed, SameCalls
    <2> QED BY <2>3, <2>4, <2>5 DEF Informed
  <1>11. Attended'
    <2> SUFFICES ASSUME NEW x \in Locals
        PROVE /\ endpoint'[x].conn = "none" /\ endpoint'[x].holder = "issued" =>
                   \E u \in Threads : Attaching(u, x)'
              /\ endpoint'[x].conn = "gone" /\ endpoint'[x].holder = "issued" /\ interrupts' = 0 =>
                   \E u \in Threads : \E by \in {"app", "gc"}, pc \in {"ack", "acking"} :
                     Closing(u, x, by, pc)'
              /\ endpoint'[x].leased =>
                   \/ ref'[Pin(x)] = "live"
                   \/ \E u \in Threads : /\ InBatch(u, Pin(x))'
                                         /\ Finalized(u, Pin(x))' => Finishing(u, x)'
      BY DEF Attended, Pin
    <2>1. endpoint'[x].holder = endpoint[x].holder /\ endpoint'[x].conn = endpoint[x].conn
      BY <1>1, <1>2 DEF SameHolders, SameConns
    <2>2. endpoint[x].conn = "none" /\ endpoint[x].holder = "issued" =>
            \E u \in Threads : Attaching(u, x)'
      BY DEF IInv, Attended, SameCalls
    <2>3. endpoint[x].conn = "gone" /\ endpoint[x].holder = "issued" /\ interrupts = 0 =>
            \E u \in Threads : \E by \in {"app", "gc"}, pc \in {"ack", "acking"} :
              Closing(u, x, by, pc)'
      BY DEF IInv, Attended, SameCalls
    <2>4. x # e /\ endpoint[x].leased =>
            \/ ref[Pin(x)] = "live"
            \/ \E u \in Threads : /\ InBatch(u, Pin(x))'
                                  /\ Finalized(u, Pin(x))' => Finishing(u, x)'
      <3>1. CASE x # e /\ endpoint[x].leased /\ ref[Pin(x)] # "live"
        <4>1. PICK u \in Threads : InBatch(u, Pin(x)) /\ (Finalized(u, Pin(x)) => Finishing(u, x))
          BY <3>1 DEF IInv, Attended
        <4>2. InBatch(u, Pin(x))' /\ (Finalized(u, Pin(x))' => Finishing(u, x)')
          BY <4>1 DEF SameBatches, SameCalls
        <4> QED BY <4>2
      <3> QED BY <3>1
    <2>5. x # e => ref'[Pin(x)] = ref[Pin(x)] /\ endpoint'[x].leased = endpoint[x].leased
      BY <1>1, <1>2, <1>3, Names DEF Elsewhere
    <2> QED BY <1>3, <2>1, <2>2, <2>3, <2>4, <2>5
  <1>12. Requested'
    <2>1. \A x \in Locals : endpoint'[x].closeRequested = endpoint[x].closeRequested
      BY <1>1, <1>2 DEF SameRequests
    <2>2. \A x \in Locals : ref'[Wrap(x)] = ref[Wrap(x)]
      BY <1>3, Names
    <2>3. ref'[Shm] = ref[Shm]
      BY <1>3, Names
    <2> QED BY <1>3, <2>1, <2>2, <2>3 DEF IInv, Requested, SameBatches
  <1>13. Pursued'
    <2>1. \A x \in Locals : Connected(x)' <=> Connected(x)
      BY <1>1, <1>2 DEF Connected, SameConns
    <2>2. Connections' = Connections
      BY <2>1 DEF Connections
    <2>3. \A x \in Locals : Connected(x)' /\ Wrap(x) \notin failed' =>
            /\ ref'[Wrap(x)] # "dead"
            /\ \A u \in Threads : Finalized(u, Wrap(x))' =>
                 endpoint'[x].leased \/ Closing(u, x, "gc", "enter")'
      BY <1>1, <1>2, <1>3, <2>1 DEF IInv, Pursued, SameBatches, SameCalls, Elsewhere
    <2>4. Outstanding' <=> Outstanding
      BY <2>1 DEF Outstanding, Shm, Wrap
    <2>5. object'.alive /\ ~Outstanding' =>
            /\ ref'[Shm] # "dead"
            /\ \A u \in Threads : Finalized(u, Shm)' =>
                 \/ LifeClosing(u)'
                 \/ \E x \in Locals, pc \in {"ack", "acking"} : Closing(u, x, "gc", pc)'
      BY <1>3, <2>4 DEF IInv, Pursued, SameBatches, SameCalls
    <2>6. ref'[Shm] # "none" /\ \A u \in Threads : LifeClosing(u)' => Closable'
      BY <1>3, <2>2 DEF IInv, Pursued, SameCalls, Closable
    <2> QED BY <2>3, <2>5, <2>6 DEF Pursued, Wrap, Shm
  <1>14. HealthyNeverRetained'
    BY <1>2, Sides DEF IInv, HealthyNeverRetained, SameHolders
  <1> QED BY <1>4, <1>6, <1>7, <1>8, <1>9, <1>10, <1>11, <1>12, <1>13, <1>14 DEF IInv

\* A token is given back: its lease is not being finished by the collector.
LEMMA GiveBackStep ==
  ASSUME IInv, NEW t \in Threads, NEW e \in Locals, WorksOn(t, e),
         stack' \in [Threads -> Seq(FrameSet)], Shapes', Lessens(t), SameBatches, SameCalls,
         Pin(e) \in held,
         endpoint' = [endpoint EXCEPT ![e].leased = FALSE],
         ref' = [ref EXCEPT ![Pin(e)] = "none"], held' = held \ {Pin(e)},
         UNCHANGED <<object, child, failed, interrupts>>
  PROVE  IInv'
  <1>1. e \in Endpoints /\ \A x \in Locals : x \in Endpoints
    BY Sides
  <1>2. /\ endpoint' \in [Endpoints -> EndpointSet] /\ endpoint'[e].leased = FALSE
        /\ Elsewhere(e) /\ SameHolders /\ SameConns /\ SameRequests
    BY <1>1, LeaseChange DEF IInv, TypeOK
  <1>3. /\ Pin(e) \in Objects /\ Shm \in Objects
        /\ ref' \in [Objects -> {"none", "live", "dying", "dead"}]
        /\ ref'[Pin(e)] = "none" /\ \A o \in Objects : o # Pin(e) => ref'[o] = ref[o]
        /\ ref'[Shm] = ref[Shm] /\ \A x \in Locals : ref'[Wrap(x)] = ref[Wrap(x)]
    BY Names DEF IInv, TypeOK
  <1>4. TypeOK'
    BY <1>2, <1>3 DEF IInv, TypeOK
  <1>5. \A u \in Threads : ~InBatch(u, Wrap(e)) /\ ~InBatch(u, Pin(e))
    BY <1>3, Untouched DEF IInv, InService, Garbage
  <1>6. Mutex'
    BY KeepMutex DEF Lessens, SameBatches, IInv
  <1>7. InService'
    <2>1. /\ \A o \in held' : ref'[o] = "live"
          /\ \A u \in Threads : App(u) => ref'[Shm] = "live"
          /\ \A u \in Threads, x \in Locals : WorksOn(u, x) => ref'[Wrap(x)] = "live"
      BY <1>3 DEF IInv, InService, TypeOK
    <2> QED BY <2>1, KeepInService DEF Lessens, IInv
  <1>8. Garbage'
    <2>1. \A u \in Threads, o \in Objects : InBatch(u, o)' <=> InBatch(u, o)
      BY DEF SameBatches
    <2>2. /\ \A u \in Threads, o \in Objects : InBatch(u, o)' => ref'[o] = "dying"
          /\ \A u, v \in Threads, o \in Objects : InBatch(u, o)' /\ InBatch(v, o)' => u = v
          /\ \A o \in Objects : ref'[o] = "dying" => \E u \in Threads : InBatch(u, o)'
      BY <1>3, <1>5, <2>1 DEF IInv, Garbage
    <2>3. ASSUME NEW o \in Objects, NEW r \in Referrers(o), Alive(r)'
          PROVE  Alive(o)' /\ \A u \in Threads : InBatch(u, o)' => InBatch(u, r)'
      <3>1. r \in Objects /\ o # Pin(e)
        BY Names
      <3>2. Alive(r)
        BY <1>3, <2>3, <3>1 DEF Alive
      <3>3. Alive(o) /\ \A u \in Threads : InBatch(u, o) => InBatch(u, r)
        BY <3>2 DEF IInv, Garbage
      <3> QED BY <1>3, <2>1, <3>1, <3>3 DEF Alive
    <2> QED BY <2>2, <2>3 DEF Garbage, Referrers, Objects, Shm, Wrap, Pin
  <1>9. Statuses'
    <2>1. \A x \in Endpoints : /\ Connected(x)' <=> Connected(x)
                               /\ endpoint'[x].holder = endpoint[x].holder
                               /\ endpoint'[x].conn = endpoint[x].conn
      BY <1>2 DEF Connected, SameHolders, SameConns
    <2>2. \A x \in Locals : endpoint'[x].leased => endpoint'[x].conn = "open"
      BY <1>1, <1>2, <2>1 DEF IInv, Statuses, Elsewhere
    <2> QED BY <1>1, <1>3, <2>1, <2>2 DEF IInv, Statuses, Wrap
  <1>10. Informed'
    <2>1. \A x \in Locals : /\ endpoint'[x].holder = endpoint[x].holder
                            /\ endpoint'[x].conn = endpoint[x].conn
                            /\ endpoint'[x].leased => endpoint[x].leased
                            /\ x # e => endpoint'[x].leased = endpoint[x].leased
      BY <1>1, <1>2 DEF SameHolders, SameConns, Elsewhere
    <2>2. \A u \in Threads : ~Finishing(u, e)
      BY <1>5, Finalizers DEF IInv
    <2>3. \A u \in Threads, x \in Locals :
            /\ Attaching(u, x)' => endpoint'[x].holder = "issued" /\ endpoint'[x].conn = "none"
            /\ Finishing(u, x)' => endpoint'[x].leased
            /\ Closing(u, x, "gc", "enter")' => ~endpoint'[x].leased
      BY <2>1, <2>2 DEF IInv, Informed, SameCalls
    <2>4. \A u \in Threads, x \in Locals : \A by \in {"app", "gc"} :
            /\ \A pc \in {"ack", "acking", "closed"} :
                 Closing(u, x, by, pc)' => endpoint'[x].conn = "gone"
            /\ Closing(u, x, by, "closed")' => endpoint'[x].holder # "issued"
      BY <2>1 DEF IInv, Informed, SameCalls
    <2>5. \A u, v \in Threads, x \in Locals : Attaching(u, x)' /\ Attaching(v, x)' => u = v
      BY DEF IInv, Informed, SameCalls
    <2> QED BY <2>3, <2>4, <2>5 DEF Informed
  <1>11. Attended'
    <2> SUFFICES ASSUME NEW x \in Locals
        PROVE /\ endpoint'[x].conn = "none" /\ endpoint'[x].holder = "issued" =>
                   \E u \in Threads : Attaching(u, x)'
              /\ endpoint'[x].conn = "gone" /\ endpoint'[x].holder = "issued" /\ interrupts' = 0 =>
                   \E u \in Threads : \E by \in {"app", "gc"}, pc \in {"ack", "acking"} :
                     Closing(u, x, by, pc)'
              /\ endpoint'[x].leased =>
                   \/ ref'[Pin(x)] = "live"
                   \/ \E u \in Threads : /\ InBatch(u, Pin(x))'
                                         /\ Finalized(u, Pin(x))' => Finishing(u, x)'
      BY DEF Attended, Pin
    <2>1. endpoint'[x].holder = endpoint[x].holder /\ endpoint'[x].conn = endpoint[x].conn
      BY <1>1, <1>2 DEF SameHolders, SameConns
    <2>2. endpoint[x].conn = "none" /\ endpoint[x].holder = "issued" =>
            \E u \in Threads : Attaching(u, x)'
      BY DEF IInv, Attended, SameCalls
    <2>3. endpoint[x].conn = "gone" /\ endpoint[x].holder = "issued" /\ interrupts = 0 =>
            \E u \in Threads : \E by \in {"app", "gc"}, pc \in {"ack", "acking"} :
              Closing(u, x, by, pc)'
      BY DEF IInv, Attended, SameCalls
    <2>4. x # e /\ endpoint[x].leased =>
            \/ ref[Pin(x)] = "live"
            \/ \E u \in Threads : /\ InBatch(u, Pin(x))'
                                  /\ Finalized(u, Pin(x))' => Finishing(u, x)'
      <3>1. CASE x # e /\ endpoint[x].leased /\ ref[Pin(x)] # "live"
        <4>1. PICK u \in Threads : InBatch(u, Pin(x)) /\ (Finalized(u, Pin(x)) => Finishing(u, x))
          BY <3>1 DEF IInv, Attended
        <4>2. InBatch(u, Pin(x))' /\ (Finalized(u, Pin(x))' => Finishing(u, x)')
          BY <4>1 DEF SameBatches, SameCalls
        <4> QED BY <4>2
      <3> QED BY <3>1
    <2>5. x # e => ref'[Pin(x)] = ref[Pin(x)] /\ endpoint'[x].leased = endpoint[x].leased
      BY <1>1, <1>2, <1>3, Names DEF Elsewhere
    <2> QED BY <1>2, <2>1, <2>2, <2>3, <2>4, <2>5
  <1>12. Requested'
    <2>1. \A x \in Locals : endpoint'[x].closeRequested = endpoint[x].closeRequested
      BY <1>1, <1>2 DEF SameRequests
    <2>2. \A x \in Locals : ref'[Wrap(x)] = ref[Wrap(x)]
      BY <1>3, Names
    <2>3. ref'[Shm] = ref[Shm]
      BY <1>3, Names
    <2> QED BY <1>3, <2>1, <2>2, <2>3 DEF IInv, Requested, SameBatches
  <1>13. Pursued'
    <2>1. \A x \in Locals : Connected(x)' <=> Connected(x)
      BY <1>1, <1>2 DEF Connected, SameConns
    <2>2. Connections' = Connections
      BY <2>1 DEF Connections
    <2>3. \A x \in Locals : Connected(x)' /\ Wrap(x) \notin failed' =>
            /\ ref'[Wrap(x)] # "dead"
            /\ \A u \in Threads : Finalized(u, Wrap(x))' =>
                 endpoint'[x].leased \/ Closing(u, x, "gc", "enter")'
      <3>1. \A u \in Threads : ~Finalized(u, Wrap(e))
        BY <1>5, Finalizers DEF IInv
      <3> QED BY <1>1, <1>2, <1>3, <2>1, <3>1 DEF IInv, Pursued, SameBatches, SameCalls, Elsewhere
    <2>4. Outstanding' <=> Outstanding
      BY <2>1 DEF Outstanding, Shm, Wrap
    <2>5. object'.alive /\ ~Outstanding' =>
            /\ ref'[Shm] # "dead"
            /\ \A u \in Threads : Finalized(u, Shm)' =>
                 \/ LifeClosing(u)'
                 \/ \E x \in Locals, pc \in {"ack", "acking"} : Closing(u, x, "gc", pc)'
      BY <1>3, <2>4 DEF IInv, Pursued, SameBatches, SameCalls
    <2>6. ref'[Shm] # "none" /\ \A u \in Threads : LifeClosing(u)' => Closable'
      BY <1>3, <2>2 DEF IInv, Pursued, SameCalls, Closable
    <2> QED BY <2>3, <2>5, <2>6 DEF Pursued, Wrap, Shm
  <1>14. HealthyNeverRetained'
    BY <1>2, Sides DEF IInv, HealthyNeverRetained, SameHolders
  <1> QED BY <1>4, <1>6, <1>7, <1>8, <1>9, <1>10, <1>11, <1>12, <1>13, <1>14 DEF IInv

\* A call on an endpoint returns, and may have taken a lease or begun to detach.
LEMMA MethodReturnsStep ==
  ASSUME IInv, NEW t \in Threads, MethodReturns(t)
  PROVE  IInv'
  <1>1. PICK e : e = Top(t).on
    OBVIOUS
  <1>2. /\ ~Resting(t) /\ Plain(Top(t)) /\ Return(t) /\ Formed(Top(t))
        /\ Top(t).op = "method" /\ Top(t).by = "app"
        /\ UNCHANGED <<object, child, failed, interrupts>>
    BY Running DEF MethodReturns, IInv
  <1>3. e \in Locals /\ WorksOn(t, e)
    BY <1>1, <1>2, Doing DEF IInv, Formed
  <1>4. /\ stack' \in [Threads -> Seq(FrameSet)] /\ Shapes'
        /\ Lessens(t) /\ SameBatches /\ SameCalls
    BY <1>2, Returned
  <1>5. CASE /\ endpoint[e].conn = "open" /\ ref[Pin(e)] = "none"
             /\ endpoint' = [endpoint EXCEPT ![e].leased = TRUE]
             /\ ref' = [ref EXCEPT ![Pin(e)] = "live"] /\ held' = held \cup {Pin(e)}
    BY <1>2, <1>3, <1>4, <1>5, LeaseStep
  <1>6. CASE /\ Pin(e) \in held
             /\ endpoint' = [endpoint EXCEPT ![e].leased = FALSE]
             /\ ref' = [ref EXCEPT ![Pin(e)] = "none"] /\ held' = held \ {Pin(e)}
    BY <1>2, <1>3, <1>4, <1>6, GiveBackStep
  <1>7. CASE UNCHANGED <<endpoint, ref, held>>
    BY <1>2, <1>7, QuietReturn DEF IInv, TypeOK
  <1> QED BY <1>1, <1>5, <1>6, <1>7 DEF MethodReturns

\* The calls in progress are the same but that t attaches e next if that is issued.
AttachesNext(t, e, h) ==
  \A u \in Threads :
    /\ LifeClosing(u)' <=> LifeClosing(u)
    /\ \A x : Finishing(u, x)' <=> Finishing(u, x)
    /\ \A x, pc : Closing(u, x, "gc", pc)' <=> Closing(u, x, "gc", pc)
    /\ \A x, by, pc : pc # "enter" => (Closing(u, x, by, pc)' <=> Closing(u, x, by, pc))
    /\ \A x \in Locals :
         Attaching(u, x)' <=> Attaching(u, x) \/ (u = t /\ x = e /\ h = "issued")

\* A grant registers a holder, and the thread that issues it attaches next.
LEMMA IssueStep ==
  ASSUME IInv, NEW t \in Threads, NEW e \in Endpoints, NEW h \in {"registered", "issued"},
         stack' \in [Threads -> Seq(FrameSet)], Shapes', Lessens(t), SameBatches,
         endpoint[e].holder = "none", object.alive,
         endpoint' = [endpoint EXCEPT ![e].holder = h],
         UNCHANGED <<object, ref, held, child, failed, interrupts>>,
         AttachesNext(t, e, h)
  PROVE  IInv'
  <1>1. /\ endpoint' \in [Endpoints -> EndpointSet] /\ endpoint'[e].holder = h
        /\ Elsewhere(e) /\ SameConns /\ SameLeases /\ SameRequests
    BY HolderChange DEF IInv, TypeOK
  <1>2. \A x \in Locals : /\ x \in Endpoints
                          /\ endpoint'[x].conn = endpoint[x].conn
                          /\ endpoint'[x].leased = endpoint[x].leased
                          /\ endpoint'[x].closeRequested = endpoint[x].closeRequested
                          /\ x # e => endpoint'[x].holder = endpoint[x].holder
    BY <1>1, Sides DEF Elsewhere, SameConns, SameLeases, SameRequests
  <1>3. e \in Locals => endpoint[e].conn = "none"
    BY DEF IInv, Statuses
  <1>4. Mutex' /\ InService' /\ Garbage' /\ Requested'
    BY <1>2, KeepService, KeepGarbage, KeepRequested DEF IInv
  <1>5. TypeOK'
    BY <1>1 DEF IInv, TypeOK
  <1>6. Statuses'
    <2>1. \A x \in Endpoints : /\ Connected(x)' <=> Connected(x)
                               /\ endpoint'[x].holder = endpoint[x].holder \/ x = e
      BY <1>1 DEF Connected, SameConns, Elsewhere
    <2>2. \A x \in Endpoints :
            /\ endpoint'[x].holder = "issued" => object'.alive
            /\ Connected(x)' /\ (x \in Locals \/ child' = "running") => endpoint'[x].holder = "issued"
      BY <1>1, <2>1 DEF IInv, Statuses
    <2>3. \A x \in Locals :
            /\ endpoint'[x].conn = "none" <=> ref'[Wrap(x)] = "none"
            /\ endpoint'[x].holder \in {"none", "registered"} => endpoint'[x].conn = "none"
            /\ endpoint'[x].holder = "resolved" => endpoint'[x].conn = "gone"
            /\ endpoint'[x].leased => endpoint'[x].conn = "open"
      BY <1>1, <1>2, <1>3, <2>1 DEF IInv, Statuses
    <2> QED BY <2>2, <2>3 DEF Statuses, Wrap
  <1>7. Informed'
    <2>1. \A u \in Threads : ~Attaching(u, e) \/ e \notin Locals
      BY DEF IInv, Informed, AttachesNext
    <2>2. \A u \in Threads, x \in Locals :
            /\ Attaching(u, x)' => endpoint'[x].holder = "issued" /\ endpoint'[x].conn = "none"
            /\ Finishing(u, x)' => endpoint'[x].leased
            /\ Closing(u, x, "gc", "enter")' => ~endpoint'[x].leased
      BY <1>1, <1>2, <1>3, <2>1 DEF IInv, Informed, AttachesNext
    <2>3. \A u \in Threads, x \in Locals : \A by \in {"app", "gc"} :
            /\ \A pc \in {"ack", "acking", "closed"} :
                 Closing(u, x, by, pc)' => endpoint'[x].conn = "gone"
            /\ Closing(u, x, by, "closed")' => endpoint'[x].holder # "issued"
      BY <1>2, <1>3 DEF IInv, Informed, AttachesNext
    <2>4. \A u, v \in Threads, x \in Locals : Attaching(u, x)' /\ Attaching(v, x)' => u = v
      BY <2>1 DEF IInv, Informed, AttachesNext
    <2> QED BY <2>2, <2>3, <2>4 DEF Informed
  <1>8. Attended'
    <2> SUFFICES ASSUME NEW x \in Locals
        PROVE /\ endpoint'[x].conn = "none" /\ endpoint'[x].holder = "issued" =>
                   \E u \in Threads : Attaching(u, x)'
              /\ endpoint'[x].conn = "gone" /\ endpoint'[x].holder = "issued" /\ interrupts' = 0 =>
                   \E u \in Threads : \E by \in {"app", "gc"}, pc \in {"ack", "acking"} :
                     Closing(u, x, by, pc)'
              /\ endpoint'[x].leased =>
                   \/ ref'[Pin(x)] = "live"
                   \/ \E u \in Threads : /\ InBatch(u, Pin(x))'
                                         /\ Finalized(u, Pin(x))' => Finishing(u, x)'
      BY DEF Attended, Pin
    <2>1. CASE x = e
      <3>1. endpoint'[x].holder = "issued" => Attaching(t, x)'
        BY <1>1, <2>1 DEF AttachesNext
      <3>2. ~endpoint[x].leased
        BY <1>3, <2>1 DEF IInv, Statuses
      <3> QED BY <1>2, <1>3, <2>1, <3>1, <3>2
    <2>2. CASE x # e
      <3>1. endpoint[x].conn = "none" /\ endpoint[x].holder = "issued" =>
              \E u \in Threads : Attaching(u, x)'
        BY DEF IInv, Attended, AttachesNext
      <3>2. endpoint[x].conn = "gone" /\ endpoint[x].holder = "issued" /\ interrupts = 0 =>
              \E u \in Threads : \E by \in {"app", "gc"}, pc \in {"ack", "acking"} :
                Closing(u, x, by, pc)'
        BY DEF IInv, Attended, AttachesNext
      <3>3. CASE endpoint[x].leased /\ ref[Pin(x)] # "live"
        <4>1. PICK u \in Threads : InBatch(u, Pin(x)) /\ (Finalized(u, Pin(x)) => Finishing(u, x))
          BY <3>3 DEF IInv, Attended, AttachesNext
        <4>2. InBatch(u, Pin(x))' /\ (Finalized(u, Pin(x))' => Finishing(u, x)')
          BY <4>1 DEF SameBatches, AttachesNext
        <4> QED BY <1>2, <2>2, <3>1, <3>2, <4>2
      <3> QED BY <1>2, <2>2, <3>1, <3>2, <3>3
    <2> QED BY <2>1, <2>2
  <1>9. Pursued'
    <2>1. (\A x \in Locals : Connected(x)' <=> Connected(x)) /\ Connections' = Connections
      BY <1>2 DEF Connected, Connections
    <2>2. \A x \in Locals : Connected(x)' /\ Wrap(x) \notin failed' =>
            /\ ref'[Wrap(x)] # "dead"
            /\ \A u \in Threads : Finalized(u, Wrap(x))' =>
                 endpoint'[x].leased \/ Closing(u, x, "gc", "enter")'
      BY <1>2, <2>1 DEF IInv, Pursued, SameBatches, AttachesNext
    <2>3. Outstanding' <=> Outstanding
      BY <2>1 DEF Outstanding, Shm, Wrap
    <2>4. object'.alive /\ ~Outstanding' =>
            /\ ref'[Shm] # "dead"
            /\ \A u \in Threads : Finalized(u, Shm)' =>
                 \/ LifeClosing(u)'
                 \/ \E x \in Locals, pc \in {"ack", "acking"} : Closing(u, x, "gc", pc)'
      BY <2>3 DEF IInv, Pursued, SameBatches, AttachesNext
    <2>5. ref'[Shm] # "none" /\ \A u \in Threads : LifeClosing(u)' => Closable'
      BY <2>1 DEF IInv, Pursued, Closable, AttachesNext
    <2> QED BY <2>2, <2>4, <2>5 DEF Pursued, Wrap, Shm
  <1>10. HealthyNeverRetained'
    <2>1. \A x \in Remote : endpoint'[x].holder = "none" => endpoint[x].holder = "none"
      BY <1>1, Sides DEF Elsewhere
    <2> QED BY <2>1 DEF IInv, HealthyNeverRetained
  <1> QED BY <1>4, <1>5, <1>6, <1>7, <1>8, <1>9, <1>10 DEF IInv

\* begin_grant returns, or goes on to attach what it granted.
LEMMA GrantedStep ==
  ASSUME IInv, NEW t \in Threads, Granted(t)
  PROVE  IInv'
  <1>1. PICK e, f, B : e = Top(t).on /\ f = Top(t) /\ B = Below(t)
    OBVIOUS
  <1>2. /\ ~Resting(t) /\ Plain(f) /\ f \in FrameSet /\ Formed(f)
        /\ f.op = "grant" /\ f.pc = "in" /\ f.by = "app" /\ f.on = e
        /\ UNCHANGED <<object, ref, held, child, failed, interrupts>>
    BY <1>1, Running DEF Granted, IInv
  <1>3. e \in Endpoints /\ f.locks = {A}
    BY <1>2 DEF Formed
  <1>4. CASE Return(t) /\ UNCHANGED endpoint
    BY <1>1, <1>2, <1>4, QuietReturn DEF IInv, TypeOK
  <1>5. ASSUME object.alive, endpoint[e].holder = "none",
               NEW h \in {"registered", "issued"},
               endpoint' = [endpoint EXCEPT ![e].holder = h],
               IF h = "issued" /\ e \in Locals
               THEN Replace(t, Frame("grant", "attach", e, "app")) ELSE Return(t)
        PROVE  IInv'
    <2>1. CASE Return(t) /\ ~(h = "issued" /\ e \in Locals)
      <3>1. /\ stack' \in [Threads -> Seq(FrameSet)] /\ Shapes'
            /\ Lessens(t) /\ SameBatches /\ SameCalls
        BY <1>1, <1>2, <2>1, Returned
      <3>2. AttachesNext(t, e, h)
        BY <2>1, <3>1 DEF AttachesNext, SameCalls
      <3> QED BY <1>2, <1>3, <1>5, <3>1, <3>2, IssueStep
    <2>2. CASE h = "issued" /\ e \in Locals
      <3>1. PICK g, X, Y : g = Frame("grant", "attach", e, "app") /\ X = {f} /\ Y = {g}
        OBVIOUS
      <3>2. /\ g \in FrameSet /\ g.op = "grant" /\ g.pc = "attach" /\ g.on = e /\ g.by = "app"
            /\ g.locks = {} /\ g.all = {}
        BY <2>2, <3>1, Sides DEF Frame, FrameSet
      <3>3. Formed(g) /\ Replace(t, g)
        BY <1>5, <2>2, <3>1, <3>2 DEF Formed
      <3>4. /\ stack' \in [Threads -> Seq(FrameSet)] /\ Shapes'
            /\ Frames(t)' = {g} \cup B /\ Others(t)
        BY <1>1, <1>2, <3>2, <3>3, ReplaceStack DEF IInv
      <3>5. Frames(t) = X \cup B /\ Frames(t)' = Y \cup B
        BY <1>1, <1>2, <3>1, <3>4, TopFacts DEF IInv
      <3>6. Lessens(t)
        <4>1. f \in Frames(t)
          BY <3>1, <3>5
        <4>2. Continuing(t, g)
          BY <1>2, <3>2, <4>1 DEF Continuing, Works
        <4>3. \A k \in Y \cup B : k \in Frames(t) \/ Continuing(t, k)
          BY <3>1, <3>5, <4>2
        <4> QED BY <3>4, <3>5, <4>3, Lesser
      <3>7. SameBatches
        <4>1. \A k \in X \cup Y : k.op # "collect"
          BY <1>2, <3>1, <3>2
        <4> QED BY <3>4, <3>5, <4>1, CalmBatches
      <3>8. \A u \in Threads \ {t} : Frames(u)' = Frames(u)
        BY <3>4 DEF Others
      <3>9. ASSUME NEW u \in Threads
            PROVE  /\ LifeClosing(u)' <=> LifeClosing(u)
                   /\ \A x : Finishing(u, x)' <=> Finishing(u, x)
        BY <1>2, <3>1, <3>2, <3>5, <3>8 DEF LifeClosing, Finishing
      <3>10. ASSUME NEW u \in Threads, NEW x, NEW by, NEW pc
             PROVE  Closing(u, x, by, pc)' <=> Closing(u, x, by, pc)
        BY <1>2, <3>1, <3>2, <3>5, <3>8 DEF Closing
      <3>11. ASSUME NEW u \in Threads, NEW x \in Locals
             PROVE  Attaching(u, x)' <=> Attaching(u, x) \/ (u = t /\ x = e /\ h = "issued")
        BY <1>2, <2>2, <3>1, <3>2, <3>5, <3>8 DEF Attaching
      <3>12. AttachesNext(t, e, h)
        BY <3>9, <3>10, <3>11 DEF AttachesNext
      <3> QED BY <1>2, <1>3, <1>5, <3>4, <3>6, <3>7, <3>12, IssueStep
    <2> QED BY <1>5, <2>1, <2>2
  <1> QED BY <1>1, <1>4, <1>5 DEF Granted

\* The endpoint is made: its wrapper refers to a manager that is in service.
LEMMA AttachStep ==
  ASSUME IInv, NEW t \in Threads, Attach(t)
  PROVE  IInv'
  <1>1. PICK e, f, B, X, Y : e = Top(t).on /\ f = Top(t) /\ B = Below(t) /\ X = {f} /\ Y = {}
    OBVIOUS
  <1>2. /\ ~Resting(t) /\ f \in FrameSet /\ Formed(f) /\ App(t)
        /\ f.op = "grant" /\ f.pc = "attach" /\ f.by = "app" /\ f.on = e
        /\ Return(t) /\ UNCHANGED <<object, child, failed, interrupts>>
    BY <1>1, Running DEF Attach, IInv
  <1>3. PICK c \in {"open", "rejected"} :
          /\ endpoint' = [endpoint EXCEPT ![e].conn = c]
          /\ ref' = [ref EXCEPT ![Wrap(e)] = "live"]
          /\ held' \subseteq held \cup {Wrap(e)}
    BY <1>1 DEF Attach
  <1>4. e \in Locals /\ e \in Endpoints /\ (\A x \in Locals : x \in Endpoints) /\ Attaching(t, e)
    BY <1>1, <1>2, Doing, Sides DEF Formed, IInv
  <1>5. /\ endpoint[e].holder = "issued" /\ endpoint[e].conn = "none"
        /\ ref[Wrap(e)] = "none" /\ ref[Shm] = "live" /\ ~endpoint[e].leased
    BY <1>2, <1>4 DEF IInv, Informed, Statuses, InService
  <1>6. /\ endpoint' \in [Endpoints -> EndpointSet] /\ endpoint'[e].conn = c
        /\ Elsewhere(e) /\ SameHolders /\ SameLeases /\ SameRequests
    BY <1>3, <1>4, ConnChange DEF IInv, TypeOK
  <1>7. \A x \in Locals : /\ endpoint'[x].holder = endpoint[x].holder
                          /\ endpoint'[x].leased = endpoint[x].leased
                          /\ endpoint'[x].closeRequested = endpoint[x].closeRequested
                          /\ x # e => endpoint'[x].conn = endpoint[x].conn
    BY <1>4, <1>6 DEF Elsewhere, SameHolders, SameLeases, SameRequests
  <1>8. /\ stack' \in [Threads -> Seq(FrameSet)] /\ Shapes'
        /\ Frames(t) = X \cup B /\ Frames(t)' = Y \cup B /\ Others(t)
    BY <1>1, <1>2, ReturnStack, TopFacts DEF IInv
  <1>9. SameBatches
    <2>1. \A k \in X \cup Y : k.op # "collect"
      BY <1>1, <1>2
    <2> QED BY <1>8, <2>1, CalmBatches
  <1>10. Lessens(t)
    <2>1. \A k \in Y \cup B : k \in Frames(t)
      BY <1>1, <1>8
    <2> QED BY <1>8, <2>1, Lesser
  <1>11. \A u \in Threads \ {t} : Frames(u)' = Frames(u)
    BY <1>8 DEF Others
  <1>12. ASSUME NEW u \in Threads
         PROVE  /\ LifeClosing(u)' <=> LifeClosing(u)
                /\ \A x : Finishing(u, x)' <=> Finishing(u, x)
    BY <1>1, <1>2, <1>8, <1>11 DEF LifeClosing, Finishing
  <1>13. ASSUME NEW u \in Threads, NEW x, NEW by, NEW pc
         PROVE  Closing(u, x, by, pc)' <=> Closing(u, x, by, pc)
    BY <1>1, <1>2, <1>8, <1>11 DEF Closing
  <1>14. \A u \in Threads, x \in Locals :
           /\ Attaching(u, x)' => Attaching(u, x)
           /\ x # e => (Attaching(u, x)' <=> Attaching(u, x))
    BY <1>1, <1>2, <1>8, <1>11 DEF Attaching
  <1>15. ~Attaching(t, e)'
    <2>1. \A g \in B : g.op # "grant"
      BY <1>1, <1>2, TopFacts DEF IInv
    <2> QED BY <1>1, <1>8, <2>1 DEF Attaching
  <1>16. /\ Wrap(e) \in Objects /\ Shm \in Objects
         /\ ref' \in [Objects -> {"none", "live", "dying", "dead"}]
         /\ ref'[Wrap(e)] = "live" /\ \A o \in Objects : o # Wrap(e) => ref'[o] = ref[o]
         /\ ref'[Shm] = ref[Shm]
         /\ \A x \in Locals : ref'[Pin(x)] = ref[Pin(x)]
         /\ \A x \in Locals : x # e => ref'[Wrap(x)] = ref[Wrap(x)]
    BY <1>3, <1>4, Names DEF IInv, TypeOK
  <1>17. \A u \in Threads : ~InBatch(u, Wrap(e)) /\ ~InBatch(u, Shm) /\ ~LifeClosing(u)
    BY <1>2, <1>5, <1>16, Alone DEF IInv, Garbage
  <1>18. TypeOK'
    BY <1>2, <1>3, <1>6, <1>8, <1>16 DEF IInv, TypeOK
  <1>19. Mutex'
    BY <1>8, <1>9, <1>10, KeepMutex DEF Lessens, SameBatches, IInv
  <1>20. InService'
    <2>1. /\ \A o \in held' : ref'[o] = "live"
          /\ \A u \in Threads : App(u) => ref'[Shm] = "live"
          /\ \A u \in Threads, x \in Locals : WorksOn(u, x) => ref'[Wrap(x)] = "live"
      BY <1>3, <1>16 DEF IInv, InService, TypeOK
    <2> QED BY <1>8, <1>10, <2>1, KeepInService DEF Lessens, IInv
  <1>21. Garbage'
    <2>1. \A u \in Threads, o \in Objects : InBatch(u, o)' <=> InBatch(u, o)
      BY <1>9 DEF SameBatches
    <2>2. /\ \A u \in Threads, o \in Objects : InBatch(u, o)' => ref'[o] = "dying"
          /\ \A u, v \in Threads, o \in Objects : InBatch(u, o)' /\ InBatch(v, o)' => u = v
          /\ \A o \in Objects : ref'[o] = "dying" => \E u \in Threads : InBatch(u, o)'
      BY <1>16, <1>17, <2>1 DEF IInv, Garbage
    <2>3. ASSUME NEW o \in Objects, NEW r \in Referrers(o), Alive(r)'
          PROVE  Alive(o)' /\ \A u \in Threads : InBatch(u, o)' => InBatch(u, r)'
      <3>1. r \in Objects
        BY Referring
      <3>2. CASE r = Wrap(e)
        <4>1. o = Shm
          BY <2>3, <3>2, Names
        <4> QED BY <1>5, <1>16, <1>17, <2>1, <3>1, <4>1 DEF Alive
      <3>3. CASE r # Wrap(e)
        <4>1. Alive(r)
          BY <1>16, <2>3, <3>1, <3>3 DEF Alive
        <4>2. Alive(o) /\ \A u \in Threads : InBatch(u, o) => InBatch(u, r)
          BY <4>1 DEF IInv, Garbage
        <4> QED BY <1>16, <2>1, <3>1, <4>2 DEF Alive
      <3> QED BY <3>2, <3>3
    <2> QED BY <2>2, <2>3 DEF Garbage, Referrers, Objects, Shm, Wrap, Pin
  <1>22. Statuses'
    <2>1. \A x \in Endpoints : /\ x # e => (Connected(x)' <=> Connected(x))
                               /\ endpoint'[x].holder = endpoint[x].holder
      BY <1>6 DEF Connected, SameHolders, Elsewhere
    <2>2. \A x \in Endpoints :
            /\ endpoint'[x].holder = "issued" => object'.alive
            /\ Connected(x)' /\ (x \in Locals \/ child' = "running") => endpoint'[x].holder = "issued"
      BY <1>2, <1>5, <2>1 DEF IInv, Statuses
    <2>3. \A x \in Locals :
            /\ endpoint'[x].conn = "none" <=> ref'[Wrap(x)] = "none"
            /\ endpoint'[x].holder \in {"none", "registered"} => endpoint'[x].conn = "none"
            /\ endpoint'[x].holder = "resolved" => endpoint'[x].conn = "gone"
            /\ endpoint'[x].leased => endpoint'[x].conn = "open"
      BY <1>5, <1>6, <1>7, <1>16 DEF IInv, Statuses
    <2> QED BY <2>2, <2>3 DEF Statuses, Wrap
  <1>23. Informed'
    <2>1. \A u \in Threads : ~Attaching(u, e)'
      BY <1>4, <1>14, <1>15 DEF IInv, Informed
    <2>2. \A u \in Threads, x \in Locals :
            /\ Attaching(u, x)' => endpoint'[x].holder = "issued" /\ endpoint'[x].conn = "none"
            /\ Finishing(u, x)' => endpoint'[x].leased
            /\ Closing(u, x, "gc", "enter")' => ~endpoint'[x].leased
      BY <1>7, <1>12, <1>13, <1>14, <2>1 DEF IInv, Informed
    <2>3. \A u \in Threads, x \in Locals : \A by \in {"app", "gc"} :
            /\ \A pc \in {"ack", "acking", "closed"} :
                 Closing(u, x, by, pc)' => endpoint'[x].conn = "gone"
            /\ Closing(u, x, by, "closed")' => endpoint'[x].holder # "issued"
      BY <1>5, <1>7, <1>13 DEF IInv, Informed
    <2>4. \A u, v \in Threads, x \in Locals : Attaching(u, x)' /\ Attaching(v, x)' => u = v
      BY <1>14 DEF IInv, Informed
    <2> QED BY <2>2, <2>3, <2>4 DEF Informed
  <1>24. Attended'
    <2> SUFFICES ASSUME NEW x \in Locals
        PROVE /\ endpoint'[x].conn = "none" /\ endpoint'[x].holder = "issued" =>
                   \E u \in Threads : Attaching(u, x)'
              /\ endpoint'[x].conn = "gone" /\ endpoint'[x].holder = "issued" /\ interrupts' = 0 =>
                   \E u \in Threads : \E by \in {"app", "gc"}, pc \in {"ack", "acking"} :
                     Closing(u, x, by, pc)'
              /\ endpoint'[x].leased =>
                   \/ ref'[Pin(x)] = "live"
                   \/ \E u \in Threads : /\ InBatch(u, Pin(x))'
                                         /\ Finalized(u, Pin(x))' => Finishing(u, x)'
      BY DEF Attended, Pin
    <2>1. CASE x = e
      BY <1>5, <1>6, <1>7, <2>1
    <2>2. CASE x # e
      <3>1. endpoint[x].conn = "none" /\ endpoint[x].holder = "issued" =>
              \E u \in Threads : Attaching(u, x)'
        BY <1>14, <2>2 DEF IInv, Attended
      <3>2. endpoint[x].conn = "gone" /\ endpoint[x].holder = "issued" /\ interrupts = 0 =>
              \E u \in Threads : \E by \in {"app", "gc"}, pc \in {"ack", "acking"} :
                Closing(u, x, by, pc)'
        BY <1>13 DEF IInv, Attended
      <3>3. CASE endpoint[x].leased /\ ref[Pin(x)] # "live"
        <4>1. PICK u \in Threads : InBatch(u, Pin(x)) /\ (Finalized(u, Pin(x)) => Finishing(u, x))
          BY <3>3 DEF IInv, Attended
        <4>2. InBatch(u, Pin(x))' /\ (Finalized(u, Pin(x))' => Finishing(u, x)')
          BY <1>9, <1>12, <4>1 DEF SameBatches
        <4> QED BY <1>2, <1>7, <2>2, <3>1, <3>2, <4>2
      <3> QED BY <1>2, <1>7, <1>16, <2>2, <3>1, <3>2, <3>3
    <2> QED BY <2>1, <2>2
  <1>25. Requested'
    <2>1. ~endpoint[e].closeRequested
      BY <1>4, <1>5, <1>17, Finalizers DEF IInv, Requested
    <2>2. \A u \in Threads, o \in Objects : Finalized(u, o)' <=> Finalized(u, o)
      BY <1>9 DEF SameBatches
    <2>3. \A x \in Locals : Wrap(x) \in Objects
      BY Names
    <2>4. \A x \in Locals : endpoint'[x].closeRequested =>
            ref'[Wrap(x)] = "dead" \/ \E u \in Threads : Finalized(u, Wrap(x))'
      BY <1>7, <1>16, <2>1, <2>2, <2>3 DEF IInv, Requested
    <2>5. object'.closeRequested => ref'[Shm] = "dead" \/ \E u \in Threads : Finalized(u, Shm)'
      BY <1>2, <1>16, <2>2 DEF IInv, Requested
    <2>6. \A u \in Threads : /\ \A x \in Locals : Finalized(u, Wrap(x))' => endpoint'[x].closeRequested
                             /\ Finalized(u, Shm)' => object'.closeRequested
      BY <1>2, <1>7, <1>16, <2>2, <2>3 DEF IInv, Requested
    <2> QED BY <2>4, <2>5, <2>6 DEF Requested, Wrap, Shm
  <1>26. Pursued'
    <2>1. \A u \in Threads : ~Finalized(u, Wrap(e)) /\ ~Finalized(u, Shm)
      BY <1>17, Finalizers DEF IInv
    <2>2. \A x \in Locals : x # e => (Connected(x)' <=> Connected(x))
      BY <1>7 DEF Connected
    <2>3. \A x \in Locals : Connected(x)' /\ Wrap(x) \notin failed' =>
            /\ ref'[Wrap(x)] # "dead"
            /\ \A u \in Threads : Finalized(u, Wrap(x))' =>
                 endpoint'[x].leased \/ Closing(u, x, "gc", "enter")'
      <3>1. ASSUME NEW x \in Locals, x # e, Connected(x), Wrap(x) \notin failed
            PROVE  /\ ref[Wrap(x)] # "dead"
                   /\ \A u \in Threads : Finalized(u, Wrap(x)) =>
                        endpoint[x].leased \/ Closing(u, x, "gc", "enter")
        BY <3>1 DEF IInv, Pursued
      <3> QED BY <1>2, <1>7, <1>9, <1>13, <1>16, <2>1, <2>2, <3>1 DEF SameBatches
    <2>4. object'.alive /\ ~Outstanding' =>
            /\ ref'[Shm] # "dead"
            /\ \A u \in Threads : Finalized(u, Shm)' =>
                 \/ LifeClosing(u)'
                 \/ \E x \in Locals, pc \in {"ack", "acking"} : Closing(u, x, "gc", pc)'
      BY <1>5, <1>9, <1>16, <2>1 DEF SameBatches
    <2>5. ref'[Shm] # "none" /\ \A u \in Threads : ~LifeClosing(u)'
      BY <1>5, <1>12, <1>16, <1>17
    <2> QED BY <2>3, <2>4, <2>5 DEF Pursued, Wrap, Shm
  <1>27. HealthyNeverRetained'
    BY <1>2, <1>6, Sides DEF IInv, HealthyNeverRetained, SameHolders
  <1> QED BY <1>8, <1>18, <1>19, <1>20, <1>21, <1>22, <1>23, <1>24, <1>25, <1>26, <1>27 DEF IInv
-----------------------------------------------------------------------------
(***************************************************************************)
(* Closes.                                                                 *)
(***************************************************************************)

\* What a step of a close changes: that close, and the one of the manager it calls.
ClosingOnly(t, f, Y) ==
  /\ \A u \in Threads : /\ \A x : /\ Attaching(u, x)' <=> Attaching(u, x)
                                  /\ Finishing(u, x)' <=> Finishing(u, x)
                        /\ u # t => (LifeClosing(u)' <=> LifeClosing(u))
                        /\ \A x, b, p : ~(u = t /\ b = f.by) =>
                             (Closing(u, x, b, p)' <=> Closing(u, x, b, p))
  /\ ~LifeClosing(t) /\ (LifeClosing(t)' <=> \E g \in Y : g.op = "life_close")
  /\ \A x, p : Closing(t, x, f.by, p) <=> x = f.on /\ p = f.pc
  /\ \A x, p : Closing(t, x, f.by, p)' <=> \E g \in Y : g.op = "close" /\ g.on = x /\ g.pc = p

\* A step within a close changes no batch and no call but that close.
LEMMA CloseFrames ==
  ASSUME IInv, NEW t \in Threads, ~Resting(t), NEW f, f = Top(t), f.op = "close",
         NEW B, B = Below(t), NEW F, F = Frames(t)', NEW Y, Others(t),
         F \subseteq Y \cup B, Y \subseteq F, \A g \in B : g.op # "close_shm" => g \in F,
         \A g \in Y : \/ g.op = "close" /\ g.on = f.on /\ g.by = f.by
                      \/ g.op = "life_close"
  PROVE  SameBatches /\ ClosingOnly(t, f, Y)
  <1>1. /\ Frames(t) = {f} \cup B /\ f \in FrameSet /\ Formed(f)
        /\ \A g \in B : /\ g.op \notin {"life_close", "finish"}
                        /\ f.by = "app" => g.op = "close_shm"
                        /\ ~(g.op = "close" /\ g.by = "gc")
    BY TopFacts DEF IInv
  <1>2. f.by \in {"app", "gc"} /\ \A g \in B : ~(g.op = "close" /\ g.by = f.by)
    BY <1>1 DEF FrameSet
  <1>3. \A u \in Threads \ {t} : Frames(u)' = Frames(u)
    BY DEF Others
  <1>4. SameBatches
    <2>1. Batches(t)' = Batches(t)
      <3>1. \A g \in Batches(t)' : g \in F /\ g.op = "collect"
        BY DEF Batches
      <3>2. \A g \in F : g.op = "collect" => g \in Batches(t)
        BY <1>1 DEF Batches
      <3>3. \A g \in Batches(t) : g \in F /\ g.op = "collect"
        BY <1>1 DEF Batches
      <3>4. \A g \in F : g.op = "collect" => g \in Batches(t)'
        BY DEF Batches
      <3> QED BY <3>1, <3>2, <3>3, <3>4
    <2>2. \A u \in Threads : Batches(u)' = Batches(u)
      BY <1>3, <2>1 DEF Batches
    <2> QED BY <2>2 DEF SameBatches, Collects, InBatch, Finalized
  <1>5. ASSUME NEW u \in Threads, NEW x
        PROVE  (Attaching(u, x)' <=> Attaching(u, x)) /\ (Finishing(u, x)' <=> Finishing(u, x))
    BY <1>1, <1>3 DEF Attaching, Finishing
  <1>6. ASSUME NEW u \in Threads, u # t PROVE LifeClosing(u)' <=> LifeClosing(u)
    BY <1>3, <1>6 DEF LifeClosing
  <1>7. ASSUME NEW u \in Threads, NEW x, NEW b, NEW p, ~(u = t /\ b = f.by)
        PROVE  Closing(u, x, b, p)' <=> Closing(u, x, b, p)
    BY <1>1, <1>3, <1>7 DEF Closing
  <1>8. ~LifeClosing(t) /\ (LifeClosing(t)' <=> \E g \in Y : g.op = "life_close")
    BY <1>1 DEF LifeClosing
  <1>9. ASSUME NEW x, NEW p PROVE Closing(t, x, f.by, p) <=> x = f.on /\ p = f.pc
    BY <1>1, <1>2 DEF Closing
  <1>10. ASSUME NEW x, NEW p
         PROVE  Closing(t, x, f.by, p)' <=> \E g \in Y : g.op = "close" /\ g.on = x /\ g.pc = p
    BY <1>2 DEF Closing
  <1> QED BY <1>4, <1>5, <1>6, <1>7, <1>8, <1>9, <1>10 DEF ClosingOnly

\* A close that waits, goes on or returns and changes nothing.
LEMMA CloseQuiet ==
  ASSUME IInv, TypeOK', Shapes', Mutex', InService', SameBatches,
         NEW t \in Threads, NEW f, NEW Y, ClosingOnly(t, f, Y), \A g \in Y : g.op # "life_close",
         f.by \in {"app", "gc"},
         \A g \in Y : f.pc = "ack" /\ g.pc = "acking" /\ g.on = f.on,
         f.pc = "ack" => \E g \in Y : g.op = "close", f.pc # "acking",
         f.pc = "enter" /\ f.by = "gc" /\ f.on \in Locals => ~Connected(f.on),
         UNCHANGED <<object, endpoint, ref, child, failed, interrupts>>
  PROVE  IInv'
  <1>1. \A u \in Threads : /\ \A x : /\ Attaching(u, x)' <=> Attaching(u, x)
                                     /\ Finishing(u, x)' <=> Finishing(u, x)
                           /\ LifeClosing(u)' <=> LifeClosing(u)
    BY DEF ClosingOnly
  <1>2. ASSUME NEW u \in Threads, NEW x, NEW b, NEW p, Closing(u, x, b, p)'
        PROVE  Closing(u, x, b, p) \/ (p = "acking" /\ Closing(u, x, b, "ack"))
    BY <1>2 DEF ClosingOnly
  <1>3. ASSUME NEW u \in Threads, NEW x, NEW b, NEW p \in {"ack", "acking"}, Closing(u, x, b, p)
        PROVE  \E q \in {"ack", "acking"} : Closing(u, x, b, q)'
    <2>1. CASE u = t /\ b = f.by
      <3>1. x = f.on /\ f.pc = "ack"
        BY <1>3, <2>1 DEF ClosingOnly
      <3>2. Closing(t, x, f.by, "acking")'
        BY <3>1 DEF ClosingOnly
      <3> QED BY <2>1, <3>2
    <2>2. CASE ~(u = t /\ b = f.by)
      BY <1>3, <2>2 DEF ClosingOnly
    <2> QED BY <2>1, <2>2
  <1>4. ASSUME NEW u \in Threads, NEW x \in Locals, Connected(x), Closing(u, x, "gc", "enter")
        PROVE  Closing(u, x, "gc", "enter")'
    BY <1>4 DEF ClosingOnly
  <1>5. Garbage' /\ Requested'
    BY KeepGarbage, KeepRequested DEF IInv
  <1>6. Statuses'
    <2>1. \A x \in Endpoints : Connected(x)' <=> Connected(x)
      BY DEF Connected
    <2> QED BY <2>1 DEF IInv, Statuses, Wrap
  <1>7. Informed'
    <2>1. \A u \in Threads, x \in Locals :
            /\ Attaching(u, x)' => endpoint'[x].holder = "issued" /\ endpoint'[x].conn = "none"
            /\ Finishing(u, x)' => endpoint'[x].leased
            /\ Closing(u, x, "gc", "enter")' => ~endpoint'[x].leased
      BY <1>1, <1>2 DEF IInv, Informed
    <2>2. \A u \in Threads, x \in Locals : \A by \in {"app", "gc"} :
            /\ \A pc \in {"ack", "acking", "closed"} :
                 Closing(u, x, by, pc)' => endpoint'[x].conn = "gone"
            /\ Closing(u, x, by, "closed")' => endpoint'[x].holder # "issued"
      BY <1>2 DEF IInv, Informed
    <2>3. \A u, v \in Threads, x \in Locals : Attaching(u, x)' /\ Attaching(v, x)' => u = v
      BY <1>1 DEF IInv, Informed
    <2> QED BY <2>1, <2>2, <2>3 DEF Informed
  <1>8. Attended'
    <2> SUFFICES ASSUME NEW x \in Locals
        PROVE /\ endpoint'[x].conn = "none" /\ endpoint'[x].holder = "issued" =>
                   \E u \in Threads : Attaching(u, x)'
              /\ endpoint'[x].conn = "gone" /\ endpoint'[x].holder = "issued" /\ interrupts' = 0 =>
                   \E u \in Threads : \E by \in {"app", "gc"}, pc \in {"ack", "acking"} :
                     Closing(u, x, by, pc)'
              /\ endpoint'[x].leased =>
                   \/ ref'[Pin(x)] = "live"
                   \/ \E u \in Threads : /\ InBatch(u, Pin(x))'
                                         /\ Finalized(u, Pin(x))' => Finishing(u, x)'
      BY DEF Attended, Pin
    <2>1. endpoint[x].conn = "none" /\ endpoint[x].holder = "issued" =>
            \E u \in Threads : Attaching(u, x)'
      BY <1>1 DEF IInv, Attended
    <2>2. endpoint[x].conn = "gone" /\ endpoint[x].holder = "issued" /\ interrupts = 0 =>
            \E u \in Threads : \E by \in {"app", "gc"}, pc \in {"ack", "acking"} :
              Closing(u, x, by, pc)'
      BY <1>3 DEF IInv, Attended
    <2>3. CASE endpoint[x].leased /\ ref[Pin(x)] # "live"
      <3>1. PICK u \in Threads : InBatch(u, Pin(x)) /\ (Finalized(u, Pin(x)) => Finishing(u, x))
        BY <2>3 DEF IInv, Attended
      <3>2. InBatch(u, Pin(x))' /\ (Finalized(u, Pin(x))' => Finishing(u, x)')
        BY <1>1, <3>1 DEF SameBatches
      <3> QED BY <2>1, <2>2, <3>2
    <2> QED BY <2>1, <2>2, <2>3
  <1>9. Pursued'
    <2>1. (\A x \in Locals : Connected(x)' <=> Connected(x)) /\ Connections' = Connections
      BY DEF Connected, Connections
    <2>2. \A x \in Locals : Connected(x)' /\ Wrap(x) \notin failed' =>
            /\ ref'[Wrap(x)] # "dead"
            /\ \A u \in Threads : Finalized(u, Wrap(x))' =>
                 endpoint'[x].leased \/ Closing(u, x, "gc", "enter")'
      BY <1>4, <2>1 DEF IInv, Pursued, SameBatches
    <2>3. Outstanding' <=> Outstanding
      BY <2>1 DEF Outstanding, Shm, Wrap
    <2>4. ASSUME object.alive, ~Outstanding
          PROVE  /\ ref[Shm] # "dead"
                 /\ \A u \in Threads : Finalized(u, Shm)' =>
                      \/ LifeClosing(u)'
                      \/ \E x \in Locals, pc \in {"ack", "acking"} : Closing(u, x, "gc", pc)'
      BY <1>1, <1>3, <2>4 DEF IInv, Pursued, SameBatches
    <2>5. ref'[Shm] # "none" /\ \A u \in Threads : LifeClosing(u)' => Closable'
      BY <1>1, <2>1 DEF IInv, Pursued, Closable
    <2> QED BY <2>2, <2>3, <2>4, <2>5 DEF Pursued, Wrap, Shm
  <1>10. HealthyNeverRetained'
    BY DEF IInv, HealthyNeverRetained
  <1> QED BY <1>5, <1>6, <1>7, <1>8, <1>9, <1>10 DEF IInv

\* A close on top of its thread.
LEMMA CloseOnTop ==
  ASSUME IInv, NEW t \in Threads, NEW pc, At(t, "close", pc), NEW f, f = Top(t)
  PROVE  /\ ~Resting(t) /\ f \in FrameSet /\ Formed(f) /\ f.op = "close" /\ f.pc = pc
         /\ f.on \in Locals /\ f.on \in Endpoints /\ f.on \in Locks /\ f.by \in {"app", "gc"}
         /\ Closing(t, f.on, f.by, pc)
         /\ f.by = "app" => App(t) /\ WorksOn(t, f.on)
         /\ f.by = "gc" => Finalized(t, Wrap(f.on)) /\ InBatch(t, Wrap(f.on))
         /\ pc = "enter" => f.locks = {}
         /\ pc \in {"ack", "closed"} => f.locks = {f.on}
         /\ pc = "acking" => f.locks = {f.on, A}
         /\ pc \in {"enter", "ack", "acking", "closed"}
  <1>1. ~Resting(t) /\ f \in FrameSet /\ Formed(f) /\ f.op = "close" /\ f.pc = pc
    BY Running DEF IInv
  <1>2. f.on \in Locals /\ f.on \in Endpoints /\ f.on \in Locks /\ f.by \in {"app", "gc"}
    BY <1>1, Sides DEF Formed, FrameSet
  <1>3. pc \in {"enter", "ack", "acking", "closed"}
    BY <1>1 DEF Formed
  <1>4. /\ pc = "enter" => f.locks = {}
        /\ pc \in {"ack", "closed"} => f.locks = {f.on}
        /\ pc = "acking" => f.locks = {f.on, A}
    BY <1>1 DEF Formed
  <1>5. /\ Closing(t, f.on, f.by, pc)
        /\ f.by = "app" => App(t) /\ WorksOn(t, f.on)
        /\ f.by = "gc" => Finalized(t, Wrap(f.on)) /\ InBatch(t, Wrap(f.on))
    BY <1>1, Doing, Finalizers DEF IInv
  <1> QED BY <1>1, <1>2, <1>3, <1>4, <1>5

\* It returns, alone or with the close of the manager that called it.
LEMMA CloseLeaves ==
  ASSUME IInv, NEW t \in Threads, NEW pc, At(t, "close", pc), Return(t) \/ Raise(t),
         NEW f, f = Top(t), NEW Y, Y = {}
  PROVE  /\ stack' \in [Threads -> Seq(FrameSet)] /\ Shapes' /\ Lessens(t)
         /\ SameBatches /\ ClosingOnly(t, f, Y)
  <1>1. PICK B, F : B = Below(t) /\ F = Frames(t)'
    OBVIOUS
  <1>2. ~Resting(t) /\ f.op = "close"
    BY CloseOnTop
  <1>3. /\ stack' \in [Threads -> Seq(FrameSet)] /\ Shapes' /\ Others(t)
        /\ F \subseteq B /\ \A g \in B : g.op # "close_shm" => g \in F
    BY <1>1, <1>2, ReturnStack, RaiseStack DEF IInv
  <1>4. SameBatches /\ ClosingOnly(t, f, Y)
    <2>1. /\ F \subseteq Y \cup B /\ Y \subseteq F
          /\ \A g \in Y : g.op = "close" /\ g.on = f.on /\ g.by = f.by
      BY <1>3
    <2> QED BY <1>1, <1>2, <1>3, <2>1, CloseFrames
  <1>5. B \subseteq Frames(t)
    BY <1>1, <1>2, TopFacts DEF IInv
  <1>6. Lessens(t)
    BY <1>1, <1>3, <1>5, Lesser
  <1> QED BY <1>3, <1>4, <1>6

\* It goes on.
LEMMA CloseMoves ==
  ASSUME IInv, NEW t \in Threads, NEW pc, At(t, "close", pc), NEW f, f = Top(t),
         NEW g \in FrameSet, Formed(g), Replace(t, g),
         g.op = "close", g.by = f.by, g.on = f.on, g.all = f.all,
         \A l \in g.locks : l \in f.locks \/ Free(t, l),
         NEW Y, Y = {g}
  PROVE  /\ stack' \in [Threads -> Seq(FrameSet)] /\ Shapes' /\ Lessens(t)
         /\ SameBatches /\ ClosingOnly(t, f, Y)
  <1>1. PICK B, F : B = Below(t) /\ F = Frames(t)'
    OBVIOUS
  <1>2. ~Resting(t) /\ f.op = "close"
    BY CloseOnTop
  <1>3. /\ stack' \in [Threads -> Seq(FrameSet)] /\ Shapes' /\ Lessens(t)
    BY <1>2, Moved
  <1>4. F = Y \cup B /\ Others(t)
    BY <1>1, <1>2, ReplaceStack DEF IInv
  <1>5. SameBatches /\ ClosingOnly(t, f, Y)
    <2>1. F \subseteq Y \cup B /\ Y \subseteq F /\ \A k \in B : k.op # "close_shm" => k \in F
      BY <1>4
    <2>2. \A k \in Y : k.op = "close" /\ k.on = f.on /\ k.by = f.by
      OBVIOUS
    <2> QED BY <1>1, <1>2, <1>4, <2>1, <2>2, CloseFrames
  <1> QED BY <1>3, <1>5

\* A close returns, its endpoint acknowledged; one by the collector may go on to
\* close the authority.
LEMMA CloseReturnsStep ==
  ASSUME IInv, NEW t \in Threads, CloseReturns(t)
  PROVE  IInv'
  <1>1. PICK f, Y : f = Top(t) /\ Y = {}
    OBVIOUS
  <1>2. /\ At(t, "close", "closed") /\ Return(t)
        /\ UNCHANGED <<object, endpoint, ref, held, child, failed, interrupts>>
    BY DEF CloseReturns
  <1>3. f.pc = "closed" /\ f.by \in {"app", "gc"}
    BY <1>1, <1>2, CloseOnTop
  <1>4. /\ stack' \in [Threads -> Seq(FrameSet)] /\ Shapes' /\ Lessens(t)
        /\ SameBatches /\ ClosingOnly(t, f, Y)
    BY <1>1, <1>2, CloseLeaves
  <1>5. TypeOK' /\ Mutex' /\ InService'
    BY <1>2, <1>4, KeepService DEF IInv, TypeOK
  <1> QED BY <1>1, <1>2, <1>3, <1>4, <1>5, CloseQuiet

\* A close that has detached takes the authority's lock to acknowledge.
LEMMA AckStep ==
  ASSUME IInv, NEW t \in Threads, Ack(t)
  PROVE  IInv'
  <1>1. PICK f, g, Y : f = Top(t) /\ g = [f EXCEPT !.pc = "acking", !.locks = @ \cup {A}] /\ Y = {g}
    OBVIOUS
  <1>2. /\ At(t, "close", "ack") /\ Replace(t, g) /\ Free(t, A)
        /\ UNCHANGED <<object, endpoint, ref, held, child, failed, interrupts>>
    BY <1>1 DEF Ack, Lock
  <1>3. /\ f \in FrameSet /\ Formed(f) /\ f.op = "close" /\ f.pc = "ack"
        /\ f.on \in Locals /\ f.on \in Locks /\ f.by \in {"app", "gc"} /\ f.locks = {f.on}
    BY <1>1, <1>2, CloseOnTop
  <1>4. /\ g \in FrameSet /\ g.op = "close" /\ g.pc = "acking" /\ g.by = f.by /\ g.on = f.on
        /\ g.all = f.all /\ g.locks = {f.on, A}
    BY <1>1, <1>3, Sides DEF FrameSet
  <1>5. Formed(g)
    BY <1>3, <1>4 DEF Formed
  <1>6. /\ stack' \in [Threads -> Seq(FrameSet)] /\ Shapes' /\ Lessens(t)
        /\ SameBatches /\ ClosingOnly(t, f, Y)
    BY <1>1, <1>2, <1>3, <1>4, <1>5, CloseMoves
  <1>7. TypeOK' /\ Mutex' /\ InService'
    BY <1>2, <1>6, KeepService DEF IInv, TypeOK
  <1>8. /\ \A k \in Y : k = g /\ k.op # "life_close"
        /\ \A k \in Y : f.pc = "ack" /\ k.pc = "acking" /\ k.on = f.on
        /\ \E k \in Y : k.op = "close"
    BY <1>1, <1>3, <1>4
  <1> QED BY <1>2, <1>3, <1>6, <1>7, <1>8, CloseQuiet

\* A connection is detached: its holder was issued, nobody attaches it or
\* finishes a lease of it, and its receipt is acknowledged next.
LEMMA DetachStep ==
  ASSUME IInv, NEW t \in Threads, NEW f, NEW e, NEW g, NEW Y, f.by \in {"app", "gc"},
         e = f.on, e \in Locals, f.pc = "enter", ~LifeClosing(t),
         f.by = "app" => App(t) /\ WorksOn(t, e), f.by = "gc" => Finalized(t, Wrap(e)),
         Connected(e), ~endpoint[e].leased,
         endpoint' \in [Endpoints -> EndpointSet], endpoint'[e].conn = "gone",
         Elsewhere(e), SameHolders, SameLeases, SameRequests,
         UNCHANGED <<object, ref, held, child, failed, interrupts>>,
         stack' \in [Threads -> Seq(FrameSet)], Shapes', Lessens(t), SameBatches,
         ClosingOnly(t, f, Y), Y = {g}, g.op = "close", g.pc = "ack", g.on = e
  PROVE  IInv'
  <1>1. e \in Endpoints /\ \A x \in Locals : x \in Endpoints
    BY Sides
  <1>2. /\ endpoint' \in [Endpoints -> EndpointSet] /\ endpoint'[e].conn = "gone"
        /\ Elsewhere(e) /\ SameHolders /\ SameLeases /\ SameRequests
    OBVIOUS
  <1>3. \A x \in Locals : /\ endpoint'[x].holder = endpoint[x].holder
                          /\ endpoint'[x].leased = endpoint[x].leased
                          /\ endpoint'[x].closeRequested = endpoint[x].closeRequested
                          /\ x # e => endpoint'[x].conn = endpoint[x].conn
    BY <1>1, <1>2 DEF Elsewhere, SameHolders, SameLeases, SameRequests
  <1>4. /\ endpoint[e].holder = "issued" /\ endpoint[e].conn \in {"open", "rejected"}
        /\ ref[Wrap(e)] # "none"
    BY <1>1 DEF Connected, IInv, Statuses
  <1>5. \A u \in Threads : ~LifeClosing(u)
    <2>1. e \in Connections
      BY DEF Connections
    <2> QED BY <2>1 DEF IInv, Pursued, Closable
  <1>6. \A u \in Threads : /\ \A x : /\ Attaching(u, x)' <=> Attaching(u, x)
                                     /\ Finishing(u, x)' <=> Finishing(u, x)
                           /\ ~LifeClosing(u)'
    BY <1>5 DEF ClosingOnly
  <1>7. ASSUME NEW u \in Threads, NEW x, NEW b, NEW p, Closing(u, x, b, p)'
        PROVE  Closing(u, x, b, p) \/ (x = e /\ p = "ack")
    BY <1>7 DEF ClosingOnly
  <1>8. ASSUME NEW u \in Threads, NEW x, NEW b, NEW p, Closing(u, x, b, p), p # "enter" \/ x # e
        PROVE  Closing(u, x, b, p)'
    BY <1>8 DEF ClosingOnly
  <1>9. Closing(t, e, f.by, "ack")'
    BY DEF ClosingOnly
  <1>10. TypeOK'
    BY <1>2 DEF IInv, TypeOK
  <1>11. Mutex' /\ InService' /\ Garbage' /\ Requested'
    BY <1>3, KeepService, KeepGarbage, KeepRequested DEF IInv
  <1>12. Statuses'
    <2>1. \A x \in Endpoints : /\ Connected(x)' => Connected(x)
                               /\ endpoint'[x].holder = endpoint[x].holder
      BY <1>2 DEF Connected, SameHolders, Elsewhere
    <2>2. \A x \in Locals :
            /\ endpoint'[x].conn = "none" <=> ref'[Wrap(x)] = "none"
            /\ endpoint'[x].holder \in {"none", "registered"} => endpoint'[x].conn = "none"
            /\ endpoint'[x].holder = "resolved" => endpoint'[x].conn = "gone"
            /\ endpoint'[x].leased => endpoint'[x].conn = "open"
      BY <1>2, <1>3, <1>4 DEF IInv, Statuses
    <2> QED BY <2>1, <2>2 DEF IInv, Statuses, Wrap
  <1>13. Informed'
    <2>1. \A u \in Threads, x \in Locals :
            /\ Attaching(u, x)' => endpoint'[x].holder = "issued" /\ endpoint'[x].conn = "none"
            /\ Finishing(u, x)' => endpoint'[x].leased
            /\ Closing(u, x, "gc", "enter")' => ~endpoint'[x].leased
      BY <1>3, <1>4, <1>6, <1>7 DEF IInv, Informed
    <2>2. ASSUME NEW u \in Threads, NEW x \in Locals, NEW by \in {"app", "gc"}
          PROVE  /\ \A pc \in {"ack", "acking", "closed"} :
                      Closing(u, x, by, pc)' => endpoint'[x].conn = "gone"
                 /\ Closing(u, x, by, "closed")' => endpoint'[x].holder # "issued"
      BY <1>2, <1>3, <1>7 DEF IInv, Informed
    <2>3. \A u, v \in Threads, x \in Locals : Attaching(u, x)' /\ Attaching(v, x)' => u = v
      BY <1>6 DEF IInv, Informed
    <2> QED BY <2>1, <2>2, <2>3 DEF Informed
  <1>14. Attended'
    <2> SUFFICES ASSUME NEW x \in Locals
        PROVE /\ endpoint'[x].conn = "none" /\ endpoint'[x].holder = "issued" =>
                   \E u \in Threads : Attaching(u, x)'
              /\ endpoint'[x].conn = "gone" /\ endpoint'[x].holder = "issued" /\ interrupts' = 0 =>
                   \E u \in Threads : \E by \in {"app", "gc"}, pc \in {"ack", "acking"} :
                     Closing(u, x, by, pc)'
              /\ endpoint'[x].leased =>
                   \/ ref'[Pin(x)] = "live"
                   \/ \E u \in Threads : /\ InBatch(u, Pin(x))'
                                         /\ Finalized(u, Pin(x))' => Finishing(u, x)'
      BY DEF Attended, Pin
    <2>1. CASE x = e
      BY <1>2, <1>3, <1>9, <2>1
    <2>2. CASE x # e
      <3>1. endpoint[x].conn = "none" /\ endpoint[x].holder = "issued" =>
              \E u \in Threads : Attaching(u, x)'
        BY <1>6 DEF IInv, Attended
      <3>2. endpoint[x].conn = "gone" /\ endpoint[x].holder = "issued" /\ interrupts = 0 =>
              \E u \in Threads : \E by \in {"app", "gc"}, pc \in {"ack", "acking"} :
                Closing(u, x, by, pc)'
        BY <1>8, <2>2 DEF IInv, Attended
      <3>3. CASE endpoint[x].leased /\ ref[Pin(x)] # "live"
        <4>1. PICK u \in Threads : InBatch(u, Pin(x)) /\ (Finalized(u, Pin(x)) => Finishing(u, x))
          BY <3>3 DEF IInv, Attended
        <4>2. InBatch(u, Pin(x))' /\ (Finalized(u, Pin(x))' => Finishing(u, x)')
          BY <1>6, <4>1 DEF SameBatches
        <4> QED BY <1>3, <2>2, <3>1, <3>2, <4>2
      <3> QED BY <1>3, <2>2, <3>1, <3>2, <3>3
    <2> QED BY <2>1, <2>2
  <1>15. Pursued'
    <2>1. /\ \A x \in Locals : x # e => (Connected(x)' <=> Connected(x))
          /\ ~Connected(e)'
      BY <1>2, <1>3 DEF Connected
    <2>2. ASSUME NEW x \in Locals, Connected(x)', Wrap(x) \notin failed'
          PROVE  /\ ref'[Wrap(x)] # "dead"
                 /\ \A u \in Threads : Finalized(u, Wrap(x))' =>
                      endpoint'[x].leased \/ Closing(u, x, "gc", "enter")'
      <3>1. x # e /\ Connected(x) /\ Wrap(x) \notin failed
        BY <2>1, <2>2
      <3>2. /\ ref[Wrap(x)] # "dead"
            /\ \A u \in Threads : Finalized(u, Wrap(x)) =>
                 endpoint[x].leased \/ Closing(u, x, "gc", "enter")
        BY <3>1 DEF IInv, Pursued
      <3> QED BY <1>3, <1>8, <3>1, <3>2 DEF SameBatches
    <2>3. ref[Shm] # "dead"
      <3>1. f.by = "app" => ref[Shm] = "live"
        BY DEF IInv, InService
      <3>2. f.by = "gc" => Alive(Shm)
        BY Finalizers, Together DEF IInv
      <3> QED BY <3>1, <3>2 DEF Alive
    <2>4. ASSUME NEW u \in Threads, Finalized(u, Shm)
          PROVE  \E x \in Locals, pc \in {"ack", "acking"} : Closing(u, x, "gc", pc)'
      <3>1. InBatch(u, Shm)
        BY <2>4, Finalizers DEF IInv
      <3>2. f.by = "gc" /\ InBatch(t, Wrap(e))
        BY <3>1, Untouched, Finalizers DEF IInv
      <3>3. u = t
        BY <3>1, <3>2, Together DEF IInv
      <3> QED BY <1>9, <3>2, <3>3
    <2>5. \A u \in Threads : Finalized(u, Shm)' => Finalized(u, Shm)
      BY DEF SameBatches
    <2>6. ref[Shm] # "none"
      BY DEF IInv, Pursued
    <2> QED BY <1>6, <2>2, <2>3, <2>4, <2>5, <2>6 DEF Pursued, Wrap, Shm
  <1>16. HealthyNeverRetained'
    BY <1>2, Sides DEF IInv, HealthyNeverRetained, SameHolders
  <1> QED BY <1>10, <1>11, <1>12, <1>13, <1>14, <1>15, <1>16 DEF IInv

\* A close takes its endpoint's lock: it refuses, detaches, or finds it gone.
LEMMA CloseEnterStep ==
  ASSUME IInv, NEW t \in Threads, CloseEnter(t)
  PROVE  IInv'
  <1>1. PICK f, e, Z : f = Top(t) /\ e = f.on /\ Z = {}
    OBVIOUS
  <1>2. /\ At(t, "close", "enter") /\ Free(t, e)
        /\ UNCHANGED <<object, ref, held, child, interrupts>>
    BY <1>1 DEF CloseEnter
  <1>3. /\ ~Resting(t) /\ f \in FrameSet /\ Formed(f) /\ f.op = "close" /\ f.pc = "enter"
        /\ e \in Locals /\ e \in Endpoints /\ e \in Locks /\ f.by \in {"app", "gc"}
        /\ Closing(t, e, f.by, "enter") /\ f.locks = {}
        /\ f.by = "app" => App(t) /\ WorksOn(t, e)
        /\ f.by = "gc" => Finalized(t, Wrap(e))
    BY <1>1, <1>2, CloseOnTop
  <1>4. CASE ~Connected(e) /\ Return(t) /\ UNCHANGED <<endpoint, failed>>
    <2>1. /\ stack' \in [Threads -> Seq(FrameSet)] /\ Shapes' /\ Lessens(t)
          /\ SameBatches /\ ClosingOnly(t, f, Z)
      BY <1>1, <1>2, <1>4, CloseLeaves
    <2>2. TypeOK' /\ Mutex' /\ InService'
      BY <1>2, <1>4, <2>1, KeepService DEF IInv, TypeOK
    <2> QED BY <1>1, <1>2, <1>3, <1>4, <2>1, <2>2, CloseQuiet
  <1>5. CASE Connected(e) /\ Busy(e) /\ Raise(t) /\ Recorded(t, Wrap(e)) /\ UNCHANGED endpoint
    <2>1. f.by = "app"
      BY <1>3, <1>5 DEF IInv, Informed, Busy
    <2>2. failed' = failed
      BY <1>1, <1>5, <2>1 DEF Recorded
    <2>3. /\ stack' \in [Threads -> Seq(FrameSet)] /\ Shapes' /\ Lessens(t)
          /\ SameBatches /\ ClosingOnly(t, f, Z)
      BY <1>1, <1>2, <1>5, CloseLeaves
    <2>4. TypeOK' /\ Mutex' /\ InService'
      BY <1>2, <1>5, <2>2, <2>3, KeepService DEF IInv, TypeOK
    <2> QED BY <1>1, <1>2, <1>3, <1>5, <2>1, <2>2, <2>3, <2>4, CloseQuiet
  <1>6. CASE /\ Connected(e) /\ ~Busy(e) /\ Lock(t, e, "ack")
             /\ endpoint' = [endpoint EXCEPT ![e].conn = "gone"] /\ UNCHANGED failed
    <2>1. PICK g, Y : g = [f EXCEPT !.pc = "ack", !.locks = @ \cup {e}] /\ Y = {g}
      OBVIOUS
    <2>2. /\ g \in FrameSet /\ g.op = "close" /\ g.pc = "ack" /\ g.by = f.by /\ g.on = f.on
          /\ g.all = f.all /\ g.locks = {e}
      BY <1>1, <1>3, <2>1 DEF FrameSet
    <2>3. Formed(g)
      BY <1>1, <1>3, <2>2 DEF Formed
    <2>4. Replace(t, g)
      BY <1>1, <1>6, <2>1 DEF Lock
    <2>5. /\ stack' \in [Threads -> Seq(FrameSet)] /\ Shapes' /\ Lessens(t)
          /\ SameBatches /\ ClosingOnly(t, f, Y)
      BY <1>1, <1>2, <1>3, <2>1, <2>2, <2>3, <2>4, CloseMoves
    <2>6. ~LifeClosing(t)
      BY <2>5 DEF ClosingOnly
    <2>7. /\ f.by = "app" => App(t) /\ WorksOn(t, e)
          /\ f.by = "gc" => Finalized(t, Wrap(e))
          /\ e = f.on /\ e \in Locals /\ f.by \in {"app", "gc"} /\ f.pc = "enter"
          /\ g.on = e /\ g.op = "close" /\ g.pc = "ack" /\ Y = {g}
      BY <1>1, <1>3, <2>1, <2>2
    <2>8. /\ ~endpoint[e].leased /\ Connected(e)
          /\ UNCHANGED <<object, ref, held, child, failed, interrupts>>
      BY <1>2, <1>6 DEF Busy
    <2>9. /\ endpoint' \in [Endpoints -> EndpointSet] /\ endpoint'[e].conn = "gone"
          /\ Elsewhere(e) /\ SameHolders /\ SameLeases /\ SameRequests
      BY <1>3, <1>6, ConnChange DEF IInv, TypeOK
    <2> QED BY <2>5, <2>6, <2>7, <2>8, <2>9, DetachStep
  <1> QED BY <1>1, <1>4, <1>5, <1>6 DEF CloseEnter

\* An interrupted acknowledgement is recorded, or seen by the application.
LEMMA AckInterruptedStep ==
  ASSUME IInv, NEW t \in Threads, AckInterrupted(t)
  PROVE  IInv'
  <1>1. PICK f, e, Y : f = Top(t) /\ e = f.on /\ Y = {}
    OBVIOUS
  <1>2. /\ At(t, "close", "ack") /\ Raise(t) /\ Recorded(t, Wrap(e)) /\ interrupts' = interrupts + 1
        /\ UNCHANGED <<object, endpoint, ref, held, child>>
    BY <1>1 DEF AckInterrupted
  <1>3. /\ f.pc = "ack" /\ e \in Locals /\ f.by \in {"app", "gc"}
    BY <1>1, <1>2, CloseOnTop
  <1>4. /\ stack' \in [Threads -> Seq(FrameSet)] /\ Shapes' /\ Lessens(t)
        /\ SameBatches /\ ClosingOnly(t, f, Y)
    BY <1>1, <1>2, CloseLeaves
  <1>5. /\ failed' = IF f.by = "gc" THEN failed \cup {Wrap(e)} ELSE failed
        /\ failed \subseteq failed'
    BY <1>1, <1>2 DEF Recorded
  <1>6. interrupts' \in Nat /\ interrupts' # 0
    BY <1>2 DEF IInv, TypeOK
  <1>7. TypeOK'
    BY <1>2, <1>3, <1>4, <1>5, <1>6, Names DEF IInv, TypeOK
  <1>8. Mutex' /\ InService' /\ Garbage' /\ Requested'
    BY <1>2, <1>4, KeepService, KeepGarbage, KeepRequested DEF IInv
  <1>9. \A u \in Threads : /\ \A x : /\ Attaching(u, x)' <=> Attaching(u, x)
                                     /\ Finishing(u, x)' <=> Finishing(u, x)
                           /\ LifeClosing(u)' <=> LifeClosing(u)
    BY <1>1, <1>4 DEF ClosingOnly
  <1>10. ASSUME NEW u \in Threads, NEW x, NEW b, NEW p, Closing(u, x, b, p)'
         PROVE  Closing(u, x, b, p)
    BY <1>1, <1>4, <1>10 DEF ClosingOnly
  <1>11. ASSUME NEW u \in Threads, NEW x, NEW p, Closing(u, x, "gc", p), f.by = "app" \/ p = "enter"
         PROVE  Closing(u, x, "gc", p)'
    BY <1>3, <1>4, <1>11 DEF ClosingOnly
  <1>12. Statuses'
    <2>1. \A x \in Endpoints : Connected(x)' <=> Connected(x)
      BY <1>2 DEF Connected
    <2> QED BY <1>2, <2>1 DEF IInv, Statuses, Wrap
  <1>13. Informed'
    <2>1. \A u \in Threads, x \in Locals :
            /\ Attaching(u, x)' => endpoint'[x].holder = "issued" /\ endpoint'[x].conn = "none"
            /\ Finishing(u, x)' => endpoint'[x].leased
            /\ Closing(u, x, "gc", "enter")' => ~endpoint'[x].leased
      BY <1>2, <1>9, <1>10 DEF IInv, Informed
    <2>2. \A u \in Threads, x \in Locals : \A by \in {"app", "gc"} :
            /\ \A pc \in {"ack", "acking", "closed"} :
                 Closing(u, x, by, pc)' => endpoint'[x].conn = "gone"
            /\ Closing(u, x, by, "closed")' => endpoint'[x].holder # "issued"
      BY <1>2, <1>10 DEF IInv, Informed
    <2>3. \A u, v \in Threads, x \in Locals : Attaching(u, x)' /\ Attaching(v, x)' => u = v
      BY <1>9 DEF IInv, Informed
    <2> QED BY <2>1, <2>2, <2>3 DEF Informed
  <1>14. Attended'
    <2> SUFFICES ASSUME NEW x \in Locals
        PROVE /\ endpoint'[x].conn = "none" /\ endpoint'[x].holder = "issued" =>
                   \E u \in Threads : Attaching(u, x)'
              /\ endpoint'[x].conn = "gone" /\ endpoint'[x].holder = "issued" /\ interrupts' = 0 =>
                   \E u \in Threads : \E by \in {"app", "gc"}, pc \in {"ack", "acking"} :
                     Closing(u, x, by, pc)'
              /\ endpoint'[x].leased =>
                   \/ ref'[Pin(x)] = "live"
                   \/ \E u \in Threads : /\ InBatch(u, Pin(x))'
                                         /\ Finalized(u, Pin(x))' => Finishing(u, x)'
      BY DEF Attended, Pin
    <2>1. endpoint[x].conn = "none" /\ endpoint[x].holder = "issued" =>
            \E u \in Threads : Attaching(u, x)'
      BY <1>9 DEF IInv, Attended
    <2>2. CASE endpoint[x].leased /\ ref[Pin(x)] # "live"
      <3>1. PICK u \in Threads : InBatch(u, Pin(x)) /\ (Finalized(u, Pin(x)) => Finishing(u, x))
        BY <2>2 DEF IInv, Attended
      <3>2. InBatch(u, Pin(x))' /\ (Finalized(u, Pin(x))' => Finishing(u, x)')
        BY <1>4, <1>9, <3>1 DEF SameBatches
      <3> QED BY <1>2, <1>6, <2>1, <3>2
    <2> QED BY <1>2, <1>6, <2>1, <2>2
  <1>15. Pursued'
    <2>1. (\A x \in Locals : Connected(x)' <=> Connected(x)) /\ Connections' = Connections
      BY <1>2 DEF Connected, Connections
    <2>2. \A x \in Locals : Connected(x)' /\ Wrap(x) \notin failed' =>
            /\ ref'[Wrap(x)] # "dead"
            /\ \A u \in Threads : Finalized(u, Wrap(x))' =>
                 endpoint'[x].leased \/ Closing(u, x, "gc", "enter")'
      BY <1>2, <1>4, <1>5, <1>11, <2>1 DEF IInv, Pursued, SameBatches
    <2>3. ~Outstanding' => ~Outstanding /\ f.by = "app"
      BY <1>3, <1>5, <2>1 DEF Outstanding, Shm, Wrap
    <2>4. ASSUME object.alive, ~Outstanding'
          PROVE  /\ ref[Shm] # "dead"
                 /\ \A u \in Threads : Finalized(u, Shm)' =>
                      \/ LifeClosing(u)'
                      \/ \E x \in Locals, pc \in {"ack", "acking"} : Closing(u, x, "gc", pc)'
      BY <1>4, <1>9, <1>11, <2>3, <2>4 DEF IInv, Pursued, SameBatches
    <2>5. ref'[Shm] # "none" /\ \A u \in Threads : LifeClosing(u)' => Closable'
      BY <1>2, <1>9, <2>1 DEF IInv, Pursued, Closable
    <2> QED BY <1>2, <2>2, <2>4, <2>5 DEF Pursued, Wrap, Shm
  <1>16. HealthyNeverRetained'
    BY <1>6 DEF HealthyNeverRetained
  <1> QED BY <1>4, <1>7, <1>8, <1>12, <1>13, <1>14, <1>15, <1>16 DEF IInv

\* The frames once a receipt is acknowledged: the close, and what it calls.
Acked(Y, e) ==
  /\ \A k \in Y : \/ k.op = "close" /\ k.on = e /\ k.pc = "closed"
                  \/ k.op = "life_close"
  /\ Closable <=> \E k \in Y : k.op = "life_close"

\* The holder is resolved; the last of a manager that is to be closed calls it.
LEMMA AckedStep ==
  ASSUME IInv, NEW t \in Threads, NEW f, NEW e, NEW Y, f.by \in {"app", "gc"},
         e = f.on, e \in Locals, f.pc = "acking", Closing(t, e, f.by, "acking"),
         endpoint' \in [Endpoints -> EndpointSet], endpoint'[e].holder = "resolved",
         Elsewhere(e), SameConns, SameLeases, SameRequests,
         UNCHANGED <<object, ref, held, child, failed, interrupts>>,
         stack' \in [Threads -> Seq(FrameSet)], Shapes', Lessens(t), SameBatches,
         ClosingOnly(t, f, Y), Acked(Y, e)
  PROVE  IInv'
  <1>1. e \in Endpoints /\ \A x \in Locals : x \in Endpoints
    BY Sides
  <1>2. endpoint[e].conn = "gone"
    BY DEF IInv, Informed
  <1>3. \A x \in Locals : /\ endpoint'[x].conn = endpoint[x].conn
                          /\ endpoint'[x].leased = endpoint[x].leased
                          /\ endpoint'[x].closeRequested = endpoint[x].closeRequested
                          /\ x # e => endpoint'[x].holder = endpoint[x].holder
    BY <1>1 DEF Elsewhere, SameConns, SameLeases, SameRequests
  <1>4. \A x \in Endpoints : Connected(x)' <=> Connected(x)
    BY DEF Connected, SameConns
  <1>5. Connections' = Connections /\ (Closable' <=> Closable)
    BY <1>1, <1>4 DEF Connections, Closable
  <1>6. /\ \A u \in Threads : \A x : /\ Attaching(u, x)' <=> Attaching(u, x)
                                     /\ Finishing(u, x)' <=> Finishing(u, x)
        /\ \A u \in Threads : /\ LifeClosing(u) => LifeClosing(u)'
                              /\ LifeClosing(u)' => LifeClosing(u) \/ Closable
        /\ Closable => LifeClosing(t)'
    BY DEF ClosingOnly, Acked
  <1>7. ASSUME NEW u \in Threads, NEW x, NEW b, NEW p, Closing(u, x, b, p)'
        PROVE  Closing(u, x, b, p) \/ (x = e /\ p = "closed")
    BY <1>7 DEF ClosingOnly, Acked
  <1>8. ASSUME NEW u \in Threads, NEW x, NEW b, NEW p, Closing(u, x, b, p),
               p = "enter" \/ x # e \/ u # t
        PROVE  Closing(u, x, b, p)'
    BY <1>8 DEF ClosingOnly
  <1>9. TypeOK' /\ Mutex' /\ InService' /\ Garbage' /\ Requested'
    <2>1. TypeOK'
      BY DEF IInv, TypeOK
    <2> QED BY <1>3, <2>1, KeepService, KeepGarbage, KeepRequested DEF IInv
  <1>10. Statuses'
    <2>1. \A x \in Endpoints : endpoint'[x].holder = endpoint[x].holder \/ x = e
      BY DEF Elsewhere
    <2>2. \A x \in Endpoints :
            /\ endpoint'[x].holder = "issued" => object'.alive
            /\ Connected(x)' /\ (x \in Locals \/ child' = "running") => endpoint'[x].holder = "issued"
      BY <1>2, <1>4, <2>1 DEF IInv, Statuses, Connected
    <2>3. \A x \in Locals :
            /\ endpoint'[x].conn = "none" <=> ref'[Wrap(x)] = "none"
            /\ endpoint'[x].holder \in {"none", "registered"} => endpoint'[x].conn = "none"
            /\ endpoint'[x].holder = "resolved" => endpoint'[x].conn = "gone"
            /\ endpoint'[x].leased => endpoint'[x].conn = "open"
      BY <1>2, <1>3 DEF IInv, Statuses
    <2> QED BY <2>2, <2>3 DEF Statuses, Wrap
  <1>11. Informed'
    <2>1. \A u \in Threads, x \in Locals :
            /\ Attaching(u, x)' => endpoint'[x].holder = "issued" /\ endpoint'[x].conn = "none"
            /\ Finishing(u, x)' => endpoint'[x].leased
            /\ Closing(u, x, "gc", "enter")' => ~endpoint'[x].leased
      BY <1>2, <1>3, <1>6, <1>7 DEF IInv, Informed
    <2>2. ASSUME NEW u \in Threads, NEW x \in Locals, NEW by \in {"app", "gc"}
          PROVE  /\ \A pc \in {"ack", "acking", "closed"} :
                      Closing(u, x, by, pc)' => endpoint'[x].conn = "gone"
                 /\ Closing(u, x, by, "closed")' => endpoint'[x].holder # "issued"
      BY <1>2, <1>3, <1>7 DEF IInv, Informed
    <2>3. \A u, v \in Threads, x \in Locals : Attaching(u, x)' /\ Attaching(v, x)' => u = v
      BY <1>6 DEF IInv, Informed
    <2> QED BY <2>1, <2>2, <2>3 DEF Informed
  <1>12. Attended'
    <2> SUFFICES ASSUME NEW x \in Locals
        PROVE /\ endpoint'[x].conn = "none" /\ endpoint'[x].holder = "issued" =>
                   \E u \in Threads : Attaching(u, x)'
              /\ endpoint'[x].conn = "gone" /\ endpoint'[x].holder = "issued" /\ interrupts' = 0 =>
                   \E u \in Threads : \E by \in {"app", "gc"}, pc \in {"ack", "acking"} :
                     Closing(u, x, by, pc)'
              /\ endpoint'[x].leased =>
                   \/ ref'[Pin(x)] = "live"
                   \/ \E u \in Threads : /\ InBatch(u, Pin(x))'
                                         /\ Finalized(u, Pin(x))' => Finishing(u, x)'
      BY DEF Attended, Pin
    <2>1. endpoint'[x].conn = "none" /\ endpoint'[x].holder = "issued" =>
            \E u \in Threads : Attaching(u, x)'
      BY <1>3, <1>6 DEF IInv, Attended
    <2>2. endpoint'[x].conn = "gone" /\ endpoint'[x].holder = "issued" /\ interrupts = 0 =>
            \E u \in Threads : \E by \in {"app", "gc"}, pc \in {"ack", "acking"} :
              Closing(u, x, by, pc)'
      BY <1>3, <1>8 DEF IInv, Attended
    <2>3. CASE endpoint[x].leased /\ ref[Pin(x)] # "live"
      <3>1. PICK u \in Threads : InBatch(u, Pin(x)) /\ (Finalized(u, Pin(x)) => Finishing(u, x))
        BY <2>3 DEF IInv, Attended
      <3>2. InBatch(u, Pin(x))' /\ (Finalized(u, Pin(x))' => Finishing(u, x)')
        BY <1>6, <3>1 DEF SameBatches
      <3> QED BY <2>1, <2>2, <3>2
    <2> QED BY <1>3, <2>1, <2>2, <2>3
  <1>13. Pursued'
    <2>1. ASSUME NEW x \in Locals, Connected(x)', Wrap(x) \notin failed'
          PROVE  /\ ref'[Wrap(x)] # "dead"
                 /\ \A u \in Threads : Finalized(u, Wrap(x))' =>
                      endpoint'[x].leased \/ Closing(u, x, "gc", "enter")'
      <3>1. Connected(x) /\ Wrap(x) \notin failed
        BY <1>1, <1>4, <2>1
      <3>2. /\ ref[Wrap(x)] # "dead"
            /\ \A u \in Threads : Finalized(u, Wrap(x)) =>
                 endpoint[x].leased \/ Closing(u, x, "gc", "enter")
        BY <3>1 DEF IInv, Pursued
      <3> QED BY <1>3, <1>8, <3>2 DEF SameBatches
    <2>2. Outstanding' <=> Outstanding
      BY <1>1, <1>4 DEF Outstanding, Shm, Wrap
    <2>3. ASSUME object.alive, ~Outstanding
          PROVE  /\ ref[Shm] # "dead"
                 /\ \A u \in Threads : Finalized(u, Shm)' =>
                      \/ LifeClosing(u)'
                      \/ \E x \in Locals, pc \in {"ack", "acking"} : Closing(u, x, "gc", pc)'
      <3>1. ref[Shm] # "dead"
        BY <2>3 DEF IInv, Pursued
      <3>2. ASSUME NEW u \in Threads, Finalized(u, Shm)
            PROVE  \/ LifeClosing(u)'
                   \/ \E x \in Locals, pc \in {"ack", "acking"} : Closing(u, x, "gc", pc)'
        <4>1. Closable
          <5>1. Connections = {}
            BY <2>3 DEF Outstanding, Connections
          <5> QED BY <2>3, <3>2, <5>1 DEF IInv, Requested, Closable
        <4>2. CASE u = t
          BY <1>6, <4>1, <4>2
        <4>3. CASE u # t
          <5>1. \/ LifeClosing(u)
                \/ \E x \in Locals, pc \in {"ack", "acking"} : Closing(u, x, "gc", pc)
            BY <2>3, <3>2 DEF IInv, Pursued
          <5> QED BY <1>6, <1>8, <4>3, <5>1
        <4> QED BY <4>2, <4>3
      <3> QED BY <3>1, <3>2 DEF SameBatches
    <2>4. ref'[Shm] # "none" /\ \A u \in Threads : LifeClosing(u)' => Closable'
      BY <1>5, <1>6 DEF IInv, Pursued
    <2> QED BY <2>1, <2>2, <2>3, <2>4 DEF Pursued, Wrap, Shm
  <1>14. HealthyNeverRetained'
    BY Sides DEF IInv, HealthyNeverRetained, Elsewhere
  <1> QED BY <1>9, <1>10, <1>11, <1>12, <1>13, <1>14 DEF IInv

\* A close acknowledges the cleanup and releases the authority's lock.
LEMMA AcknowledgeStep ==
  ASSUME IInv, NEW t \in Threads, Acknowledge(t)
  PROVE  IInv'
  <1>1. PICK f, e : f = Top(t) /\ e = f.on
    OBVIOUS
  <1>2. /\ At(t, "close", "acking")
        /\ endpoint' = IF object.alive THEN [endpoint EXCEPT ![e].holder = "resolved"] ELSE endpoint
        /\ UNCHANGED <<object, ref, held, child, failed, interrupts>>
    BY <1>1 DEF Acknowledge
  <1>3. /\ ~Resting(t) /\ f \in FrameSet /\ Formed(f) /\ f.op = "close" /\ f.pc = "acking"
        /\ e \in Locals /\ e \in Endpoints /\ e \in Locks /\ f.by \in {"app", "gc"}
        /\ Closing(t, e, f.by, "acking") /\ f.locks = {e, A}
        /\ f.by = "app" => App(t)
    BY <1>1, <1>2, CloseOnTop
  <1>4. endpoint[e].conn = "gone"
    BY <1>3 DEF IInv, Informed
  <1>5. /\ endpoint' \in [Endpoints -> EndpointSet] /\ endpoint'[e].holder = "resolved"
        /\ Elsewhere(e) /\ SameConns /\ SameLeases /\ SameRequests
    <2>1. CASE object.alive
      <3>1. endpoint' = [endpoint EXCEPT ![e].holder = "resolved"]
        BY <1>2, <2>1
      <3> QED BY <1>3, <3>1, HolderChange DEF IInv, TypeOK
    <2>2. CASE ~object.alive
      <3>1. endpoint' = endpoint
        BY <1>2, <2>2
      <3>2. endpoint[e].holder = "resolved"
        <4>1. endpoint[e].holder \in {"none", "registered", "issued", "resolved"}
          BY <1>3 DEF IInv, TypeOK, EndpointSet
        <4> QED BY <1>3, <1>4, <2>2, <4>1 DEF IInv, Statuses
      <3> QED BY <3>1, <3>2
              DEF IInv, TypeOK, Elsewhere, SameConns, SameLeases, SameRequests
    <2> QED BY <2>1, <2>2
  <1>6. /\ e = f.on /\ e \in Locals /\ f.pc = "acking" /\ f.by \in {"app", "gc"}
        /\ Closing(t, e, f.by, "acking")
        /\ UNCHANGED <<object, ref, held, child, failed, interrupts>>
    BY <1>1, <1>2, <1>3
  <1>7. CASE ~Closable
    <2>1. PICK Y : Y = {}
      OBVIOUS
    <2>2. Return(t)
      BY <1>7 DEF Acknowledge
    <2>3. /\ stack' \in [Threads -> Seq(FrameSet)] /\ Shapes' /\ Lessens(t)
          /\ SameBatches /\ ClosingOnly(t, f, Y)
      BY <1>1, <1>2, <2>1, <2>2, CloseLeaves
    <2>4. Acked(Y, e)
      BY <1>7, <2>1 DEF Acked
    <2> QED BY <1>5, <1>6, <2>3, <2>4, AckedStep
  <1>8. CASE Closable
    <2>1. PICK g, k, Y, B, F :
            /\ g = [f EXCEPT !.pc = "closed", !.locks = @ \ {A}] /\ k = LifeClose
            /\ Y = {k, g} /\ B = Below(t) /\ F = Frames(t)'
      OBVIOUS
    <2>2. /\ g \in FrameSet /\ g.op = "close" /\ g.pc = "closed" /\ g.by = f.by /\ g.on = e
          /\ g.locks = {e}
      BY <1>1, <1>3, <2>1, Sides DEF FrameSet
    <2>3. /\ k \in FrameSet /\ k.op = "life_close" /\ k.pc = "enter" /\ k.by = "gc"
          /\ k.locks = {}
      BY <2>1, Sides DEF LifeClose, Frame, FrameSet
    <2>4. f.by = "gc"
      <3>1. object.closeRequested
        BY <1>8 DEF Closable
      <3>2. ref[Shm] # "live"
        BY <3>1, Finalizers, Names DEF IInv, Requested, Garbage
      <3> QED BY <1>3, <3>2 DEF IInv, InService
    <2>5. Formed(g) /\ Formed(k) /\ Over(k, g)
      BY <1>1, <1>3, <2>2, <2>3, <2>4 DEF Formed, Over
    <2>6. Call(t, k, g)
      BY <1>1, <1>8, <2>1 DEF Acknowledge
    <2>7. /\ stack' \in [Threads -> Seq(FrameSet)] /\ Shapes'
          /\ F = Y \cup B /\ Others(t)
      <3>1. g.op = Top(t).op /\ g.by = Top(t).by /\ g.on = Top(t).on
        BY <1>1, <1>3, <2>2
      <3>2. TypeOK /\ Shapes /\ ~Resting(t)
        BY <1>3 DEF IInv
      <3>3. /\ stack' \in [Threads -> Seq(FrameSet)] /\ Shapes'
            /\ Frames(t)' = {k, g} \cup Below(t) /\ Others(t)
        BY <2>2, <2>3, <2>5, <2>6, <3>1, <3>2, CallStack
      <3> QED BY <2>1, <3>3
    <2>8. Lessens(t)
      <3>1. Has(t, e) /\ B \subseteq Frames(t)
        BY <1>1, <1>3, <2>1, TopFacts, Doing DEF IInv
      <3>2. Continuing(t, g) /\ Continuing(t, k)
        BY <2>2, <2>3, <2>4, <3>1 DEF Continuing
      <3>3. \A h \in F : h \in Frames(t) \/ Continuing(t, h)
        BY <2>1, <2>7, <3>1, <3>2
      <3> QED BY <2>1, <2>7, <3>3, Lesser
    <2>9. SameBatches /\ ClosingOnly(t, f, Y)
      <3>1. F \subseteq Y \cup B /\ Y \subseteq F /\ \A h \in B : h.op # "close_shm" => h \in F
        BY <2>7
      <3>2. \A h \in Y : \/ h.op = "close" /\ h.on = f.on /\ h.by = f.by
                       \/ h.op = "life_close"
        BY <1>1, <2>1, <2>2, <2>3
      <3>3. /\ f = Top(t) /\ ~Resting(t) /\ f.op = "close"
            /\ B = Below(t) /\ F = Frames(t)' /\ Others(t)
        BY <1>1, <1>3, <2>1, <2>7
      <3> QED BY <3>1, <3>2, <3>3, CloseFrames
    <2>10. Acked(Y, e)
      BY <1>8, <2>1, <2>2, <2>3 DEF Acked
    <2> QED BY <1>5, <1>6, <2>7, <2>8, <2>9, <2>10, AckedStep
  <1> QED BY <1>7, <1>8

\* The object is destroyed, or its failure recorded. If nothing was interrupted
\* and nothing granted abroad every holder has been resolved.
LEMMA LifeCloseReturnsStep ==
  ASSUME IInv, NEW t \in Threads, LifeCloseReturns(t)
  PROVE  IInv'
  <1>1. PICK f, B, X, Y : f = Top(t) /\ B = Below(t) /\ X = {f} /\ Y = {}
    OBVIOUS
  <1>2. /\ At(t, "life_close", "enter") /\ Return(t)
        /\ IF object.alive THEN Destroyed ELSE UNCHANGED object
        /\ failed' = IF object.alive /\ Resolved THEN failed ELSE failed \cup {Shm}
        /\ UNCHANGED <<endpoint, ref, held, child, interrupts>>
    BY DEF LifeCloseReturns
  <1>3. ~Resting(t) /\ f \in FrameSet /\ Formed(f) /\ f.op = "life_close"
    BY <1>1, <1>2, Running DEF IInv
  <1>4. LifeClosing(t)
    BY <1>1, <1>3, Doing DEF IInv
  <1>5. Closable /\ object.alive /\ Connections = {}
    BY <1>4 DEF IInv, Pursued, Closable
  <1>6. /\ \A u \in Threads : ~App(u)
        /\ \A u \in Threads : LifeClosing(u) => u = t
        /\ \A u \in Threads, e \in Locals : InBatch(u, Wrap(e)) => u = t
    BY <1>4, Alone
  <1>7. /\ Frames(t) = X \cup B /\ \A g \in B : g.op # "life_close"
    BY <1>1, <1>3, TopFacts DEF IInv
  <1>8. /\ stack' \in [Threads -> Seq(FrameSet)] /\ Shapes'
        /\ Frames(t)' = B /\ Others(t)
    BY <1>1, <1>2, <1>3, ReturnStack DEF IInv
  <1>9. SameBatches
    <2>1. Frames(t)' = Y \cup B /\ \A g \in X \cup Y : g.op # "collect"
      BY <1>1, <1>3, <1>8
    <2> QED BY <1>7, <1>8, <2>1, CalmBatches
  <1>10. Lessens(t)
    <2>1. \A g \in B : g \in Frames(t)
      BY <1>7
    <2> QED BY <1>8, <2>1, Lesser
  <1>11. /\ \A u \in Threads \ {t} : Frames(u)' = Frames(u)
         /\ \A g \in Frames(t) : g.op # "life_close" => g \in B
         /\ B \subseteq Frames(t)
    BY <1>1, <1>3, <1>7, <1>8 DEF Others
  <1>12. \A u \in Threads : ~LifeClosing(u)'
    <2>1. ~LifeClosing(t)'
      BY <1>7, <1>8 DEF LifeClosing
    <2>2. \A u \in Threads \ {t} : LifeClosing(u)' <=> LifeClosing(u)
      BY <1>11 DEF LifeClosing
    <2> QED BY <1>6, <2>1, <2>2
  <1>13. ASSUME NEW u \in Threads, NEW e
         PROVE  (Attaching(u, e)' <=> Attaching(u, e)) /\ (Finishing(u, e)' <=> Finishing(u, e))
    BY <1>7, <1>8, <1>11 DEF Attaching, Finishing
  <1>14. ASSUME NEW u \in Threads, NEW e, NEW by, NEW pc
         PROVE  Closing(u, e, by, pc)' <=> Closing(u, e, by, pc)
    BY <1>7, <1>8, <1>11 DEF Closing
  <1>15. /\ object' \in [alive : BOOLEAN, gate : {"READY", "RETIRED"}, granting : BOOLEAN,
                         closeRequested : BOOLEAN]
         /\ object'.alive = ~Resolved /\ object'.closeRequested = object.closeRequested
         /\ failed' = IF Resolved THEN failed ELSE failed \cup {Shm}
    BY <1>2, <1>5 DEF Destroyed, Retired, Resolved, IInv, TypeOK
  <1>16. TypeOK'
    BY <1>2, <1>8, <1>15, Names DEF IInv, TypeOK
  <1>17. Mutex' /\ InService' /\ Garbage' /\ Requested'
    BY <1>2, <1>9, <1>10, <1>15, KeepService, KeepGarbage, KeepRequested DEF IInv
  <1>18. \A x \in Endpoints : Connected(x)' <=> Connected(x)
    BY <1>2 DEF Connected
  <1>19. Statuses'
    <2>1. \A x \in Endpoints :
            /\ endpoint'[x].holder = "issued" => object'.alive
            /\ Connected(x)' /\ (x \in Locals \/ child' = "running") => endpoint'[x].holder = "issued"
      BY <1>2, <1>15, <1>18 DEF IInv, Statuses, Resolved
    <2> QED BY <1>2, <2>1 DEF IInv, Statuses, Wrap
  <1>20. Informed'
    <2>1. \A u \in Threads, x \in Locals :
            /\ Attaching(u, x)' => endpoint'[x].holder = "issued" /\ endpoint'[x].conn = "none"
            /\ Finishing(u, x)' => endpoint'[x].leased
            /\ Closing(u, x, "gc", "enter")' => ~endpoint'[x].leased
      BY <1>2, <1>13, <1>14 DEF IInv, Informed
    <2>2. \A u \in Threads, x \in Locals : \A by \in {"app", "gc"} :
            /\ \A pc \in {"ack", "acking", "closed"} :
                 Closing(u, x, by, pc)' => endpoint'[x].conn = "gone"
            /\ Closing(u, x, by, "closed")' => endpoint'[x].holder # "issued"
      BY <1>2, <1>14 DEF IInv, Informed
    <2>3. \A u, v \in Threads, x \in Locals : Attaching(u, x)' /\ Attaching(v, x)' => u = v
      BY <1>13 DEF IInv, Informed
    <2> QED BY <2>1, <2>2, <2>3 DEF Informed
  <1>21. Attended'
    <2> SUFFICES ASSUME NEW x \in Locals
        PROVE /\ endpoint'[x].conn = "none" /\ endpoint'[x].holder = "issued" =>
                   \E u \in Threads : Attaching(u, x)'
              /\ endpoint'[x].conn = "gone" /\ endpoint'[x].holder = "issued" /\ interrupts' = 0 =>
                   \E u \in Threads : \E by \in {"app", "gc"}, pc \in {"ack", "acking"} :
                     Closing(u, x, by, pc)'
              /\ endpoint'[x].leased =>
                   \/ ref'[Pin(x)] = "live"
                   \/ \E u \in Threads : /\ InBatch(u, Pin(x))'
                                         /\ Finalized(u, Pin(x))' => Finishing(u, x)'
      BY DEF Attended, Pin
    <2>1. endpoint[x].conn = "none" /\ endpoint[x].holder = "issued" =>
            \E u \in Threads : Attaching(u, x)'
      BY <1>13 DEF IInv, Attended
    <2>2. endpoint[x].conn = "gone" /\ endpoint[x].holder = "issued" /\ interrupts = 0 =>
            \E u \in Threads : \E by \in {"app", "gc"}, pc \in {"ack", "acking"} :
              Closing(u, x, by, pc)'
      BY <1>14 DEF IInv, Attended
    <2>3. CASE endpoint[x].leased /\ ref[Pin(x)] # "live"
      <3>1. PICK u \in Threads : InBatch(u, Pin(x)) /\ (Finalized(u, Pin(x)) => Finishing(u, x))
        BY <2>3 DEF IInv, Attended
      <3>2. InBatch(u, Pin(x))' /\ (Finalized(u, Pin(x))' => Finishing(u, x)')
        BY <1>9, <1>13, <3>1 DEF SameBatches
      <3> QED BY <1>2, <2>1, <2>2, <3>2
    <2> QED BY <1>2, <2>1, <2>2, <2>3
  <1>22. Pursued'
    <2>1. \A x \in Locals : Connected(x)' /\ Wrap(x) \notin failed' =>
            /\ ref'[Wrap(x)] # "dead"
            /\ \A u \in Threads : Finalized(u, Wrap(x))' =>
                 endpoint'[x].leased \/ Closing(u, x, "gc", "enter")'
      <3>1. \A x \in Locals : ~Connected(x)'
        BY <1>5, <1>18, Sides DEF Connections
      <3> QED BY <3>1
    <2>2. object'.alive => Outstanding'
      <3>1. object'.alive => Shm \in failed'
        BY <1>15
      <3> QED BY <3>1 DEF Outstanding, Shm
    <2> QED BY <1>2, <1>12, <2>1, <2>2 DEF IInv, Pursued, Wrap, Shm
  <1>23. HealthyNeverRetained'
    <2> SUFFICES ASSUME interrupts' = 0, \A x \in Remote : endpoint'[x].holder = "none"
                 PROVE  failed' = {}
      BY DEF HealthyNeverRetained
    <2>1. interrupts = 0 /\ failed = {}
      BY <1>2 DEF IInv, HealthyNeverRetained
    <2>2. ASSUME NEW x \in Endpoints, endpoint[x].holder = "issued" PROVE FALSE
      <3>1. x \in Locals
        BY <1>2, <2>2 DEF Endpoints
      <3>2. endpoint[x].conn \in {"none", "gone"}
        BY <1>5, <2>2, <3>1 DEF IInv, TypeOK, EndpointSet, Connections, Connected
      <3>3. CASE endpoint[x].conn = "none"
        <4>1. PICK u \in Threads : Attaching(u, x)
          BY <2>2, <3>1, <3>3 DEF IInv, Attended
        <4> QED BY <1>6, <4>1, Finalizers DEF IInv
      <3>4. CASE endpoint[x].conn = "gone"
        <4>1. PICK u \in Threads, by \in {"app", "gc"}, pc \in {"ack", "acking"} :
                Closing(u, x, by, pc)
          BY <2>1, <2>2, <3>1, <3>4 DEF IInv, Attended
        <4>2. by = "gc"
          BY <1>6, <4>1, Finalizers DEF IInv
        <4>3. InBatch(u, Wrap(x))
          BY <4>1, <4>2, Finalizers DEF IInv
        <4>4. u = t
          BY <1>6, <3>1, <4>3
        <4> QED BY <1>4, <4>1, <4>2, <4>4, Finalizers DEF IInv
      <3> QED BY <3>2, <3>3, <3>4
    <2>3. Resolved
      BY <2>2 DEF Resolved
    <2> QED BY <1>15, <2>1, <2>3
  <1> QED BY <1>8, <1>16, <1>17, <1>19, <1>20, <1>21, <1>22, <1>23 DEF IInv

\* A dropped lease is finished, and with it the close its endpoint waited for.
LEMMA FinishStep ==
  ASSUME IInv, NEW t \in Threads, Finish(t)
  PROVE  IInv'
  <1>1. PICK f, e, B, X, g, Y, W :
          /\ f = Top(t) /\ e = f.on /\ B = Below(t) /\ X = {f}
          /\ g = Frame("close", "enter", e, "gc")
          /\ W = (endpoint[e].closeRequested /\ Connected(e))
          /\ Y = IF W THEN {g} ELSE {}
    OBVIOUS
  <1>2. /\ At(t, "finish", "enter")
        /\ endpoint' = [endpoint EXCEPT ![e].leased = FALSE]
        /\ IF W THEN Replace(t, g) ELSE Return(t)
        /\ UNCHANGED <<object, ref, held, child, failed, interrupts>>
    BY <1>1 DEF Finish
  <1>3. /\ ~Resting(t) /\ f \in FrameSet /\ Formed(f) /\ f.op = "finish" /\ f.by = "gc"
        /\ e \in Locals /\ e \in Endpoints /\ e \in Locks
    BY <1>1, <1>2, Running, Sides DEF IInv, Formed
  <1>4. /\ Frames(t) = X \cup B
        /\ \A h \in B : /\ h.op \notin {"life_close", "finish"} /\ ~(h.op = "close" /\ h.by = "gc")
                        /\ Formed(h)
        /\ \A c, d \in B : c.op = "collect" /\ d.op = "collect" => c = d
    BY <1>1, <1>3, TopFacts DEF IInv
  <1>5. /\ Finishing(t, e) /\ Finalized(t, Pin(e)) /\ InBatch(t, Pin(e)) /\ ~LifeClosing(t)
        /\ \A x : Finishing(t, x) <=> x = e
        /\ \A x, pc : ~Closing(t, x, "gc", pc)
    BY <1>1, <1>3, Doing, Finalizers DEF IInv
  <1>6. endpoint[e].leased /\ endpoint[e].conn = "open" /\ Connected(e)
    BY <1>3, <1>5 DEF IInv, Informed, Statuses, Connected
  <1>7. /\ Alive(Wrap(e))
        /\ \A u \in Threads : /\ InBatch(u, Wrap(e)) => u = t
                              /\ Finishing(u, e) => u = t
    <2>1. \A u \in Threads : Finishing(u, e) => InBatch(u, Pin(e))
      BY Finalizers DEF IInv
    <2> QED BY <1>3, <1>5, <2>1, Together, Names DEF IInv, Garbage
  <1>8. endpoint[e].closeRequested <=> Finalized(t, Wrap(e))
    <2>1. \A u \in Threads : Finalized(u, Wrap(e)) => u = t
      BY <1>7, Finalizers DEF IInv
    <2> QED BY <1>3, <1>7, <2>1 DEF IInv, Requested, Alive
  <1>9. /\ endpoint' \in [Endpoints -> EndpointSet] /\ endpoint'[e].leased = FALSE
        /\ Elsewhere(e) /\ SameHolders /\ SameConns /\ SameRequests
    BY <1>2, <1>3, LeaseChange DEF IInv, TypeOK
  <1>10. /\ g \in FrameSet /\ Formed(g) /\ g.op = "close" /\ g.on = e /\ g.by = "gc"
         /\ g.pc = "enter" /\ g.locks = {}
    BY <1>1, <1>3 DEF Frame, FrameSet, Formed
  <1>11. /\ stack' \in [Threads -> Seq(FrameSet)] /\ Shapes'
         /\ Frames(t)' = Y \cup B /\ Others(t)
    <2>1. CASE W
      <3>1. PICK c \in B : c.op = "collect" /\ c = Head(Tail(stack[t])) /\ Tail(stack[t]) # <<>>
        BY <1>1, <1>3, TopFacts DEF IInv
      <3>2. Finalized(t, Wrap(e))
        BY <1>1, <1>8, <2>1
      <3>3. PICK d \in Frames(t) : d.op = "collect" /\ Wrap(e) \in Done(d)
        BY <3>2 DEF Finalized, Batches
      <3>4. d = c
        BY <1>1, <1>3, <1>4, <3>1, <3>3
      <3>5. Over(g, c)
        BY <1>10, <3>1, <3>3, <3>4 DEF Over
      <3> QED BY <1>1, <1>2, <1>3, <1>10, <2>1, <3>1, <3>5, ReplaceStack DEF IInv
    <2>2. CASE ~W
      BY <1>1, <1>2, <1>3, <2>2, ReturnStack DEF IInv
    <2> QED BY <2>1, <2>2
  <1>12. \A h \in Y : h = g
    BY <1>1
  <1>13. SameBatches
    <2>1. \A h \in X \cup Y : h.op # "collect"
      BY <1>1, <1>3, <1>10, <1>12
    <2> QED BY <1>4, <1>11, <2>1, CalmBatches
  <1>14. Lessens(t)
    <2>1. Continuing(t, g)
      BY <1>10 DEF Continuing
    <2>2. \A h \in Y \cup B : h \in Frames(t) \/ Continuing(t, h)
      BY <1>4, <1>12, <2>1
    <2> QED BY <1>11, <2>2, Lesser
  <1>15. \A u \in Threads \ {t} : Frames(u)' = Frames(u)
    BY <1>11 DEF Others
  <1>16. ASSUME NEW u \in Threads, NEW x
         PROVE  /\ Attaching(u, x)' <=> Attaching(u, x)
                /\ Finishing(u, x)' <=> Finishing(u, x) /\ x # e
                /\ LifeClosing(u)' <=> LifeClosing(u)
    <2>1. Attaching(u, x)' <=> Attaching(u, x)
      BY <1>1, <1>3, <1>4, <1>10, <1>11, <1>12, <1>15 DEF Attaching
    <2>2. LifeClosing(u)' <=> LifeClosing(u)
      BY <1>1, <1>3, <1>4, <1>10, <1>11, <1>12, <1>15 DEF LifeClosing
    <2>3. ~Finishing(t, x)'
      BY <1>4, <1>10, <1>11, <1>12 DEF Finishing
    <2>4. u # t => (Finishing(u, x)' <=> Finishing(u, x))
      BY <1>15 DEF Finishing
    <2> QED BY <1>5, <1>7, <2>1, <2>2, <2>3, <2>4
  <1>17. ASSUME NEW u \in Threads, NEW x, NEW b, NEW p
         PROVE  Closing(u, x, b, p)' <=>
                  \/ Closing(u, x, b, p)
                  \/ W /\ u = t /\ x = e /\ b = "gc" /\ p = "enter"
    <2>1. u # t => (Closing(u, x, b, p)' <=> Closing(u, x, b, p))
      BY <1>15 DEF Closing
    <2>2. W => (Closing(t, x, b, p)' <=>
                  \/ Closing(t, x, b, p)
                  \/ x = e /\ b = "gc" /\ p = "enter")
      <3>1. W => Y = {g}
        BY <1>1
      <3> QED BY <1>1, <1>3, <1>4, <1>10, <1>11, <3>1 DEF Closing
    <2>3. ~W => (Closing(t, x, b, p)' <=> Closing(t, x, b, p))
      <3>1. ~W => Y = {}
        BY <1>1
      <3> QED BY <1>1, <1>3, <1>4, <1>11, <3>1 DEF Closing
    <2> QED BY <2>1, <2>2, <2>3
  <1>18. \A x \in Locals : /\ x \in Endpoints
                           /\ endpoint'[x].conn = endpoint[x].conn
                           /\ endpoint'[x].holder = endpoint[x].holder
                           /\ endpoint'[x].closeRequested = endpoint[x].closeRequested
                           /\ x # e => endpoint'[x].leased = endpoint[x].leased
    BY <1>9, Sides DEF Elsewhere, SameHolders, SameConns, SameRequests
  <1>19. TypeOK'
    BY <1>2, <1>9, <1>11 DEF IInv, TypeOK
  <1>20. Mutex' /\ InService' /\ Garbage' /\ Requested'
    BY <1>2, <1>13, <1>14, <1>18, KeepService, KeepGarbage, KeepRequested DEF IInv
  <1>21. \A x \in Endpoints : Connected(x)' <=> Connected(x)
    BY <1>9 DEF Connected, SameConns
  <1>22. Statuses'
    <2>1. \A x \in Endpoints :
            /\ endpoint'[x].holder = "issued" => object'.alive
            /\ Connected(x)' /\ (x \in Locals \/ child' = "running") => endpoint'[x].holder = "issued"
      BY <1>2, <1>9, <1>21 DEF IInv, Statuses, SameHolders
    <2>2. \A x \in Locals :
            /\ endpoint'[x].conn = "none" <=> ref'[Wrap(x)] = "none"
            /\ endpoint'[x].holder \in {"none", "registered"} => endpoint'[x].conn = "none"
            /\ endpoint'[x].holder = "resolved" => endpoint'[x].conn = "gone"
            /\ endpoint'[x].leased => endpoint'[x].conn = "open"
      BY <1>2, <1>6, <1>18 DEF IInv, Statuses
    <2> QED BY <2>1, <2>2 DEF Statuses, Wrap
  <1>23. Informed'
    <2>1. \A u \in Threads, x \in Locals :
            /\ Attaching(u, x)' => endpoint'[x].holder = "issued" /\ endpoint'[x].conn = "none"
            /\ Finishing(u, x)' => endpoint'[x].leased
            /\ Closing(u, x, "gc", "enter")' => ~endpoint'[x].leased
      BY <1>9, <1>16, <1>17, <1>18 DEF IInv, Informed
    <2>2. ASSUME NEW u \in Threads, NEW x \in Locals, NEW by \in {"app", "gc"}
          PROVE  /\ \A pc \in {"ack", "acking", "closed"} :
                      Closing(u, x, by, pc)' => endpoint'[x].conn = "gone"
                 /\ Closing(u, x, by, "closed")' => endpoint'[x].holder # "issued"
      BY <1>17, <1>18 DEF IInv, Informed
    <2>3. \A u, v \in Threads, x \in Locals : Attaching(u, x)' /\ Attaching(v, x)' => u = v
      BY <1>16 DEF IInv, Informed
    <2> QED BY <2>1, <2>2, <2>3 DEF Informed
  <1>24. Attended'
    <2> SUFFICES ASSUME NEW x \in Locals
        PROVE /\ endpoint'[x].conn = "none" /\ endpoint'[x].holder = "issued" =>
                   \E u \in Threads : Attaching(u, x)'
              /\ endpoint'[x].conn = "gone" /\ endpoint'[x].holder = "issued" /\ interrupts' = 0 =>
                   \E u \in Threads : \E by \in {"app", "gc"}, pc \in {"ack", "acking"} :
                     Closing(u, x, by, pc)'
              /\ endpoint'[x].leased =>
                   \/ ref'[Pin(x)] = "live"
                   \/ \E u \in Threads : /\ InBatch(u, Pin(x))'
                                         /\ Finalized(u, Pin(x))' => Finishing(u, x)'
      BY DEF Attended, Pin
    <2>1. endpoint'[x].conn = "none" /\ endpoint'[x].holder = "issued" =>
            \E u \in Threads : Attaching(u, x)'
      BY <1>16, <1>18 DEF IInv, Attended
    <2>2. endpoint'[x].conn = "gone" /\ endpoint'[x].holder = "issued" /\ interrupts = 0 =>
            \E u \in Threads : \E by \in {"app", "gc"}, pc \in {"ack", "acking"} :
              Closing(u, x, by, pc)'
      BY <1>17, <1>18 DEF IInv, Attended
    <2>3. CASE x # e /\ endpoint[x].leased /\ ref[Pin(x)] # "live"
      <3>1. PICK u \in Threads : InBatch(u, Pin(x)) /\ (Finalized(u, Pin(x)) => Finishing(u, x))
        BY <2>3 DEF IInv, Attended
      <3>2. InBatch(u, Pin(x))' /\ (Finalized(u, Pin(x))' => Finishing(u, x)')
        BY <1>13, <1>16, <2>3, <3>1 DEF SameBatches
      <3> QED BY <1>2, <2>1, <2>2, <3>2
    <2> QED BY <1>2, <1>9, <1>18, <2>1, <2>2, <2>3
  <1>25. Pursued'
    <2>1. ASSUME NEW x \in Locals, Connected(x)', Wrap(x) \notin failed'
          PROVE  /\ ref'[Wrap(x)] # "dead"
                 /\ \A u \in Threads : Finalized(u, Wrap(x))' =>
                      endpoint'[x].leased \/ Closing(u, x, "gc", "enter")'
      <3>1. Connected(x) /\ Wrap(x) \notin failed
        BY <1>2, <1>18, <1>21, <2>1
      <3>2. /\ ref[Wrap(x)] # "dead"
            /\ \A u \in Threads : Finalized(u, Wrap(x)) =>
                 endpoint[x].leased \/ Closing(u, x, "gc", "enter")
        BY <3>1 DEF IInv, Pursued
      <3>3. CASE x # e
        BY <1>2, <1>13, <1>17, <1>18, <3>2, <3>3 DEF SameBatches
      <3>4. CASE x = e
        <4>1. ASSUME NEW u \in Threads, Finalized(u, Wrap(e)) PROVE Closing(u, e, "gc", "enter")'
          <5>1. u = t
            BY <1>7, <4>1, Finalizers DEF IInv
          <5>2. W
            BY <1>1, <1>6, <1>8, <4>1, <5>1
          <5> QED BY <1>17, <5>1, <5>2
        <4> QED BY <1>2, <1>13, <3>2, <3>4, <4>1 DEF SameBatches
      <3> QED BY <3>3, <3>4
    <2>2. Outstanding'
      BY <1>3, <1>6, <1>21 DEF Outstanding
    <2>3. \A u \in Threads : ~LifeClosing(u)'
      <3>1. e \in Connections
        BY <1>3, <1>6 DEF Connections
      <3>2. \A u \in Threads : ~LifeClosing(u)
        BY <3>1 DEF IInv, Pursued, Closable
      <3> QED BY <1>16, <3>2
    <2> QED BY <1>2, <2>1, <2>2, <2>3 DEF IInv, Pursued, Wrap, Shm
  <1>26. HealthyNeverRetained'
    BY <1>2, <1>9, Sides DEF IInv, HealthyNeverRetained, SameHolders
  <1> QED BY <1>11, <1>19, <1>20, <1>22, <1>23, <1>24, <1>25, <1>26 DEF IInv
-----------------------------------------------------------------------------
(***************************************************************************)
(* Collections.                                                            *)
(***************************************************************************)

\* What a collection takes on is used by no call, and no other collection runs
\* over a call.
LEMMA CollectStep ==
  ASSUME IInv, NEW t \in Threads, Collect(t)
  PROVE  IInv'
  <1>1. PICK batch \in SUBSET {o \in Objects : ref[o] = "live" /\ o \notin Used} :
          /\ Collectable(batch)
          /\ ref' = [o \in Objects |-> IF o \in batch THEN "dying" ELSE ref[o]]
          /\ Start(t, [Frame("collect", "run", A, "gc") EXCEPT !.rest = batch, !.all = batch])
    BY DEF Collect
  <1>2. /\ Resting(t) \/ ~Collecting
        /\ UNCHANGED <<object, endpoint, held, child, failed, interrupts>>
    BY DEF Collect
  <1>3. PICK g, X, Y, B :
          /\ g = [Frame("collect", "run", A, "gc") EXCEPT !.rest = batch, !.all = batch]
          /\ X = {} /\ Y = {g} /\ B = Frames(t)
    OBVIOUS
  <1>4. /\ g \in FrameSet /\ Formed(g) /\ g.op = "collect" /\ g.by = "gc" /\ g.locks = {}
        /\ g.rest = batch /\ g.all = batch
    BY <1>1, <1>3, Sides DEF Frame, FrameSet, Formed
  <1>5. ~Collecting => \A u \in Threads : ~Collects(u)
    BY DEF Collecting, Collects, Batches
  <1>6. /\ Resting(t) => B = {}
        /\ ~Resting(t) => Top(t).by = "app"
        /\ ~Collects(t)
    <2>1. CASE Resting(t)
      <3>1. stack[t] = <<>> /\ Len(<<>>) = 0
        BY <2>1 DEF Resting
      <3>2. Frames(t) = {}
        BY <3>1 DEF Frames
      <3> QED BY <1>3, <2>1, <3>2 DEF Collects, Batches
    <2>2. CASE ~Resting(t)
      <3>1. PICK f : f = Top(t)
        OBVIOUS
      <3>2. f \in FrameSet /\ (f.by = "gc" => Collects(t)) /\ ~Collects(t)
        BY <1>2, <1>5, <2>2, <3>1, TopFacts, Doing DEF IInv
      <3>3. f.by = "app"
        BY <3>2 DEF FrameSet
      <3> QED BY <2>2, <3>1, <3>2, <3>3
    <2> QED BY <2>1, <2>2
  <1>7. /\ stack' \in [Threads -> Seq(FrameSet)] /\ Shapes'
        /\ Frames(t)' = Y \cup B /\ Others(t)
    <2>1. Start(t, g)
      BY <1>1, <1>3
    <2>2. (Resting(t) => Outermost(g)) /\ (~Resting(t) => Over(g, Top(t)))
      BY <1>4, <1>6 DEF Outermost, Over
    <2> QED BY <1>3, <1>4, <2>1, <2>2, StartStack DEF IInv
  <1>8. \A u \in Threads \ {t} : Frames(u)' = Frames(u)
    BY <1>7 DEF Others
  <1>9. ASSUME NEW u \in Threads, NEW o
        PROVE  /\ InBatch(u, o)' <=> InBatch(u, o) \/ (u = t /\ o \in batch)
               /\ Finalized(u, o)' <=> Finalized(u, o)
               /\ ~InBatch(t, o) /\ ~Finalized(t, o)
    <2>1. Batches(t) = {} /\ Batches(t)' = {g}
      BY <1>3, <1>4, <1>6, <1>7 DEF Collects, Batches
    <2>2. ~InBatch(t, o) /\ ~Finalized(t, o)
      BY <2>1 DEF InBatch, Finalized
    <2>3. InBatch(t, o)' <=> o \in batch
      BY <1>4, <2>1 DEF InBatch
    <2>4. ~Finalized(t, o)'
      BY <1>4, <2>1 DEF Finalized, Done
    <2>5. u # t => (InBatch(u, o)' <=> InBatch(u, o)) /\ (Finalized(u, o)' <=> Finalized(u, o))
      BY <1>8 DEF InBatch, Finalized, Batches
    <2> QED BY <2>2, <2>3, <2>4, <2>5
  <1>10. \A u \in Threads \ {t} : Collects(u)' <=> Collects(u)
    BY <1>8 DEF Collects, Batches
  <1>11. ASSUME NEW u \in Threads
         PROVE  /\ App(u)' <=> App(u)
                /\ \A e : WorksOn(u, e)' <=> WorksOn(u, e)
                /\ \A l : Has(u, l)' <=> Has(u, l)
    <2>1. App(u)' <=> App(u)
      BY <1>3, <1>4, <1>7, <1>8 DEF App
    <2>2. ASSUME NEW e PROVE WorksOn(u, e)' <=> WorksOn(u, e)
      <3>1. ~Works(g, e)
        BY <1>4 DEF Works
      <3>2. CASE u = t
        <4>1. WorksOn(t, e)' <=> \E f \in Y \cup B : Works(f, e)
          BY <1>7 DEF WorksOn, Works
        <4> QED BY <1>3, <3>1, <3>2, <4>1 DEF WorksOn
      <3>3. CASE u # t
        BY <1>8, <3>3 DEF WorksOn, Works
      <3> QED BY <3>2, <3>3
    <2>3. \A l : Has(u, l)' <=> Has(u, l)
      BY <1>3, <1>4, <1>7, <1>8 DEF Has
    <2> QED BY <2>1, <2>2, <2>3
  <1>12. SameCalls
    <2>1. ASSUME NEW u \in Threads, NEW e
          PROVE  (Attaching(u, e)' <=> Attaching(u, e)) /\ (Finishing(u, e)' <=> Finishing(u, e))
      BY <1>3, <1>4, <1>7, <1>8 DEF Attaching, Finishing
    <2>2. ASSUME NEW u \in Threads, NEW e, NEW by, NEW pc
          PROVE  Closing(u, e, by, pc)' <=> Closing(u, e, by, pc)
      BY <1>3, <1>4, <1>7, <1>8 DEF Closing
    <2>3. ASSUME NEW u \in Threads PROVE LifeClosing(u)' <=> LifeClosing(u)
      BY <1>3, <1>4, <1>7, <1>8 DEF LifeClosing
    <2> QED BY <2>1, <2>2, <2>3 DEF SameCalls
  <1>13. \A o \in batch : ref[o] = "live" /\ o \in Objects /\ o \notin Used
    BY <1>1
  <1>14. /\ \A o \in batch : o \notin held
         /\ \A u \in Threads : App(u) => Shm \notin batch
         /\ \A u \in Threads, e \in Locals : WorksOn(u, e) => Wrap(e) \notin batch
    <2>1. \A o \in held : o \in Used
      BY DEF Used
    <2>2. \A u \in Threads : \A f \in Frames(u) : Uses(f) \subseteq Used
      BY DEF Used
    <2>3. \A f : f.by = "app" => Shm \in Uses(f)
      BY DEF Uses
    <2>4. ASSUME NEW u \in Threads, NEW e \in Locals, WorksOn(u, e) PROVE Wrap(e) \in Used
      <3>1. PICK f \in Frames(u) : Works(f, e)
        BY <2>4 DEF WorksOn
      <3>2. f.by = "app" /\ (e \in f.all \/ e = f.on)
        BY <3>1 DEF Works
      <3>3. Wrap(e) \in Uses(f)
        BY <3>2 DEF Uses
      <3> QED BY <2>2, <3>3
    <2> QED BY <1>13, <2>1, <2>2, <2>3, <2>4 DEF App
  <1>15. TypeOK'
    <2>1. ref' \in [Objects -> {"none", "live", "dying", "dead"}]
      BY <1>1 DEF IInv, TypeOK
    <2> QED BY <1>2, <1>7, <2>1 DEF IInv, TypeOK
  <1>16. \A o \in Objects : /\ ref'[o] = IF o \in batch THEN "dying" ELSE ref[o]
                            /\ Alive(o)' <=> Alive(o)
                            /\ ref'[o] = "none" <=> ref[o] = "none"
                            /\ ref'[o] = "dead" <=> ref[o] = "dead"
    <2>1. \A o \in Objects : ref'[o] = IF o \in batch THEN "dying" ELSE ref[o]
      BY <1>1
    <2> QED BY <1>13, <2>1 DEF Alive
  <1>17. Mutex'
    <2>1. App(t) => \A u \in Threads : ~Collects(u)
      <3>1. App(t) => ~Resting(t)
        BY <1>3, <1>6 DEF App
      <3> QED BY <1>2, <1>5, <3>1
    <2> QED BY <1>7, <1>11, <2>1, KeepMutex DEF IInv
  <1>18. InService'
    <2>1. /\ \A o \in held' : ref'[o] = "live"
          /\ \A u \in Threads : App(u) => ref'[Shm] = "live"
          /\ \A u \in Threads, e \in Locals : WorksOn(u, e) => ref'[Wrap(e)] = "live"
      <3>1. \A o \in held : o \in Objects
        BY DEF IInv, TypeOK
      <3> QED BY <1>2, <1>14, <1>16, <3>1, Names DEF IInv, InService
    <2> QED BY <1>7, <1>11, <2>1, KeepInService DEF IInv
  <1>19. Garbage'
    <2>1. \A o \in Objects : Referrers(o) \subseteq Objects
      BY Names
    <2>2. \A u \in Threads, o \in Objects : InBatch(u, o) => ref[o] = "dying" /\ o \notin batch
      BY <1>13 DEF IInv, Garbage
    <2>3. \A u \in Threads, o \in Objects : InBatch(u, o)' => ref'[o] = "dying"
      BY <1>9, <1>16, <2>2
    <2>4. \A u, v \in Threads, o \in Objects : InBatch(u, o)' /\ InBatch(v, o)' => u = v
      BY <1>9, <2>2 DEF IInv, Garbage
    <2>5. ASSUME NEW o \in Objects, ref'[o] = "dying" PROVE \E u \in Threads : InBatch(u, o)'
      <3>1. CASE o \in batch
        BY <1>9, <3>1
      <3>2. CASE o \notin batch
        <4>1. ref[o] = "dying"
          BY <1>16, <2>5, <3>2
        <4> QED BY <1>9, <4>1 DEF IInv, Garbage
      <3> QED BY <3>1, <3>2
    <2>6. ASSUME NEW o \in Objects, NEW r \in Referrers(o), Alive(r)'
          PROVE  Alive(o)' /\ \A u \in Threads : InBatch(u, o)' => InBatch(u, r)'
      <3>1. r \in Objects /\ Alive(r)
        BY <1>16, <2>1, <2>6
      <3>2. Alive(o) /\ \A u \in Threads : InBatch(u, o) => InBatch(u, r)
        BY <3>1 DEF IInv, Garbage
      <3>3. o \in batch => r \in batch
        BY <1>1, <3>1 DEF Collectable
      <3> QED BY <1>9, <1>16, <3>2, <3>3
    <2> QED BY <2>3, <2>4, <2>5, <2>6 DEF Garbage, Referrers, Objects, Shm, Wrap, Pin
  <1>20. Statuses'
    <2>1. \A x \in Endpoints : Connected(x)' <=> Connected(x)
      BY <1>2 DEF Connected
    <2>2. \A x \in Locals : endpoint'[x].conn = "none" <=> ref'[Wrap(x)] = "none"
      BY <1>2, <1>16, Names DEF IInv, Statuses
    <2> QED BY <1>2, <2>1, <2>2 DEF IInv, Statuses, Wrap
  <1>21. Informed'
    BY <1>2, <1>12, KeepInformed DEF IInv
  <1>22. Attended'
    <2> SUFFICES ASSUME NEW x \in Locals
        PROVE /\ endpoint'[x].conn = "none" /\ endpoint'[x].holder = "issued" =>
                   \E u \in Threads : Attaching(u, x)'
              /\ endpoint'[x].conn = "gone" /\ endpoint'[x].holder = "issued" /\ interrupts' = 0 =>
                   \E u \in Threads : \E by \in {"app", "gc"}, pc \in {"ack", "acking"} :
                     Closing(u, x, by, pc)'
              /\ endpoint'[x].leased =>
                   \/ ref'[Pin(x)] = "live"
                   \/ \E u \in Threads : /\ InBatch(u, Pin(x))'
                                         /\ Finalized(u, Pin(x))' => Finishing(u, x)'
      BY DEF Attended, Pin
    <2>1. endpoint[x].conn = "none" /\ endpoint[x].holder = "issued" =>
            \E u \in Threads : Attaching(u, x)'
      BY <1>12 DEF IInv, Attended, SameCalls
    <2>2. endpoint[x].conn = "gone" /\ endpoint[x].holder = "issued" /\ interrupts = 0 =>
            \E u \in Threads : \E by \in {"app", "gc"}, pc \in {"ack", "acking"} :
              Closing(u, x, by, pc)'
      BY <1>12 DEF IInv, Attended, SameCalls
    <2>3. CASE ref'[Pin(x)] = "live"
      BY <1>2, <2>1, <2>2, <2>3
    <2>4. CASE Pin(x) \in batch
      <3>1. InBatch(t, Pin(x))' /\ ~Finalized(t, Pin(x))'
        BY <1>9, <2>4
      <3> QED BY <1>2, <2>1, <2>2, <3>1
    <2>5. CASE endpoint[x].leased /\ ref'[Pin(x)] # "live" /\ Pin(x) \notin batch
      <3>1. ref[Pin(x)] # "live"
        BY <1>16, <2>5, Names
      <3>2. PICK u \in Threads : InBatch(u, Pin(x)) /\ (Finalized(u, Pin(x)) => Finishing(u, x))
        BY <2>5, <3>1 DEF IInv, Attended
      <3>3. InBatch(u, Pin(x))' /\ (Finalized(u, Pin(x))' => Finishing(u, x)')
        BY <1>9, <1>12, <3>2 DEF SameCalls
      <3> QED BY <1>2, <2>1, <2>2, <3>3
    <2> QED BY <1>2, <2>1, <2>2, <2>3, <2>4, <2>5
  <1>23. Requested'
    <2>1. \A x \in Locals : endpoint'[x].closeRequested =>
            ref'[Wrap(x)] = "dead" \/ \E u \in Threads : Finalized(u, Wrap(x))'
      BY <1>2, <1>9, <1>16, Names DEF IInv, Requested
    <2>2. object'.closeRequested => ref'[Shm] = "dead" \/ \E u \in Threads : Finalized(u, Shm)'
      BY <1>2, <1>9, <1>16, Names DEF IInv, Requested
    <2>3. \A u \in Threads : /\ \A x \in Locals : Finalized(u, Wrap(x))' => endpoint'[x].closeRequested
                             /\ Finalized(u, Shm)' => object'.closeRequested
      BY <1>2, <1>9 DEF IInv, Requested
    <2> QED BY <2>1, <2>2, <2>3 DEF Requested, Wrap, Shm
  <1>24. Pursued'
    <2>1. (\A x \in Locals : Connected(x)' <=> Connected(x)) /\ Connections' = Connections
      BY <1>2 DEF Connected, Connections
    <2>2. \A x \in Locals : Connected(x)' /\ Wrap(x) \notin failed' =>
            /\ ref'[Wrap(x)] # "dead"
            /\ \A u \in Threads : Finalized(u, Wrap(x))' =>
                 endpoint'[x].leased \/ Closing(u, x, "gc", "enter")'
      BY <1>2, <1>9, <1>12, <1>16, <2>1, Names DEF IInv, Pursued, SameCalls
    <2>3. Outstanding' <=> Outstanding
      BY <1>2, <2>1 DEF Outstanding, Shm, Wrap
    <2>4. object.alive /\ ~Outstanding =>
            /\ ref'[Shm] # "dead"
            /\ \A u \in Threads : Finalized(u, Shm)' =>
                 \/ LifeClosing(u)'
                 \/ \E x \in Locals, pc \in {"ack", "acking"} : Closing(u, x, "gc", pc)'
      BY <1>9, <1>12, <1>16, Names DEF IInv, Pursued, SameCalls
    <2>5. ref'[Shm] # "none" /\ \A u \in Threads : LifeClosing(u)' => Closable'
      BY <1>2, <1>12, <1>16, <2>1, Names DEF IInv, Pursued, Closable, SameCalls
    <2> QED BY <1>2, <2>2, <2>3, <2>4, <2>5 DEF Pursued, Wrap, Shm
  <1>25. HealthyNeverRetained'
    BY <1>2 DEF IInv, HealthyNeverRetained
  <1> QED BY <1>7, <1>15, <1>17, <1>18, <1>19, <1>20, <1>21, <1>22, <1>23, <1>24, <1>25 DEF IInv

\* A batch is freed once its finalizers have run: what they left undone is
\* recorded, so nothing is owed to what it contained.
LEMMA FreedStep ==
  ASSUME IInv, NEW t \in Threads, Freed(t)
  PROVE  IInv'
  <1>1. PICK f, B, X, Y, batch :
          f = Top(t) /\ B = Below(t) /\ X = {f} /\ Y = {} /\ batch = f.all
    OBVIOUS
  <1>2. /\ At(t, "collect", "run") /\ f.rest = {} /\ Return(t)
        /\ ref' = [o \in Objects |-> IF o \notin batch THEN ref[o]
                                     ELSE IF o[1] = "pin" THEN "none" ELSE "dead"]
        /\ UNCHANGED <<object, endpoint, held, child, failed, interrupts>>
    BY <1>1 DEF Freed
  <1>3. ~Resting(t) /\ f \in FrameSet /\ Formed(f) /\ f.op = "collect"
    BY <1>1, <1>2, Running DEF IInv
  <1>4. batch \subseteq Objects /\ f.by = "gc" /\ Done(f) = batch
    BY <1>1, <1>2, <1>3 DEF Formed, Done
  <1>5. /\ Frames(t) = X \cup B
        /\ \A g \in B : g.op \notin {"collect", "life_close", "finish"}
    BY <1>1, <1>3, TopFacts DEF IInv
  <1>6. /\ \A o : (InBatch(t, o) <=> o \in batch) /\ (Finalized(t, o) <=> o \in batch)
        /\ ~LifeClosing(t) /\ \A e : ~Finishing(t, e)
        /\ \A e, pc : ~Closing(t, e, "gc", pc)
    BY <1>1, <1>3, <1>4, Doing DEF IInv
  <1>7. /\ stack' \in [Threads -> Seq(FrameSet)] /\ Shapes'
        /\ Frames(t)' = B /\ Others(t)
    BY <1>1, <1>2, <1>3, ReturnStack DEF IInv
  <1>8. /\ \A u \in Threads \ {t} : Frames(u)' = Frames(u)
        /\ \A g \in Frames(t) : g \in B \/ g = f
        /\ B \subseteq Frames(t)
    BY <1>1, <1>5, <1>7 DEF Others
  <1>9. ASSUME NEW u \in Threads, NEW o
        PROVE  /\ InBatch(u, o)' <=> InBatch(u, o) /\ u # t
               /\ Finalized(u, o)' <=> Finalized(u, o) /\ u # t
    <2>1. Batches(t)' = {}
      BY <1>5, <1>7 DEF Batches
    <2>2. ~InBatch(t, o)' /\ ~Finalized(t, o)'
      BY <2>1 DEF InBatch, Finalized
    <2>3. u # t => (InBatch(u, o)' <=> InBatch(u, o)) /\ (Finalized(u, o)' <=> Finalized(u, o))
      BY <1>8 DEF InBatch, Finalized, Batches
    <2> QED BY <2>2, <2>3
  <1>10. /\ Lessens(t) /\ ~Collects(t)'
         /\ \A u \in Threads \ {t} : Collects(u)' <=> Collects(u)
    <2>1. Lessens(t)
      BY <1>7, <1>8, Lesser
    <2>2. ~Collects(t)'
      BY <1>5, <1>7 DEF Collects, Batches
    <2>3. \A u \in Threads \ {t} : Collects(u)' <=> Collects(u)
      BY <1>8 DEF Collects, Batches
    <2> QED BY <2>1, <2>2, <2>3
  <1>11. SameCalls
    <2>1. ASSUME NEW u \in Threads, NEW e
          PROVE  (Attaching(u, e)' <=> Attaching(u, e)) /\ (Finishing(u, e)' <=> Finishing(u, e))
      BY <1>3, <1>7, <1>8 DEF Attaching, Finishing
    <2>2. ASSUME NEW u \in Threads, NEW e, NEW by, NEW pc
          PROVE  Closing(u, e, by, pc)' <=> Closing(u, e, by, pc)
      BY <1>3, <1>7, <1>8 DEF Closing
    <2>3. ASSUME NEW u \in Threads PROVE LifeClosing(u)' <=> LifeClosing(u)
      BY <1>3, <1>7, <1>8 DEF LifeClosing
    <2> QED BY <2>1, <2>2, <2>3 DEF SameCalls
  <1>12. /\ \A o \in Objects \ batch : ref'[o] = ref[o]
         /\ \A o \in batch : ref[o] = "dying" /\ ~Alive(o)'
         /\ Shm \in batch => ref'[Shm] = "dead"
         /\ \A e \in Locals : Wrap(e) \in batch => ref'[Wrap(e)] = "dead"
    <2>1. \A o \in Objects \ batch : ref'[o] = ref[o]
      BY <1>2
    <2>2. \A o \in batch : ref[o] = "dying"
      BY <1>4, <1>6 DEF IInv, Garbage
    <2>3. \A o \in batch : ref'[o] = IF o[1] = "pin" THEN "none" ELSE "dead"
      BY <1>2, <1>4
    <2>4. \A o \in batch : ref'[o] \in {"none", "dead"}
      BY <2>3
    <2>5. \A o \in batch : ~Alive(o)'
      BY <2>4 DEF Alive
    <2>6. Shm[1] # "pin" /\ \A e \in Locals : Wrap(e)[1] # "pin"
      BY Names
    <2> QED BY <2>1, <2>2, <2>3, <2>5, <2>6
  <1>13. TypeOK'
    <2>1. ref' \in [Objects -> {"none", "live", "dying", "dead"}]
      BY <1>2 DEF IInv, TypeOK
    <2> QED BY <1>2, <1>7, <2>1 DEF IInv, TypeOK
  <1>14. Mutex'
    BY <1>10, KeepMutex DEF IInv, Lessens
  <1>15. InService'
    <2>1. \A o \in Objects : ref[o] = "live" => ref'[o] = "live"
      BY <1>12
    <2>2. \A o \in held : o \in Objects
      BY DEF IInv, TypeOK
    <2>3. /\ \A o \in held' : ref'[o] = "live"
          /\ \A u \in Threads : App(u) => ref'[Shm] = "live"
          /\ \A u \in Threads, e \in Locals : WorksOn(u, e) => ref'[Wrap(e)] = "live"
      BY <1>2, <2>1, <2>2, Names DEF IInv, InService
    <2> QED BY <1>10, <2>3, KeepInService DEF IInv, Lessens
  <1>16. Garbage'
    <2>1. \A o \in Objects : Referrers(o) \subseteq Objects
      BY Names
    <2>2. \A u \in Threads, o \in Objects : InBatch(u, o) /\ u # t => o \notin batch
      BY <1>6 DEF IInv, Garbage
    <2>3. \A u \in Threads, o \in Objects : InBatch(u, o)' => ref'[o] = "dying"
      BY <1>9, <1>12, <2>2 DEF IInv, Garbage
    <2>4. \A u, v \in Threads, o \in Objects : InBatch(u, o)' /\ InBatch(v, o)' => u = v
      BY <1>9 DEF IInv, Garbage
    <2>5. ASSUME NEW o \in Objects, ref'[o] = "dying" PROVE \E u \in Threads : InBatch(u, o)'
      <3>1. o \notin batch
        BY <1>12, <2>5 DEF Alive
      <3>2. ref[o] = "dying"
        BY <1>12, <2>5, <3>1
      <3>3. PICK u \in Threads : InBatch(u, o)
        BY <3>2 DEF IInv, Garbage
      <3>4. u # t
        BY <1>6, <3>1, <3>3
      <3> QED BY <1>9, <3>3, <3>4
    <2>6. ASSUME NEW o \in Objects, NEW r \in Referrers(o), Alive(r)'
          PROVE  Alive(o)' /\ \A u \in Threads : InBatch(u, o)' => InBatch(u, r)'
      <3>1. r \in Objects /\ r \notin batch
        BY <1>12, <2>1, <2>6
      <3>2. Alive(r)
        BY <1>12, <2>6, <3>1 DEF Alive
      <3>3. Alive(o) /\ \A u \in Threads : InBatch(u, o) => InBatch(u, r)
        BY <3>1, <3>2 DEF IInv, Garbage
      <3>4. o \notin batch
        BY <1>6, <3>1, <3>3
      <3>5. Alive(o)'
        BY <1>12, <3>3, <3>4 DEF Alive
      <3> QED BY <1>9, <3>3, <3>5
    <2> QED BY <2>3, <2>4, <2>5, <2>6 DEF Garbage, Referrers, Objects, Shm, Wrap, Pin
  <1>17. Statuses'
    <2>1. \A x \in Endpoints : Connected(x)' <=> Connected(x)
      BY <1>2 DEF Connected
    <2>2. \A x \in Locals : ref'[Wrap(x)] = "none" <=> ref[Wrap(x)] = "none"
      BY <1>12, Names
    <2> QED BY <1>2, <2>1, <2>2 DEF IInv, Statuses, Wrap
  <1>18. Informed'
    BY <1>2, <1>11, KeepInformed DEF IInv
  <1>19. Attended'
    <2> SUFFICES ASSUME NEW x \in Locals
        PROVE /\ endpoint'[x].conn = "none" /\ endpoint'[x].holder = "issued" =>
                   \E u \in Threads : Attaching(u, x)'
              /\ endpoint'[x].conn = "gone" /\ endpoint'[x].holder = "issued" /\ interrupts' = 0 =>
                   \E u \in Threads : \E by \in {"app", "gc"}, pc \in {"ack", "acking"} :
                     Closing(u, x, by, pc)'
              /\ endpoint'[x].leased =>
                   \/ ref'[Pin(x)] = "live"
                   \/ \E u \in Threads : /\ InBatch(u, Pin(x))'
                                         /\ Finalized(u, Pin(x))' => Finishing(u, x)'
      BY DEF Attended, Pin
    <2>1. endpoint[x].conn = "none" /\ endpoint[x].holder = "issued" =>
            \E u \in Threads : Attaching(u, x)'
      BY <1>11 DEF IInv, Attended, SameCalls
    <2>2. endpoint[x].conn = "gone" /\ endpoint[x].holder = "issued" /\ interrupts = 0 =>
            \E u \in Threads : \E by \in {"app", "gc"}, pc \in {"ack", "acking"} :
              Closing(u, x, by, pc)'
      BY <1>11 DEF IInv, Attended, SameCalls
    <2>3. CASE ref[Pin(x)] = "live"
      <3>1. ref'[Pin(x)] = "live"
        BY <1>12, <2>3, Names
      <3> QED BY <1>2, <2>1, <2>2, <3>1
    <2>4. CASE endpoint[x].leased /\ ref[Pin(x)] # "live"
      <3>1. PICK u \in Threads : InBatch(u, Pin(x)) /\ (Finalized(u, Pin(x)) => Finishing(u, x))
        BY <2>4 DEF IInv, Attended
      <3>2. u # t
        BY <1>6, <3>1
      <3>3. InBatch(u, Pin(x))' /\ (Finalized(u, Pin(x))' => Finishing(u, x)')
        BY <1>9, <1>11, <3>1, <3>2 DEF SameCalls
      <3> QED BY <1>2, <2>1, <2>2, <3>3
    <2> QED BY <1>2, <2>1, <2>2, <2>3, <2>4
  <1>20. Requested'
    <2>1. ASSUME NEW o \in Objects, o = Shm \/ \E x \in Locals : o = Wrap(x),
                 ref[o] = "dead" \/ \E u \in Threads : Finalized(u, o)
          PROVE  ref'[o] = "dead" \/ \E u \in Threads : Finalized(u, o)'
      <3>1. CASE o \in batch
        BY <1>12, <2>1, <3>1
      <3>2. CASE o \notin batch
        <4>1. ref'[o] = ref[o] /\ ~Finalized(t, o)
          BY <1>6, <1>12, <3>2
        <4> QED BY <1>9, <2>1, <4>1
      <3> QED BY <3>1, <3>2
    <2>2. \A x \in Locals : endpoint'[x].closeRequested =>
            ref'[Wrap(x)] = "dead" \/ \E u \in Threads : Finalized(u, Wrap(x))'
      BY <1>2, <2>1, Names DEF IInv, Requested
    <2>3. object'.closeRequested => ref'[Shm] = "dead" \/ \E u \in Threads : Finalized(u, Shm)'
      BY <1>2, <2>1, Names DEF IInv, Requested
    <2>4. \A u \in Threads : /\ \A x \in Locals : Finalized(u, Wrap(x))' => endpoint'[x].closeRequested
                             /\ Finalized(u, Shm)' => object'.closeRequested
      BY <1>2, <1>9 DEF IInv, Requested
    <2> QED BY <2>2, <2>3, <2>4 DEF Requested, Wrap, Shm
  <1>21. Pursued'
    <2>1. (\A x \in Locals : Connected(x)' <=> Connected(x)) /\ Connections' = Connections
      BY <1>2 DEF Connected, Connections
    <2>2. ASSUME NEW x \in Locals, Connected(x), Wrap(x) \notin failed
          PROVE  /\ ref'[Wrap(x)] # "dead"
                 /\ \A u \in Threads : Finalized(u, Wrap(x))' =>
                      endpoint'[x].leased \/ Closing(u, x, "gc", "enter")'
      <3>1. /\ ref[Wrap(x)] # "dead"
            /\ \A u \in Threads : Finalized(u, Wrap(x)) =>
                 endpoint[x].leased \/ Closing(u, x, "gc", "enter")
        BY <2>2 DEF IInv, Pursued
      <3>2. Wrap(x) \notin batch
        <4> SUFFICES ASSUME Wrap(x) \in batch PROVE FALSE
          OBVIOUS
        <4>1. endpoint[x].leased /\ InBatch(t, Wrap(x))
          BY <1>6, <3>1
        <4>2. CASE ref[Pin(x)] = "live"
          BY <4>1, <4>2, Names DEF IInv, Garbage, Alive
        <4>3. CASE ref[Pin(x)] # "live"
          <5>1. PICK u \in Threads : /\ InBatch(u, Pin(x))
                                     /\ Finalized(u, Pin(x)) => Finishing(u, x)
            BY <4>1, <4>3 DEF IInv, Attended
          <5>2. u = t
            BY <4>1, <5>1, Together DEF IInv
          <5> QED BY <1>6, <5>1, <5>2
        <4> QED BY <4>2, <4>3
      <3> QED BY <1>2, <1>9, <1>11, <1>12, <3>1, <3>2, Names DEF SameCalls
    <2>3. Outstanding' <=> Outstanding
      BY <1>2, <2>1 DEF Outstanding, Shm, Wrap
    <2>4. ASSUME object.alive, ~Outstanding
          PROVE  /\ ref'[Shm] # "dead"
                 /\ \A u \in Threads : Finalized(u, Shm)' =>
                      \/ LifeClosing(u)'
                      \/ \E x \in Locals, pc \in {"ack", "acking"} : Closing(u, x, "gc", pc)'
      <3>1. /\ ref[Shm] # "dead"
            /\ \A u \in Threads : Finalized(u, Shm) =>
                 \/ LifeClosing(u)
                 \/ \E x \in Locals, pc \in {"ack", "acking"} : Closing(u, x, "gc", pc)
        BY <2>4 DEF IInv, Pursued
      <3>2. Shm \notin batch
        BY <1>6, <3>1
      <3>3. ref'[Shm] # "dead"
        BY <1>12, <3>1, <3>2, Names
      <3> QED BY <1>9, <1>11, <3>1, <3>3 DEF SameCalls
    <2>5. ref'[Shm] # "none" /\ \A u \in Threads : LifeClosing(u)' => Closable'
      <3>1. ref'[Shm] # "none"
        BY <1>12, Names DEF IInv, Pursued
      <3> QED BY <1>2, <1>11, <2>1, <3>1 DEF IInv, Pursued, Closable, SameCalls
    <2> QED BY <1>2, <2>1, <2>2, <2>3, <2>4, <2>5 DEF Pursued, Wrap, Shm
  <1>22. HealthyNeverRetained'
    BY <1>2 DEF IInv, HealthyNeverRetained
  <1> QED BY <1>7, <1>13, <1>14, <1>15, <1>16, <1>17, <1>18, <1>19, <1>20, <1>21, <1>22 DEF IInv

\* What the finalizer of o calls, and what it leaves behind.
Callee(k, o) ==
  /\ k \in FrameSet /\ Formed(k) /\ k.by = "gc" /\ k.locks = {}
  /\ \/ k.op = "life_close" /\ o = Shm
     \/ k.op = "close" /\ k.pc = "enter" /\ o = Wrap(k.on)
     \/ k.op = "finish" /\ o = Pin(k.on)

Ran(t, o, calls, k) ==
  \A u \in Threads :
    /\ Collects(u)' <=> Collects(u)
    /\ \A x : /\ InBatch(u, x)' <=> InBatch(u, x)
              /\ Finalized(u, x)' <=> Finalized(u, x) \/ (u = t /\ x = o)
              /\ Attaching(u, x)' <=> Attaching(u, x)
              /\ Finishing(u, x)' <=>
                   Finishing(u, x) \/ (calls /\ u = t /\ k.op = "finish" /\ k.on = x)
    /\ LifeClosing(u)' <=> LifeClosing(u) \/ (calls /\ u = t /\ k.op = "life_close")
    /\ \A x, b, p : Closing(u, x, b, p)' <=>
         \/ Closing(u, x, b, p)
         \/ calls /\ u = t /\ k.op = "close" /\ k.on = x /\ b = "gc" /\ p = k.pc

\* A collection runs the finalizer of one object of its batch, which may call on.
LEMMA RunFrames ==
  ASSUME IInv, NEW t \in Threads, At(t, "collect", "run"), NEW o, o \in Top(t).rest,
         NEW calls \in BOOLEAN, NEW k, calls => Callee(k, o), Run(t, o, calls, k),
         UNCHANGED <<ref, held>>
  PROVE  /\ stack' \in [Threads -> Seq(FrameSet)] /\ Shapes' /\ Ran(t, o, calls, k)
         /\ o \in Objects /\ InBatch(t, o)
         /\ Mutex' /\ InService' /\ Garbage'
  <1>1. PICK f, h, B, Y :
          /\ f = Top(t) /\ h = [f EXCEPT !.rest = @ \ {o}] /\ B = Below(t)
          /\ Y = IF calls THEN {k, h} ELSE {h}
    OBVIOUS
  <1>2. ~Resting(t) /\ f \in FrameSet /\ Formed(f) /\ f.op = "collect"
    BY <1>1, Running DEF IInv
  <1>3. /\ f.rest \subseteq f.all /\ f.all \subseteq Objects /\ o \in f.all /\ o \in Objects
        /\ f.by = "gc" /\ f.locks = {} /\ f.pc = "run"
    BY <1>1, <1>2 DEF Formed
  <1>4. /\ h \in FrameSet /\ h.op = "collect" /\ h.by = "gc" /\ h.locks = {} /\ h.on = f.on
        /\ h.pc = "run" /\ h.all = f.all /\ h.rest = f.rest \ {o}
    BY <1>1, <1>2, <1>3 DEF FrameSet
  <1>5. Formed(h) /\ o \in Done(h) /\ \A x : x \in Done(h) <=> x \in Done(f) \/ x = o
    BY <1>1, <1>3, <1>4 DEF Formed, Done
  <1>6. /\ Frames(t) = {f} \cup B
        /\ \A g \in B : /\ g.op \notin {"collect", "life_close", "finish"}
                        /\ ~(g.op = "close" /\ g.by = "gc")
    BY <1>1, <1>2, TopFacts DEF IInv
  <1>7. /\ \A x : (InBatch(t, x) <=> x \in f.all) /\ (Finalized(t, x) <=> x \in Done(f))
        /\ ~LifeClosing(t) /\ \A e : ~Finishing(t, e)
        /\ \A e, pc : ~Closing(t, e, "gc", pc)
    BY <1>1, <1>2, Doing DEF IInv
  <1>8. /\ stack' \in [Threads -> Seq(FrameSet)] /\ Shapes'
        /\ Frames(t)' = Y \cup B /\ Others(t)
    <2>1. CASE calls
      <3>1. Call(t, k, h)
        BY <1>1, <2>1 DEF Run
      <3>2. Over(k, h)
        BY <1>4, <1>5, <2>1 DEF Callee, Over
      <3>3. k \in FrameSet /\ Formed(k)
        BY <2>1 DEF Callee
      <3>4. h \in FrameSet /\ h.op = Top(t).op /\ h.by = Top(t).by /\ h.on = Top(t).on
        BY <1>1, <1>2, <1>3, <1>4
      <3>5. Y = {k, h} /\ B = Below(t)
        BY <1>1, <2>1
      <3>6. /\ stack' \in [Threads -> Seq(FrameSet)] /\ Shapes'
            /\ Frames(t)' = {k, h} \cup Below(t) /\ Others(t)
        BY <1>2, <1>5, <3>1, <3>2, <3>3, <3>4, CallStack DEF IInv
      <3> QED BY <3>5, <3>6
    <2>2. CASE ~calls
      <3>1. Replace(t, h)
        BY <1>1, <2>2 DEF Run
      <3>2. h \in FrameSet /\ h.op = Top(t).op /\ h.by = Top(t).by /\ h.on = Top(t).on
        BY <1>1, <1>2, <1>3, <1>4
      <3>3. Y = {h} /\ B = Below(t)
        BY <1>1, <2>2
      <3>4. /\ stack' \in [Threads -> Seq(FrameSet)] /\ Shapes'
            /\ Frames(t)' = {h} \cup Below(t) /\ Others(t)
        BY <1>2, <1>5, <3>1, <3>2, ReplaceStack DEF IInv
      <3> QED BY <3>3, <3>4
    <2> QED BY <2>1, <2>2
  <1>9. /\ \A g \in Y : g = h \/ (calls /\ g = k)
        /\ h \in Y /\ (calls => k \in Y)
    BY <1>1
  <1>10. calls => /\ k.by = "gc" /\ k.locks = {} /\ k.op \in {"life_close", "close", "finish"}
                  /\ k.op = "life_close" => o = Shm
                  /\ k.op = "close" => o = Wrap(k.on)
                  /\ k.op = "finish" => o = Pin(k.on)
    BY DEF Callee
  <1>11. \A u \in Threads \ {t} : Frames(u)' = Frames(u)
    BY <1>8 DEF Others
  <1>12. Lessens(t)
    <2>1. \A g \in Y : Continuing(t, g)
      BY <1>4, <1>9, <1>10 DEF Continuing
    <2>2. \A g \in Y \cup B : g \in Frames(t) \/ Continuing(t, g)
      BY <1>6, <2>1
    <2> QED BY <1>8, <2>2, Lesser
  <1>13. Batches(t)' = {h}
    BY <1>4, <1>6, <1>8, <1>9, <1>10 DEF Batches
  <1>14. ASSUME NEW u \in Threads, NEW x
         PROVE  /\ InBatch(u, x)' <=> InBatch(u, x)
                /\ Finalized(u, x)' <=> Finalized(u, x) \/ (u = t /\ x = o)
                /\ Collects(u)' <=> Collects(u)
    <2>1. CASE u = t
      <3>1. Collects(t) /\ Collects(t)'
        BY <1>1, <1>2, <1>3, <1>13, Doing DEF IInv, Collects
      <3>2. InBatch(t, x)' <=> x \in f.all
        BY <1>4, <1>13 DEF InBatch
      <3>3. Finalized(t, x)' <=> x \in Done(h)
        BY <1>13 DEF Finalized, Done
      <3> QED BY <1>5, <1>7, <2>1, <3>1, <3>2, <3>3
    <2>2. CASE u # t
      BY <1>11, <2>2 DEF InBatch, Finalized, Batches, Collects
    <2> QED BY <2>1, <2>2
  <1>15. ASSUME NEW u \in Threads, NEW x
         PROVE  /\ Attaching(u, x)' <=> Attaching(u, x)
                /\ Finishing(u, x)' <=>
                     Finishing(u, x) \/ (calls /\ u = t /\ k.op = "finish" /\ k.on = x)
                /\ LifeClosing(u)' <=> LifeClosing(u) \/ (calls /\ u = t /\ k.op = "life_close")
    <2>1. CASE u = t
      <3>1. Attaching(t, x)' <=> Attaching(t, x)
        BY <1>2, <1>4, <1>6, <1>8, <1>9, <1>10 DEF Attaching
      <3>2. Finishing(t, x)' <=> (calls /\ k.op = "finish" /\ k.on = x)
        BY <1>4, <1>6, <1>8, <1>9 DEF Finishing
      <3>3. LifeClosing(t)' <=> (calls /\ k.op = "life_close")
        BY <1>4, <1>6, <1>8, <1>9 DEF LifeClosing
      <3> QED BY <1>7, <2>1, <3>1, <3>2, <3>3
    <2>2. CASE u # t
      BY <1>11, <2>2 DEF Attaching, Finishing, LifeClosing
    <2> QED BY <2>1, <2>2
  <1>16. ASSUME NEW u \in Threads, NEW x, NEW b, NEW p
         PROVE  Closing(u, x, b, p)' <=>
                  \/ Closing(u, x, b, p)
                  \/ calls /\ u = t /\ k.op = "close" /\ k.on = x /\ b = "gc" /\ p = k.pc
    <2>1. CASE u = t
      BY <1>2, <1>4, <1>6, <1>8, <1>9, <1>10, <2>1 DEF Closing
    <2>2. CASE u # t
      BY <1>11, <2>2 DEF Closing
    <2> QED BY <2>1, <2>2
  <1>17. Ran(t, o, calls, k)
    BY <1>14, <1>15, <1>16 DEF Ran
  <1>18. Mutex' /\ InService'
    <2>1. Mutex'
      BY <1>12, <1>14, KeepMutex DEF IInv, Lessens
    <2>2. InService'
      BY <1>12, KeepInService, Names DEF Lessens, IInv, InService
    <2> QED BY <2>1, <2>2
  <1>19. Garbage'
    <2>1. \A x \in Objects : Referrers(x) \subseteq Objects
      BY Names
    <2>2. \A x \in Objects : \A r \in Referrers(x) : Alive(r)' =>
            Alive(x)' /\ \A u \in Threads : InBatch(u, x)' => InBatch(u, r)'
      BY <1>14, <2>1 DEF IInv, Garbage, Alive
    <2>3. /\ \A u \in Threads, x \in Objects : InBatch(u, x)' => ref'[x] = "dying"
          /\ \A u, v \in Threads, x \in Objects : InBatch(u, x)' /\ InBatch(v, x)' => u = v
          /\ \A x \in Objects : ref'[x] = "dying" => \E u \in Threads : InBatch(u, x)'
      BY <1>14 DEF IInv, Garbage
    <2> QED BY <2>2, <2>3 DEF Garbage, Referrers, Objects, Shm, Wrap, Pin
  <1> QED BY <1>3, <1>7, <1>8, <1>17, <1>18, <1>19

\* The request to close the manager: its object is closed at once unless an
\* endpoint is still connected, which then does it.
LEMMA FinalizeShmStep ==
  ASSUME IInv, NEW t \in Threads, At(t, "collect", "run"), Shm \in Top(t).rest,
         FinalizeShm(t), UNCHANGED <<ref, held, child, failed, interrupts>>
  PROVE  IInv'
  <1>1. PICK calls, k : calls = (object.alive /\ Connections = {}) /\ k = LifeClose
    OBVIOUS
  <1>2. /\ object' = [object EXCEPT !.closeRequested = TRUE]
        /\ Run(t, Shm, calls, k) /\ UNCHANGED endpoint
    BY <1>1 DEF FinalizeShm
  <1>3. /\ calls \in BOOLEAN /\ Callee(k, Shm)
        /\ k.op = "life_close"
    BY <1>1, Sides DEF LifeClose, Frame, FrameSet, Formed, Callee
  <1>4. /\ stack' \in [Threads -> Seq(FrameSet)] /\ Shapes' /\ Ran(t, Shm, calls, k)
        /\ InBatch(t, Shm) /\ Mutex' /\ InService' /\ Garbage'
    BY <1>2, <1>3, RunFrames
  <1>5. /\ object' \in [alive : BOOLEAN, gate : {"READY", "RETIRED"}, granting : BOOLEAN,
                        closeRequested : BOOLEAN]
        /\ object'.alive = object.alive /\ object'.closeRequested = TRUE
    BY <1>2 DEF IInv, TypeOK
  <1>6. \A u \in Threads :
          /\ \A x \in Objects : /\ InBatch(u, x)' <=> InBatch(u, x)
                                /\ Finalized(u, x)' <=> Finalized(u, x) \/ (u = t /\ x = Shm)
          /\ \A x : /\ Attaching(u, x)' <=> Attaching(u, x)
                    /\ Finishing(u, x)' <=> Finishing(u, x)
          /\ LifeClosing(u)' <=> LifeClosing(u) \/ (calls /\ u = t)
    BY <1>3, <1>4 DEF Ran
  <1>7. \A u \in Threads : \A x, b, p : Closing(u, x, b, p)' <=> Closing(u, x, b, p)
    BY <1>3, <1>4 DEF Ran
  <1>8. TypeOK'
    BY <1>2, <1>4, <1>5 DEF IInv, TypeOK
  <1>9. \A x \in Endpoints : Connected(x)' <=> Connected(x)
    BY <1>2 DEF Connected
  <1>10. Connections' = Connections /\ (calls <=> Closable')
    BY <1>1, <1>5, <1>9, Sides DEF Connections, Closable
  <1>11. Statuses'
    BY <1>2, <1>5, <1>9 DEF IInv, Statuses, Wrap
  <1>12. Informed'
    <2>1. \A u \in Threads, x \in Locals :
            /\ Attaching(u, x)' => endpoint'[x].holder = "issued" /\ endpoint'[x].conn = "none"
            /\ Finishing(u, x)' => endpoint'[x].leased
            /\ Closing(u, x, "gc", "enter")' => ~endpoint'[x].leased
      BY <1>2, <1>6, <1>7 DEF IInv, Informed
    <2>2. \A u \in Threads, x \in Locals : \A by \in {"app", "gc"} :
            /\ \A pc \in {"ack", "acking", "closed"} :
                 Closing(u, x, by, pc)' => endpoint'[x].conn = "gone"
            /\ Closing(u, x, by, "closed")' => endpoint'[x].holder # "issued"
      BY <1>2, <1>7 DEF IInv, Informed
    <2>3. \A u, v \in Threads, x \in Locals : Attaching(u, x)' /\ Attaching(v, x)' => u = v
      BY <1>6 DEF IInv, Informed
    <2> QED BY <2>1, <2>2, <2>3 DEF Informed
  <1>13. Attended'
    <2> SUFFICES ASSUME NEW x \in Locals
        PROVE /\ endpoint'[x].conn = "none" /\ endpoint'[x].holder = "issued" =>
                   \E u \in Threads : Attaching(u, x)'
              /\ endpoint'[x].conn = "gone" /\ endpoint'[x].holder = "issued" /\ interrupts' = 0 =>
                   \E u \in Threads : \E by \in {"app", "gc"}, pc \in {"ack", "acking"} :
                     Closing(u, x, by, pc)'
              /\ endpoint'[x].leased =>
                   \/ ref'[Pin(x)] = "live"
                   \/ \E u \in Threads : /\ InBatch(u, Pin(x))'
                                         /\ Finalized(u, Pin(x))' => Finishing(u, x)'
      BY DEF Attended, Pin
    <2>1. endpoint[x].conn = "none" /\ endpoint[x].holder = "issued" =>
            \E u \in Threads : Attaching(u, x)'
      BY <1>6 DEF IInv, Attended
    <2>2. endpoint[x].conn = "gone" /\ endpoint[x].holder = "issued" /\ interrupts = 0 =>
            \E u \in Threads : \E by \in {"app", "gc"}, pc \in {"ack", "acking"} :
              Closing(u, x, by, pc)'
      BY <1>7 DEF IInv, Attended
    <2>3. CASE endpoint[x].leased /\ ref[Pin(x)] # "live"
      <3>1. PICK u \in Threads : InBatch(u, Pin(x)) /\ (Finalized(u, Pin(x)) => Finishing(u, x))
        BY <2>3 DEF IInv, Attended
      <3>2. InBatch(u, Pin(x))' /\ (Finalized(u, Pin(x))' => Finishing(u, x)')
        BY <1>6, <3>1, Names
      <3> QED BY <1>2, <2>1, <2>2, <3>2
    <2> QED BY <1>2, <2>1, <2>2, <2>3
  <1>14. Requested'
    <2>1. \A x \in Locals : endpoint'[x].closeRequested =>
            ref'[Wrap(x)] = "dead" \/ \E u \in Threads : Finalized(u, Wrap(x))'
      BY <1>2, <1>6, Names DEF IInv, Requested
    <2>2. Finalized(t, Shm)'
      BY <1>6, Names
    <2>3. \A u \in Threads : \A x \in Locals : Finalized(u, Wrap(x))' => endpoint'[x].closeRequested
      BY <1>2, <1>6, Names DEF IInv, Requested
    <2> QED BY <1>5, <2>1, <2>2, <2>3 DEF Requested, Wrap, Shm
  <1>15. Pursued'
    <2>1. \A x \in Locals : Connected(x)' /\ Wrap(x) \notin failed' =>
            /\ ref'[Wrap(x)] # "dead"
            /\ \A u \in Threads : Finalized(u, Wrap(x))' =>
                 endpoint'[x].leased \/ Closing(u, x, "gc", "enter")'
      BY <1>2, <1>6, <1>7, <1>9, Names, Sides DEF IInv, Pursued
    <2>2. ASSUME object.alive, ~Outstanding'
          PROVE  /\ ref'[Shm] # "dead"
                 /\ \A u \in Threads : Finalized(u, Shm)' => LifeClosing(u)'
      <3>1. ref[Shm] = "dying" /\ \A u \in Threads : InBatch(u, Shm) => u = t
        BY <1>4, Names DEF IInv, Garbage
      <3>2. calls
        BY <1>1, <1>9, <2>2, Sides DEF Outstanding, Connections
      <3>3. \A u \in Threads : Finalized(u, Shm)' => u = t
        BY <1>6, <3>1, Finalizers, Names DEF IInv
      <3> QED BY <1>6, <3>1, <3>2, <3>3
    <2>3. ref'[Shm] # "none" /\ \A u \in Threads : LifeClosing(u)' => Closable'
      <3>1. \A u \in Threads : LifeClosing(u) => Closable'
        BY <1>5, <1>10 DEF IInv, Pursued, Closable
      <3> QED BY <1>6, <1>10, <3>1 DEF IInv, Pursued
    <2> QED BY <1>5, <2>1, <2>2, <2>3 DEF Pursued, Wrap, Shm
  <1>16. HealthyNeverRetained'
    BY <1>2 DEF IInv, HealthyNeverRetained
  <1> QED BY <1>4, <1>8, <1>11, <1>12, <1>13, <1>14, <1>15, <1>16 DEF IInv

\* The request to close an endpoint: it is closed at once unless a lease is out,
\* whose end then does it.
LEMMA FinalizeEndpointStep ==
  ASSUME IInv, NEW t \in Threads, At(t, "collect", "run"), NEW e \in Locals,
         Wrap(e) \in Top(t).rest,
         FinalizeEndpoint(t, e), UNCHANGED <<ref, held, child, failed, interrupts>>
  PROVE  IInv'
  <1>1. PICK calls, k, o : /\ calls = (Connected(e) /\ ~Busy(e))
                           /\ k = Frame("close", "enter", e, "gc")
                           /\ o = Wrap(e)
    OBVIOUS
  <1>2. /\ endpoint' = [endpoint EXCEPT ![e].closeRequested = TRUE]
        /\ Run(t, o, calls, k) /\ UNCHANGED object
    BY <1>1 DEF FinalizeEndpoint
  <1>3. calls \in BOOLEAN /\ k.op = "close" /\ k.on = e /\ k.pc = "enter" /\ Callee(k, o)
    BY <1>1, Sides DEF Frame, FrameSet, Formed, Callee, Connected, Busy
  <1>4. o \in Top(t).rest
    BY <1>1
  <1>5. /\ stack' \in [Threads -> Seq(FrameSet)] /\ Shapes' /\ Ran(t, o, calls, k)
        /\ InBatch(t, o) /\ Mutex' /\ InService' /\ Garbage'
    BY <1>2, <1>3, <1>4, RunFrames
  <1>6. /\ endpoint' \in [Endpoints -> EndpointSet] /\ endpoint'[e].closeRequested = TRUE
        /\ Elsewhere(e) /\ SameHolders /\ SameConns /\ SameLeases
    BY <1>2, Sides, RequestChange DEF IInv, TypeOK
  <1>7. \A u \in Threads :
          /\ \A x \in Objects : /\ InBatch(u, x)' <=> InBatch(u, x)
                                /\ Finalized(u, x)' <=> Finalized(u, x) \/ (u = t /\ x = Wrap(e))
          /\ \A x : /\ Attaching(u, x)' <=> Attaching(u, x)
                    /\ Finishing(u, x)' <=> Finishing(u, x)
          /\ LifeClosing(u)' <=> LifeClosing(u)
    BY <1>1, <1>3, <1>5 DEF Ran
  <1>8. \A u \in Threads : \A x, b, p : Closing(u, x, b, p)' <=>
          \/ Closing(u, x, b, p)
          \/ calls /\ u = t /\ x = e /\ b = "gc" /\ p = "enter"
    BY <1>3, <1>5 DEF Ran
  <1>9. TypeOK'
    BY <1>2, <1>5, <1>6 DEF IInv, TypeOK
  <1>10. \A x \in Endpoints : Connected(x)' <=> Connected(x)
    BY <1>6 DEF Connected, SameConns
  <1>11. Connections' = Connections
    BY <1>10, Sides DEF Connections
  <1>12. \A x \in Locals : /\ x \in Endpoints
                           /\ endpoint'[x].conn = endpoint[x].conn
                           /\ endpoint'[x].holder = endpoint[x].holder
                           /\ endpoint'[x].leased = endpoint[x].leased
                           /\ x # e => endpoint'[x].closeRequested = endpoint[x].closeRequested
    BY <1>6, Sides DEF Elsewhere, SameHolders, SameConns, SameLeases
  <1>13. Statuses'
    <2>1. \A x \in Endpoints :
            /\ endpoint'[x].holder = "issued" => object'.alive
            /\ Connected(x)' /\ (x \in Locals \/ child' = "running") => endpoint'[x].holder = "issued"
      BY <1>2, <1>6, <1>10 DEF IInv, Statuses, SameHolders
    <2>2. \A x \in Locals :
            /\ endpoint'[x].conn = "none" <=> ref'[Wrap(x)] = "none"
            /\ endpoint'[x].holder \in {"none", "registered"} => endpoint'[x].conn = "none"
            /\ endpoint'[x].holder = "resolved" => endpoint'[x].conn = "gone"
            /\ endpoint'[x].leased => endpoint'[x].conn = "open"
      BY <1>12 DEF IInv, Statuses
    <2> QED BY <2>1, <2>2 DEF Statuses, Wrap
  <1>14. Informed'
    <2>1. \A u \in Threads, x \in Locals :
            /\ Attaching(u, x)' => endpoint'[x].holder = "issued" /\ endpoint'[x].conn = "none"
            /\ Finishing(u, x)' => endpoint'[x].leased
            /\ Closing(u, x, "gc", "enter")' => ~endpoint'[x].leased
      <3> SUFFICES ASSUME NEW u \in Threads, NEW x \in Locals
                   PROVE  /\ Attaching(u, x)' =>
                               endpoint'[x].holder = "issued" /\ endpoint'[x].conn = "none"
                          /\ Finishing(u, x)' => endpoint'[x].leased
                          /\ Closing(u, x, "gc", "enter")' => ~endpoint'[x].leased
        OBVIOUS
      <3>1. /\ Attaching(u, x)' <=> Attaching(u, x)
            /\ Finishing(u, x)' <=> Finishing(u, x)
        BY <1>7
      <3>2. Closing(u, x, "gc", "enter")' => Closing(u, x, "gc", "enter") \/ (calls /\ x = e)
        BY <1>8
      <3>3. calls => ~endpoint[e].leased
        BY <1>1 DEF Busy
      <3> QED BY <1>12, <3>1, <3>2, <3>3 DEF IInv, Informed
    <2>2. ASSUME NEW u \in Threads, NEW x \in Locals, NEW by \in {"app", "gc"}
          PROVE  /\ \A pc \in {"ack", "acking", "closed"} :
                      Closing(u, x, by, pc)' => endpoint'[x].conn = "gone"
                 /\ Closing(u, x, by, "closed")' => endpoint'[x].holder # "issued"
      BY <1>8, <1>12 DEF IInv, Informed
    <2>3. \A u, v \in Threads, x \in Locals : Attaching(u, x)' /\ Attaching(v, x)' => u = v
      BY <1>7 DEF IInv, Informed
    <2> QED BY <2>1, <2>2, <2>3 DEF Informed
  <1>15. Attended'
    <2> SUFFICES ASSUME NEW x \in Locals
        PROVE /\ endpoint'[x].conn = "none" /\ endpoint'[x].holder = "issued" =>
                   \E u \in Threads : Attaching(u, x)'
              /\ endpoint'[x].conn = "gone" /\ endpoint'[x].holder = "issued" /\ interrupts' = 0 =>
                   \E u \in Threads : \E by \in {"app", "gc"}, pc \in {"ack", "acking"} :
                     Closing(u, x, by, pc)'
              /\ endpoint'[x].leased =>
                   \/ ref'[Pin(x)] = "live"
                   \/ \E u \in Threads : /\ InBatch(u, Pin(x))'
                                         /\ Finalized(u, Pin(x))' => Finishing(u, x)'
      BY DEF Attended, Pin
    <2>1. endpoint[x].conn = "none" /\ endpoint[x].holder = "issued" =>
            \E u \in Threads : Attaching(u, x)'
      BY <1>7 DEF IInv, Attended
    <2>2. endpoint[x].conn = "gone" /\ endpoint[x].holder = "issued" /\ interrupts = 0 =>
            \E u \in Threads : \E by \in {"app", "gc"}, pc \in {"ack", "acking"} :
              Closing(u, x, by, pc)'
      BY <1>8 DEF IInv, Attended
    <2>3. CASE endpoint[x].leased /\ ref[Pin(x)] # "live"
      <3>1. PICK u \in Threads : InBatch(u, Pin(x)) /\ (Finalized(u, Pin(x)) => Finishing(u, x))
        BY <2>3 DEF IInv, Attended
      <3>2. InBatch(u, Pin(x))' /\ (Finalized(u, Pin(x))' => Finishing(u, x)')
        BY <1>7, <3>1, Names
      <3> QED BY <1>12, <2>1, <2>2, <3>2
    <2> QED BY <1>12, <2>1, <2>2, <2>3
  <1>16. Requested'
    <2>1. ASSUME NEW x \in Locals, endpoint'[x].closeRequested
          PROVE  ref'[Wrap(x)] = "dead" \/ \E u \in Threads : Finalized(u, Wrap(x))'
      <3>1. CASE x = e
        BY <1>7, <3>1, Names
      <3>2. CASE x # e
        BY <1>7, <1>12, <2>1, <3>2, Names DEF IInv, Requested
      <3> QED BY <3>1, <3>2
    <2>2. object'.closeRequested => ref'[Shm] = "dead" \/ \E u \in Threads : Finalized(u, Shm)'
      BY <1>2, <1>7, Names DEF IInv, Requested
    <2>3. \A u \in Threads : \A x \in Locals : Finalized(u, Wrap(x))' => endpoint'[x].closeRequested
      BY <1>6, <1>7, <1>12, Names DEF IInv, Requested
    <2>4. \A u \in Threads : Finalized(u, Shm)' => object'.closeRequested
      BY <1>2, <1>7, Names DEF IInv, Requested
    <2> QED BY <2>1, <2>2, <2>3, <2>4 DEF Requested, Wrap, Shm
  <1>17. Pursued'
    <2>1. ASSUME NEW x \in Locals, Connected(x)', Wrap(x) \notin failed'
          PROVE  /\ ref'[Wrap(x)] # "dead"
                 /\ \A u \in Threads : Finalized(u, Wrap(x))' =>
                      endpoint'[x].leased \/ Closing(u, x, "gc", "enter")'
      <3>1. Connected(x) /\ Wrap(x) \notin failed
        BY <1>10, <1>12, <2>1
      <3>2. /\ ref[Wrap(x)] # "dead"
            /\ \A u \in Threads : Finalized(u, Wrap(x)) =>
                 endpoint[x].leased \/ Closing(u, x, "gc", "enter")
        BY <3>1 DEF IInv, Pursued
      <3>3. CASE x # e
        BY <1>7, <1>8, <1>12, <3>2, <3>3, Names
      <3>4. CASE x = e
        <4>1. calls \/ endpoint[e].leased
          BY <1>1, <3>1, <3>4 DEF Busy
        <4>2. ASSUME NEW u \in Threads, Finalized(u, Wrap(e))' PROVE u = t
          <5>1. InBatch(u, Wrap(e))
            BY <1>1, <1>5, <1>7, <4>2, Finalizers, Names DEF IInv
          <5> QED BY <1>1, <1>5, <5>1, Names DEF IInv, Garbage
        <4> QED BY <1>8, <1>12, <3>2, <3>4, <4>1, <4>2
      <3> QED BY <3>3, <3>4
    <2>2. Outstanding' <=> Outstanding
      BY <1>10, <1>12 DEF Outstanding, Shm, Wrap
    <2>3. object.alive /\ ~Outstanding =>
            /\ ref'[Shm] # "dead"
            /\ \A u \in Threads : Finalized(u, Shm)' =>
                 \/ LifeClosing(u)'
                 \/ \E x \in Locals, pc \in {"ack", "acking"} : Closing(u, x, "gc", pc)'
      BY <1>7, <1>8, Names DEF IInv, Pursued
    <2>4. ref'[Shm] # "none" /\ \A u \in Threads : LifeClosing(u)' => Closable'
      BY <1>2, <1>7, <1>11 DEF IInv, Pursued, Closable
    <2> QED BY <1>2, <2>1, <2>2, <2>3, <2>4 DEF Pursued, Wrap, Shm
  <1>18. HealthyNeverRetained'
    BY <1>6, Sides DEF IInv, HealthyNeverRetained, SameHolders
  <1> QED BY <1>5, <1>9, <1>13, <1>14, <1>15, <1>16, <1>17, <1>18 DEF IInv

\* The request to clean up after a lease, if it is still out.
LEMMA FinalizePinStep ==
  ASSUME IInv, NEW t \in Threads, At(t, "collect", "run"), NEW e \in Locals,
         Pin(e) \in Top(t).rest,
         FinalizePin(t, e), UNCHANGED <<ref, held, child, failed, interrupts>>
  PROVE  IInv'
  <1>1. PICK calls, k, o : /\ calls = Busy(e)
                           /\ k = Frame("finish", "enter", e, "gc")
                           /\ o = Pin(e)
    OBVIOUS
  <1>2. Run(t, o, calls, k) /\ UNCHANGED <<object, endpoint>>
    BY <1>1 DEF FinalizePin
  <1>3. calls \in BOOLEAN /\ k.op = "finish" /\ k.on = e /\ Callee(k, o)
    <2>1. endpoint[e].leased \in BOOLEAN
      BY Sides DEF IInv, TypeOK, EndpointSet
    <2> QED BY <1>1, <2>1, Sides DEF Frame, FrameSet, Formed, Callee, Busy
  <1>4. o \in Top(t).rest
    BY <1>1
  <1>5. /\ stack' \in [Threads -> Seq(FrameSet)] /\ Shapes' /\ Ran(t, o, calls, k)
        /\ InBatch(t, o) /\ Mutex' /\ InService' /\ Garbage'
    BY <1>2, <1>3, <1>4, RunFrames
  <1>6. \A u \in Threads :
          /\ \A x \in Objects : /\ InBatch(u, x)' <=> InBatch(u, x)
                                /\ Finalized(u, x)' <=> Finalized(u, x) \/ (u = t /\ x = Pin(e))
          /\ \A x : /\ Attaching(u, x)' <=> Attaching(u, x)
                    /\ Finishing(u, x)' <=> Finishing(u, x) \/ (calls /\ u = t /\ x = e)
          /\ LifeClosing(u)' <=> LifeClosing(u)
    BY <1>1, <1>3, <1>5 DEF Ran
  <1>7. \A u \in Threads : \A x, b, p : Closing(u, x, b, p)' <=> Closing(u, x, b, p)
    BY <1>3, <1>5 DEF Ran
  <1>8. TypeOK'
    BY <1>2, <1>5 DEF IInv, TypeOK
  <1>9. (\A x \in Endpoints : Connected(x)' <=> Connected(x)) /\ Connections' = Connections
    BY <1>2 DEF Connected, Connections
  <1>10. Statuses'
    BY <1>2, <1>9 DEF IInv, Statuses, Wrap
  <1>11. Informed'
    <2>1. \A u \in Threads, x \in Locals :
            /\ Attaching(u, x)' => endpoint'[x].holder = "issued" /\ endpoint'[x].conn = "none"
            /\ Finishing(u, x)' => endpoint'[x].leased
            /\ Closing(u, x, "gc", "enter")' => ~endpoint'[x].leased
      BY <1>1, <1>2, <1>6, <1>7 DEF IInv, Informed, Busy
    <2>2. \A u \in Threads, x \in Locals : \A by \in {"app", "gc"} :
            /\ \A pc \in {"ack", "acking", "closed"} :
                 Closing(u, x, by, pc)' => endpoint'[x].conn = "gone"
            /\ Closing(u, x, by, "closed")' => endpoint'[x].holder # "issued"
      BY <1>2, <1>7 DEF IInv, Informed
    <2>3. \A u, v \in Threads, x \in Locals : Attaching(u, x)' /\ Attaching(v, x)' => u = v
      BY <1>6 DEF IInv, Informed
    <2> QED BY <2>1, <2>2, <2>3 DEF Informed
  <1>12. Attended'
    <2> SUFFICES ASSUME NEW x \in Locals
        PROVE /\ endpoint'[x].conn = "none" /\ endpoint'[x].holder = "issued" =>
                   \E u \in Threads : Attaching(u, x)'
              /\ endpoint'[x].conn = "gone" /\ endpoint'[x].holder = "issued" /\ interrupts' = 0 =>
                   \E u \in Threads : \E by \in {"app", "gc"}, pc \in {"ack", "acking"} :
                     Closing(u, x, by, pc)'
              /\ endpoint'[x].leased =>
                   \/ ref'[Pin(x)] = "live"
                   \/ \E u \in Threads : /\ InBatch(u, Pin(x))'
                                         /\ Finalized(u, Pin(x))' => Finishing(u, x)'
      BY DEF Attended, Pin
    <2>1. endpoint[x].conn = "none" /\ endpoint[x].holder = "issued" =>
            \E u \in Threads : Attaching(u, x)'
      BY <1>6 DEF IInv, Attended
    <2>2. endpoint[x].conn = "gone" /\ endpoint[x].holder = "issued" /\ interrupts = 0 =>
            \E u \in Threads : \E by \in {"app", "gc"}, pc \in {"ack", "acking"} :
              Closing(u, x, by, pc)'
      BY <1>7 DEF IInv, Attended
    <2>3. CASE endpoint[x].leased /\ ref[Pin(x)] # "live"
      <3>1. PICK u \in Threads : InBatch(u, Pin(x)) /\ (Finalized(u, Pin(x)) => Finishing(u, x))
        BY <2>3 DEF IInv, Attended
      <3>2. CASE x = e
        <4>1. u = t
          BY <1>1, <1>5, <3>1, <3>2, Names DEF IInv, Garbage
        <4>2. Finishing(t, e)' /\ InBatch(t, Pin(e))'
          BY <1>1, <1>6, <2>3, <3>1, <3>2, <4>1, Names DEF Busy
        <4> QED BY <1>2, <2>1, <2>2, <3>2, <4>2
      <3>3. CASE x # e
        <4>1. InBatch(u, Pin(x))' /\ (Finalized(u, Pin(x))' => Finishing(u, x)')
          BY <1>6, <3>1, <3>3, Names
        <4> QED BY <1>2, <2>1, <2>2, <4>1
      <3> QED BY <3>2, <3>3
    <2> QED BY <1>2, <2>1, <2>2, <2>3
  <1>13. Requested'
    <2>1. \A x \in Locals : endpoint'[x].closeRequested =>
            ref'[Wrap(x)] = "dead" \/ \E u \in Threads : Finalized(u, Wrap(x))'
      BY <1>2, <1>6, Names DEF IInv, Requested
    <2>2. object'.closeRequested => ref'[Shm] = "dead" \/ \E u \in Threads : Finalized(u, Shm)'
      BY <1>2, <1>6, Names DEF IInv, Requested
    <2>3. \A u \in Threads : /\ \A x \in Locals : Finalized(u, Wrap(x))' => endpoint'[x].closeRequested
                             /\ Finalized(u, Shm)' => object'.closeRequested
      BY <1>2, <1>6, Names DEF IInv, Requested
    <2> QED BY <2>1, <2>2, <2>3 DEF Requested, Wrap, Shm
  <1>14. Pursued'
    <2>1. \A x \in Locals : Connected(x)' /\ Wrap(x) \notin failed' =>
            /\ ref'[Wrap(x)] # "dead"
            /\ \A u \in Threads : Finalized(u, Wrap(x))' =>
                 endpoint'[x].leased \/ Closing(u, x, "gc", "enter")'
      BY <1>2, <1>6, <1>7, <1>9, Names, Sides DEF IInv, Pursued
    <2>2. Outstanding' <=> Outstanding
      BY <1>9, Sides DEF Outstanding, Shm, Wrap
    <2>3. object.alive /\ ~Outstanding =>
            /\ ref'[Shm] # "dead"
            /\ \A u \in Threads : Finalized(u, Shm)' =>
                 \/ LifeClosing(u)'
                 \/ \E x \in Locals, pc \in {"ack", "acking"} : Closing(u, x, "gc", pc)'
      BY <1>6, <1>7, Names DEF IInv, Pursued
    <2>4. ref'[Shm] # "none" /\ \A u \in Threads : LifeClosing(u)' => Closable'
      BY <1>2, <1>6, <1>9 DEF IInv, Pursued, Closable
    <2> QED BY <1>2, <2>1, <2>2, <2>3, <2>4 DEF Pursued, Wrap, Shm
  <1>15. HealthyNeverRetained'
    BY <1>2 DEF IInv, HealthyNeverRetained
  <1> QED BY <1>5, <1>8, <1>10, <1>11, <1>12, <1>13, <1>14, <1>15 DEF IInv

\* A collection runs any finalizer.
LEMMA FinalizeStep ==
  ASSUME IInv, NEW t \in Threads, Finalize(t)
  PROVE  IInv'
  <1>1. At(t, "collect", "run") /\ UNCHANGED <<ref, held, child, failed, interrupts>>
    BY DEF Finalize
  <1>2. PICK o \in Top(t).rest : \/ o[1] = "shm" /\ FinalizeShm(t)
                                 \/ o[1] = "endpoint" /\ FinalizeEndpoint(t, o[2])
                                 \/ o[1] = "pin" /\ FinalizePin(t, o[2])
    BY DEF Finalize
  <1>3. o \in Objects
    <2>1. Formed(Top(t)) /\ Top(t).op = "collect"
      BY <1>1, Running DEF IInv
    <2> QED BY <2>1 DEF Formed
  <1>4. CASE o = Shm
    <2>1. FinalizeShm(t)
      BY <1>2, <1>4, Names
    <2> QED BY <1>1, <1>4, <2>1, FinalizeShmStep
  <1>5. CASE \E e \in Locals : o = Wrap(e)
    <2>1. PICK e \in Locals : o = Wrap(e)
      BY <1>5
    <2>2. FinalizeEndpoint(t, e)
      BY <1>2, <2>1, Names
    <2> QED BY <1>1, <2>1, <2>2, FinalizeEndpointStep
  <1>6. CASE \E e \in Locals : o = Pin(e)
    <2>1. PICK e \in Locals : o = Pin(e)
      BY <1>6
    <2>2. FinalizePin(t, e)
      BY <1>2, <2>1, Names
    <2> QED BY <1>1, <2>1, <2>2, FinalizePinStep
  <1> QED BY <1>3, <1>4, <1>5, <1>6, Names
-----------------------------------------------------------------------------
(***************************************************************************)
(* The invariant holds at the beginning, and every step keeps it.          *)
(***************************************************************************)
\* The invariant holds when the authority has been created.
LEMMA InitStep ==
  ASSUME Init
  PROVE  IInv
  <1>1. \A t \in Threads : stack[t] = <<>> /\ Frames(t) = {}
    <2>1. \A t \in Threads : stack[t] = <<>>
      BY DEF Init
    <2>2. Len(<<>>) = 0
      OBVIOUS
    <2> QED BY <2>1, <2>2 DEF Frames
  <1>2. \A t \in Threads :
          /\ ~App(t) /\ ~Collects(t) /\ ~LifeClosing(t)
          /\ \A l : ~Has(t, l)
          /\ \A o : ~InBatch(t, o) /\ ~Finalized(t, o)
          /\ \A e : ~WorksOn(t, e) /\ ~Attaching(t, e) /\ ~Finishing(t, e)
          /\ \A e, by, pc : ~Closing(t, e, by, pc)
    BY <1>1 DEF App, Collects, LifeClosing, Has, InBatch, Finalized, WorksOn, Attaching,
                Finishing, Closing, Batches
  <1>3. \A e \in Endpoints : /\ endpoint[e].holder = "none" /\ endpoint[e].conn = "none"
                             /\ endpoint[e].closeRequested = FALSE /\ endpoint[e].leased = FALSE
                             /\ ~Connected(e)
    BY DEF Init, Connected
  <1>4. /\ ref[Shm] = "live" /\ \A o \in Objects : o # Shm => ref[o] = "none"
        /\ held = {Shm} /\ failed = {} /\ object.closeRequested = FALSE
    BY Names DEF Init
  <1>5. TypeOK
    <2>1. object \in [alive : BOOLEAN, gate : {"READY", "RETIRED"}, granting : BOOLEAN,
                      closeRequested : BOOLEAN]
      BY DEF Init
    <2>2. endpoint \in [Endpoints -> EndpointSet]
      BY DEF Init, EndpointSet
    <2>3. ref \in [Objects -> {"none", "live", "dying", "dead"}]
      BY DEF Init
    <2>4. stack \in [Threads -> Seq(FrameSet)]
      BY DEF Init
    <2> QED BY <1>4, <2>1, <2>2, <2>3, <2>4, Names DEF Init, TypeOK
  <1>6. Shapes
    <2>1. Shape(<<>>)
      BY DEF Shape
    <2> QED BY <1>1, <2>1 DEF Shapes
  <1>7. Mutex /\ InService
    BY <1>2, <1>4 DEF Mutex, InService
  <1>8. Garbage
    <2>1. \A o \in Objects : ref[o] \in {"live", "none"} /\ (ref[o] = "live" => o = Shm)
      BY <1>4
    <2>2. \A o \in Objects : \A r \in Referrers(o) : r \in Objects /\ r # Shm
      BY Names
    <2> QED BY <1>2, <2>1, <2>2 DEF Garbage, Alive
  <1>9. Statuses /\ Informed /\ Attended
    BY <1>2, <1>3, <1>4, Names, Sides DEF Statuses, Informed, Attended
  <1>10. Requested /\ Pursued
    <2>1. Requested
      BY <1>2, <1>3, <1>4, Sides DEF Requested
    <2>2. Pursued
      BY <1>2, <1>3, <1>4, Sides DEF Pursued
    <2> QED BY <2>1, <2>2
  <1>11. HealthyNeverRetained
    BY <1>4 DEF HealthyNeverRetained
  <1> QED BY <1>5, <1>6, <1>7, <1>8, <1>9, <1>10, <1>11 DEF IInv

\* Every step keeps it.
LEMMA NextStep ==
  ASSUME IInv, [Next]_vars
  PROVE  IInv'
  <1>1. ASSUME NEW t \in Threads, Begins(t)
        PROVE  IInv'
    BY <1>1, GrantStep, ManageStep, MethodStep, CloseStep, CloseShmStep DEF Begins
  <1>2. ASSUME NEW t \in Threads, Continues(t)
        PROVE  IInv'
    <2>1. CASE Granted(t) \/ Attach(t) \/ MethodReturns(t)
      BY <2>1, GrantedStep, AttachStep, MethodReturnsStep
    <2>2. CASE CloseEnter(t) \/ Ack(t) \/ Acknowledge(t) \/ CloseReturns(t) \/ LifeCloseReturns(t)
      BY <2>2, CloseEnterStep, AckStep, AcknowledgeStep, CloseReturnsStep, LifeCloseReturnsStep
    <2>3. CASE CloseShmBusy(t) \/ CloseShmEach(t) \/ CloseShmReturns(t)
      BY <2>3, CloseShmBusyStep, CloseShmEachStep, CloseShmReturnsStep
    <2>4. CASE AckCleanup(t) \/ Reap(t) \/ Retire(t) \/ NothingDone(t)
      BY <2>4, AckCleanupStep, ReapStep, RetireStep, NothingDoneStep
    <2>5. CASE Finalize(t) \/ Freed(t) \/ Finish(t)
      BY <2>5, FinalizeStep, FreedStep, FinishStep
    <2> QED BY <1>2, <2>1, <2>2, <2>3, <2>4, <2>5 DEF Continues
  <1>3. ASSUME NEW t \in Threads, AckInterrupted(t) \/ Collect(t)
        PROVE  IInv'
    BY <1>3, AckInterruptedStep, CollectStep
  <1>4. ASSUME NEW e \in Remote, ChildAttaches(e) \/ ChildDetaches(e)
        PROVE  IInv'
    BY <1>4, ChildStep
  <1>5. CASE PeerRetires \/ ChildDies \/ \E o \in Objects : Forget(o)
    BY <1>5, PeerRetiresStep, ChildDiesStep, ForgetStep
  <1>6. CASE UNCHANGED vars
    <2>1. UNCHANGED <<object, endpoint, ref, held, child, failed, stack, interrupts>>
      BY <1>6 DEF vars
    <2>2. /\ stack' \in [Threads -> Seq(FrameSet)] /\ Shapes' /\ SameBatches /\ SameCalls
          /\ Mutex' /\ InService'
      BY <2>1, Idle
    <2>3. TypeOK'
      BY <2>1 DEF IInv, TypeOK
    <2> QED BY <2>1, <2>2, <2>3, Quiet
  <1> QED BY <1>1, <1>2, <1>3, <1>4, <1>5, <1>6 DEF Next

\* The invariant holds for any number of threads, endpoints and interrupts,
\* wherever the collector breaks in.
THEOREM Invariance == Spec => []IInv
  <1>1. Init => IInv
    BY InitStep
  <1>2. IInv /\ [Next]_vars => IInv'
    BY NextStep
  <1> QED BY <1>1, <1>2, PTL DEF Spec
-----------------------------------------------------------------------------
(***************************************************************************)
(* What the invariant says of the program.                                 *)
(***************************************************************************)

\* What a thread that waits may hold: whatever it waits for at an endpoint, it
\* holds a lock only because a collection broke into a call that had taken it.
LEMMA Waiting ==
  ASSUME IInv, NEW t \in Threads, NEW l \in Wanted(t), NEW f, f = Top(t)
  PROVE  /\ ~Resting(t)
         /\ f.op \in {"close", "finish", "life_close", "close_shm"}
         /\ \/ f.op \in {"close", "finish"} /\ f.pc = "enter" /\ l = f.on /\ l \in Locals
            \/ l = A
         /\ Has(t, A) => App(t) /\ Collects(t) /\ f.by = "gc"
         /\ \A k : Has(t, k) /\ l # A => App(t) /\ Collects(t)
  <1>1. /\ ~Resting(t)
        /\ \/ f.op \in {"close", "finish"} /\ f.pc = "enter" /\ l = f.on
           \/ f.op = "close" /\ f.pc = "ack" /\ l = A
           \/ f.op = "life_close" /\ f.pc = "enter" /\ l = A
           \/ f.op = "close_shm" /\ f.pc = "close" /\ l = A
    BY DEF Wanted, At
  <1>2. PICK B : B = Below(t)
    OBVIOUS
  <1>3. /\ f \in FrameSet /\ Formed(f) /\ Frames(t) = {f} \cup B
        /\ \A g \in B : /\ g \in FrameSet /\ Formed(g)
                        /\ g.op \notin {"life_close", "finish"}
                        /\ g.op = "close" /\ g.by = "gc" => f.op = "life_close" /\ g.pc = "closed"
    BY <1>1, <1>2, TopFacts DEF IInv
  <1>4. f.by \in {"app", "gc"} /\ \A g \in B : g.by \in {"app", "gc"}
    BY <1>3 DEF FrameSet
  <1>5. f.op \in {"close", "finish"} => f.on \in Locals /\ f.on # A
    BY <1>3, Sides DEF Formed
  <1>6. A \notin f.locks /\ (l # A => f.locks = {})
    BY <1>1, <1>3, <1>5, Sides DEF Formed
  <1>7. ASSUME f.by = "app", NEW g \in B PROVE g.locks = {}
    <2>1. Shape(stack[t]) /\ stack[t] # <<>> /\ f = Head(stack[t])
      BY <1>1 DEF IInv, Shapes, Resting, Top
    <2>2. g.op = "close_shm" /\ g.pc = "close"
      BY <1>2, <1>7, <2>1, AppOnTop DEF Below
    <2> QED BY <1>3, <2>2 DEF Formed
  <1>8. ASSUME f.by = "gc", NEW g \in B, NEW k \in g.locks, k = A \/ l # A PROVE g.by = "app"
    <2> SUFFICES ASSUME g.by = "gc" PROVE FALSE
      BY <1>4
    <2>1. g.op = "close"
      BY <1>3, <1>8 DEF Formed
    <2>2. f.op = "life_close" /\ g.pc = "closed"
      BY <1>3, <2>1
    <2>3. l = A
      BY <1>1, <2>2
    <2>4. g.locks = {g.on} /\ g.on # A
      BY <1>3, <2>1, <2>2, Sides DEF Formed
    <2> QED BY <1>8, <2>3, <2>4
  <1>9. ASSUME NEW k, Has(t, k), k = A \/ l # A
        PROVE  App(t) /\ Collects(t) /\ f.by = "gc"
    <2>1. PICK g \in Frames(t) : k \in g.locks
      BY <1>9 DEF Has
    <2>2. g \in B
      BY <1>3, <1>6, <1>9, <2>1
    <2>3. f.by = "gc"
      BY <1>4, <1>7, <2>1, <2>2
    <2>4. g.by = "app"
      BY <1>8, <1>9, <2>1, <2>2, <2>3
    <2>5. App(t)
      BY <2>1, <2>4 DEF App
    <2>6. Collects(t)
      BY <1>1, <2>3, Doing DEF IInv
    <2> QED BY <2>3, <2>5, <2>6
  <1> QED BY <1>1, <1>5, <1>9

\* Who holds the lock of an endpoint: a method, or a close that has detached it.
LEMMA Holding ==
  ASSUME IInv, NEW u \in Threads, NEW e \in Locals, Has(u, e)
  PROVE  \/ \E h \in Frames(u) : h.op = "method" /\ h.by = "app"
         \/ /\ endpoint[e].conn = "gone"
            /\ WorksOn(u, e) \/ InBatch(u, Wrap(e))
  <1>1. PICK h \in Frames(u) : e \in h.locks
    BY DEF Has
  <1>2. Formed(h) /\ e # A /\ h \in FrameSet
    <2>1. PICK i \in 1 .. Len(stack[u]) : h = stack[u][i]
      BY DEF Frames
    <2> QED BY <2>1, Sides, ElementOfSeq DEF IInv, Shapes, Shape
  <1>3. h.by \in {"app", "gc"}
    BY <1>2 DEF FrameSet
  <1>4. CASE h.op = "method"
    BY <1>2, <1>4 DEF Formed
  <1>5. CASE h.op = "close"
    <2>1. h.pc \in {"ack", "acking", "closed"} /\ h.on = e
      BY <1>1, <1>2, <1>5 DEF Formed
    <2>2. Closing(u, e, h.by, h.pc)
      BY <1>5, <2>1 DEF Closing
    <2>3. endpoint[e].conn = "gone"
      BY <1>3, <2>1, <2>2 DEF IInv, Informed
    <2>4. h.by = "app" => WorksOn(u, e)
      BY <2>2, Finalizers DEF IInv
    <2>5. h.by = "gc" => InBatch(u, Wrap(e))
      BY <2>2, Finalizers DEF IInv
    <2> QED BY <1>3, <2>3, <2>4, <2>5
  <1>6. h.op \in {"method", "close"}
    BY <1>1, <1>2 DEF Formed
  <1> QED BY <1>4, <1>5, <1>6

\* Threads never wait for one another in a circle, wherever the collector breaks
\* in: a thread in the circle that held the authority's lock would be the one
\* collection over a call, at an endpoint nobody else in the circle uses; so all
\* wait at endpoints, and of those at most one holds anything.
THEOREM NoDeadlock == Spec => []NoCircularWait
  <1>1. ASSUME IInv PROVE NoCircularWait
    <2> SUFFICES ASSUME NEW circle \in SUBSET Threads, circle # {},
                        \A t \in circle : \E l \in Wanted(t) : \E u \in circle \ {t} : Has(u, l)
                 PROVE  FALSE
      BY DEF NoCircularWait
    <2>1. ASSUME NEW t \in circle, Has(t, A) PROVE FALSE
      <3>1. PICK l \in Wanted(t), u \in circle \ {t} : Has(u, l)
        OBVIOUS
      <3>2. t \in Threads /\ u \in Threads /\ u # t
        OBVIOUS
      <3>3. l # A
        BY <1>1, <2>1, <3>1, <3>2, Sides DEF IInv, Mutex
      <3>4. PICK f : f = Top(t)
        OBVIOUS
      <3>5. /\ ~Resting(t) /\ App(t) /\ Collects(t) /\ f.by = "gc"
            /\ f.op \in {"close", "finish"} /\ f.pc = "enter" /\ l = f.on /\ l \in Locals
        BY <1>1, <2>1, <3>2, <3>3, <3>4, Waiting
      <3>6. ~(App(u) /\ Collects(u))
        BY <1>1, <3>2, <3>5 DEF IInv, Mutex
      <3>7. \A h \in Frames(u) : ~(h.op = "method" /\ h.by = "app")
        <4> SUFFICES ASSUME NEW h \in Frames(u), h.op = "method", h.by = "app" PROVE FALSE
          OBVIOUS
        <4>1. PICK m \in Wanted(u) : TRUE
          OBVIOUS
        <4>2. PICK g : g = Top(u)
          OBVIOUS
        <4>3. ~Resting(u) /\ g.op \in {"close", "finish", "life_close", "close_shm"}
          BY <1>1, <3>2, <4>1, <4>2, Waiting
        <4>4. App(u)
          BY DEF App
        <4>5. g.by = "app"
          <5>1. g \in FrameSet /\ (g.by = "gc" => Collects(u))
            BY <1>1, <3>2, <4>2, <4>3, TopFacts, Doing DEF IInv
          <5> QED BY <3>6, <4>4, <5>1 DEF FrameSet
        <4>6. \A k \in Frames(u) : k = g \/ k.op = "close_shm"
          BY <1>1, <3>2, <4>2, <4>3, <4>5, TopFacts DEF IInv
        <4> QED BY <4>3, <4>6
      <3>8. endpoint[l].conn = "gone" /\ (WorksOn(u, l) \/ InBatch(u, Wrap(l)))
        BY <1>1, <3>1, <3>2, <3>5, <3>7, Holding
      <3>9. CASE f.op = "finish"
        <4>1. Finishing(t, l)
          BY <1>1, <3>2, <3>4, <3>5, <3>9, Doing DEF IInv
        <4> QED BY <1>1, <3>2, <3>5, <3>8, <4>1 DEF IInv, Informed, Statuses
      <3>10. CASE f.op = "close"
        <4>1. InBatch(t, Wrap(l))
          BY <1>1, <3>2, <3>4, <3>5, <3>10, Doing, Finalizers DEF IInv
        <4>2. ~WorksOn(u, l)
          BY <1>1, <3>2, <3>5, <4>1, Untouched DEF IInv
        <4> QED BY <1>1, <3>2, <3>5, <3>8, <4>1, <4>2, Names DEF IInv, Garbage
      <3> QED BY <3>5, <3>9, <3>10
    <2>2. ASSUME NEW t \in circle
          PROVE  \E u \in circle \ {t} : App(u) /\ Collects(u)
      <3>1. PICK l \in Wanted(t), u \in circle \ {t} : Has(u, l)
        OBVIOUS
      <3>2. PICK m \in Wanted(u), v \in circle \ {u} : Has(v, m)
        OBVIOUS
      <3>3. m # A
        BY <2>1, <3>2
      <3>4. App(u) /\ Collects(u)
        <4>1. u \in Threads
          OBVIOUS
        <4> QED BY <1>1, <3>1, <3>2, <3>3, <4>1, Waiting
      <3> QED BY <3>4
    <2>3. PICK t \in circle : TRUE
      OBVIOUS
    <2>4. PICK u \in circle \ {t} : App(u) /\ Collects(u)
      BY <2>2
    <2>5. PICK v \in circle \ {u} : App(v) /\ Collects(v)
      BY <2>2
    <2> QED BY <1>1, <2>4, <2>5 DEF IInv, Mutex
  <1> QED BY <1>1, Invariance, PTL

\* Whatever is still open has somebody who will close it: a wrapper, a lease, or
\* the record of the failure. An endpoint that was closed without an interrupt is
\* acknowledged before its lock is released.
THEOREM NothingForgotten == Spec => []ObligationsTracked
  <1>1. ASSUME IInv PROVE ObligationsTracked
    <2>1. \A o \in Objects : ref[o] \in {"none", "live", "dying", "dead"}
      BY <1>1 DEF IInv, TypeOK
    <2>2. ASSUME NEW e \in Locals, Connected(e)
          PROVE  Alive(Wrap(e)) \/ Alive(Pin(e)) \/ Wrap(e) \in failed
      <3>1. ref[Wrap(e)] # "none"
        BY <1>1, <2>2 DEF IInv, Statuses, Connected
      <3>2. Wrap(e) \notin failed => ref[Wrap(e)] # "dead"
        BY <1>1, <2>2 DEF IInv, Pursued
      <3> QED BY <2>1, <3>1, <3>2, Names DEF Alive
    <2>3. object.alive => \/ Alive(Shm) \/ Shm \in failed
                          \/ \E e \in Locals : Connected(e) \/ Wrap(e) \in failed
      <3>1. object.alive /\ ~Outstanding => ref[Shm] # "dead" /\ ref[Shm] # "none"
        BY <1>1 DEF IInv, Pursued
      <3>2. object.alive /\ ~Outstanding => Alive(Shm)
        BY <2>1, <3>1, Names DEF Alive
      <3> QED BY <3>2 DEF Outstanding
    <2>4. ASSUME NEW e \in Locals, endpoint[e].conn = "gone", endpoint[e].holder = "issued",
                 interrupts = 0
          PROVE  \E t \in Threads : Has(t, e)
      <3>1. PICK t \in Threads, by \in {"app", "gc"}, pc \in {"ack", "acking"} :
              Closing(t, e, by, pc)
        BY <1>1, <2>4 DEF IInv, Attended
      <3>2. PICK g \in Frames(t) : g.op = "close" /\ g.on = e /\ g.pc = pc
        BY <3>1 DEF Closing
      <3>3. Formed(g)
        <4>1. PICK i \in 1 .. Len(stack[t]) : g = stack[t][i]
          BY <3>2 DEF Frames
        <4> QED BY <1>1, <4>1 DEF IInv, Shapes, Shape
      <3>4. e \in g.locks
        BY <3>2, <3>3 DEF Formed
      <3> QED BY <3>2, <3>4 DEF Has
    <2> QED BY <2>2, <2>3, <2>4 DEF ObligationsTracked
  <1> QED BY <1>1, Invariance, PTL

\* A generation is destroyed, and a holder resolved, only when no process that
\* lives has the endpoint open.
THEOREM NobodyCutOff == Spec => []DestroyedWhenGone
  <1>1. IInv => DestroyedWhenGone
    BY DEF IInv, Statuses, DestroyedWhenGone
  <1> QED BY <1>1, Invariance, PTL

\* Without interrupts and without grants to other processes no cleanup ever fails.
THEOREM NothingRetained == Spec => []HealthyNeverRetained
  <1>1. IInv => HealthyNeverRetained
    BY DEF IInv
  <1> QED BY <1>1, Invariance, PTL
=============================================================================
