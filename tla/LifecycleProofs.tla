--------------------------- MODULE LifecycleProofs ---------------------------
(***************************************************************************)
(* The safety of Lifecycle for any number of generations, processes,       *)
(* endpoints and deliveries of a grant: attachment counts are exact, a     *)
(* holder is resolved only when nothing of it is left, nothing is sealed   *)
(* under a living holder, and one generation at a time is in service.      *)
(***************************************************************************)
EXTENDS Lifecycle, FiniteSetTheorems, TLAPS

(***************************************************************************)
(* The inductive invariant.                                                *)
(***************************************************************************)

\* What a handle has at each stage: only a claimed record of an issued grant is
\* ever enrolled, and what is given back before the receipt is complete.
HandleCoherent(c) ==
  LET pc == conn[c].pc
      has == conn[c].has
  IN  /\ pc = "none" => has = {}
      /\ pc # "none" => holder[GrantOf(c)].issued
      /\ pc = "claim" => has = {"mapping"}
      /\ pc = "enroll" => "enrolled" \notin has
      /\ pc = "decrement" => "enrolled" \in has /\ "uncertain" \notin has
      /\ pc = "release" => has \subseteq {"mapping", "claim"}
      /\ "claim" \in has => attachment[GrantOf(c)] # "NEW"

\* A session number that was not given out has left no trace.
Untouched(g) ==
  /\ ledger[g] = {} /\ gate[g].state = "BUILDING"
  /\ \A i \in Endpoints : ~holder[<<g, i>>].issued

\* An object that is sealed, or about to be, has no unresolved holder.
Sealable(g) ==
  gate[g].state = "SEALED" \/ (manager.pc = "seal" /\ manager.gen = g) => AllResolved(g)

Destroying == manager.pc \in {"seal", "unlink", "unmap"}

\* An endpoint issued by an object whose gate is open is one of the active object.
Serving(h) ==
  holder[h].issued /\ gate[h[1]].state = "READY" =>
    /\ {"active", "constructed"} \subseteq ledger[h[1]]
    /\ ~(Destroying /\ manager.gen = h[1])

IInv ==
  /\ TypeOK /\ CountExact /\ ResolvedMeansGone /\ LedgerBudget
  /\ \A c \in Conns : HandleCoherent(c)
  /\ \A h \in Grants : Serving(h) /\ (holder[h].issued => holder[h].pid # Nobody)
  /\ \A g \in Generations :
       /\ g > nextEpoch => Untouched(g)
       /\ Sealable(g)
       /\ ledger[g] # {} => "present" \in ledger[g]
  /\ Destroying => manager.gen \in Generations /\ ledger[manager.gen] # {}
-----------------------------------------------------------------------------
(***************************************************************************)
(* Finite sets.                                                            *)
(***************************************************************************)
Enrolled(g) == {c \in OfGen(g) : "enrolled" \in conn[c].has}

\* A generation has finitely many deliveries, and the ledger finitely many objects.
LEMMA Finite ==
  /\ \A g \in Generations : IsFiniteSet(OfGen(g))
  /\ \A S \in SUBSET Generations : IsFiniteSet(S)
  /\ Cardinality(Endpoints) \in Nat
  <1>1. ASSUME NEW g \in Generations PROVE IsFiniteSet(OfGen(g))
    <2> DEFINE S == Endpoints \X Copies
               f == [p \in S |-> <<g, p[1], p[2]>>]
    <2>1. IsFiniteSet(S)
      BY LifecycleAssumption, FS_Product
    <2>2. f \in Surjection(S, OfGen(g))
      <3>1. f \in [S -> OfGen(g)]
        BY DEF OfGen, Conns, Gen
      <3>2. \A c \in OfGen(g) : <<c[2], c[3]>> \in S /\ f[<<c[2], c[3]>>] = c
        BY DEF OfGen, Conns, Gen
      <3> HIDE DEF f, S
      <3> QED BY <3>1, <3>2 DEF Surjection
    <2> HIDE DEF f, S
    <2> QED BY <2>1, <2>2, FS_Surjection
  <1>2. IsFiniteSet(Generations)
    BY LifecycleAssumption, FS_Interval DEF Generations
  <1> QED BY <1>1, <1>2, LifecycleAssumption, FS_Subset, FS_CardinalityType

\* A set of one element at the most.
LEMMA AtMostOne ==
  ASSUME NEW S \in SUBSET Generations
  PROVE  Cardinality(S) <= 1 <=> \A x, y \in S : x = y
  <1>1. IsFiniteSet(S) /\ Cardinality(S) \in Nat
    BY Finite, FS_CardinalityType
  <1>2. ASSUME Cardinality(S) <= 1 PROVE \A x, y \in S : x = y
    <2>1. Cardinality(S) = 0 \/ Cardinality(S) = 1
      BY <1>1, <1>2
    <2>2. Cardinality(S) = 0 => S = {}
      BY <1>1, FS_EmptySet
    <2>3. Cardinality(S) = 1 => \E x : S = {x}
      BY <1>1, FS_Singleton
    <2> QED BY <2>1, <2>2, <2>3
  <1>3. ASSUME \A x, y \in S : x = y PROVE Cardinality(S) <= 1
    <2>1. S = {} \/ \E x : S = {x}
      BY <1>3
    <2>2. S = {} => Cardinality(S) = 0
      BY FS_EmptySet
    <2>3. \A x : S = {x} => Cardinality(S) = 1
      BY FS_Singleton
    <2> QED BY <2>1, <2>2, <2>3
  <1> QED BY <1>2, <1>3

\* One element more.
LEMMA OneMore ==
  ASSUME NEW S, IsFiniteSet(S), NEW x
  PROVE  /\ Cardinality(S \cup {x}) \in Nat
         /\ Cardinality(S \cup {x}) <= Cardinality(S) + 1
  <1>1. Cardinality(S) \in Nat
    BY FS_CardinalityType
  <1> QED BY <1>1, FS_AddElement

\* The budget without cardinalities, but for the last part.
LEMMA Budget ==
  /\ LedgerBudget <=> /\ \A x, y \in With("active") : x = y
                      /\ \A x, y \in Candidates : x = y
                      /\ Cardinality(With("quarantined")) <= MaxQuarantined
  /\ LedgerBudget' <=> /\ \A x, y \in With("active")' : x = y
                       /\ \A x, y \in Candidates' : x = y
                       /\ Cardinality(With("quarantined")') <= MaxQuarantined
  <1>1. /\ With("active") \in SUBSET Generations /\ Candidates \in SUBSET Generations
        /\ With("active")' \in SUBSET Generations /\ Candidates' \in SUBSET Generations
    BY DEF With, Candidates, Present
  <1> QED BY <1>1, AtMostOne DEF LedgerBudget
-----------------------------------------------------------------------------
(***************************************************************************)
(* What a step may leave alone.                                            *)
(***************************************************************************)
Marks == {"mapping", "claim", "enrolled", "uncertain"}

\* Deliveries and their grants.
LEMMA Deliveries ==
  /\ \A c \in Conns : /\ Gen(c) \in Generations /\ GrantOf(c) \in Grants
                      /\ GrantOf(c)[1] = Gen(c)
  /\ \A h \in Grants : h[1] \in Generations /\ h[2] \in Endpoints /\ h = <<h[1], h[2]>>
  /\ \A g \in Generations, i \in Endpoints : <<g, i>> \in Grants
  BY DEF Conns, Grants, Gen, GrantOf

\* An exact count stays exact while it changes with the enrolled handles.
LEMMA CountKept ==
  ASSUME CountExact,
         \A g \in Generations : gate'[g].state # "SEALED" =>
           /\ gate[g].state # "SEALED"
           /\ gate'[g].count - gate[g].count = Cardinality(Enrolled(g)') - Cardinality(Enrolled(g)),
         \A g \in Generations : gate'[g].count \in Nat /\ gate[g].count \in Nat
  PROVE  CountExact'
  <1> SUFFICES ASSUME NEW g \in Generations, gate'[g].state # "SEALED"
               PROVE  gate'[g].count = Cardinality(Enrolled(g)')
    BY DEF CountExact, Enrolled, OfGen
  <1>1. gate[g].count = Cardinality(Enrolled(g))
    BY DEF CountExact, Enrolled
  <1>2. Enrolled(g) \subseteq OfGen(g) /\ Enrolled(g)' \subseteq OfGen(g)
    BY DEF Enrolled, OfGen
  <1>3. Cardinality(Enrolled(g)) \in Nat /\ Cardinality(Enrolled(g)') \in Nat
    BY <1>2, Finite, FS_Subset, FS_CardinalityType
  <1> QED BY <1>1, <1>3
-----------------------------------------------------------------------------
(***************************************************************************)
(* The steps of a process with its handle.                                 *)
(***************************************************************************)

\* The parts of a typed state that the handles are about.
LEMMA HandleTypes ==
  ASSUME TypeOK
  PROVE  /\ conn \in [Conns -> [pc : Labels, has : SUBSET Marks]]
         /\ attachment \in [Grants -> Attachments]
         /\ \A g \in Generations : /\ gate[g].count \in 0 .. Cardinality(Endpoints)
                                   /\ gate[g].count \in Nat
         /\ \A c \in Conns : conn[c].has \subseteq Marks
  BY Finite DEF TypeOK, Marks

\* Delivery c reaches label l and has s, and nothing of the authority changes.
MovesTo(c, l, s) ==
  /\ conn' = [conn EXCEPT ![c] = [pc |-> l, has |-> s]]
  /\ UNCHANGED <<nextEpoch, ledger, manager, holder, procs>>

\* The gate word is left as it is, closed, or counted in an open state.
GateMoves ==
  /\ gate' \in [Generations -> [state : {States[i] : i \in 1 .. 5},
                                count : 0 .. Cardinality(Endpoints)]]
  /\ \A g \in Generations : \/ gate'[g].state = gate[g].state
                            \/ gate[g].state = "READY" /\ gate'[g].state = "RETIRE_REQUESTED"

\* A step of a delivery that keeps its stages in order, claims at most what
\* nobody has claimed, and touches the gate lawfully keeps everything but the count.
LEMMA HandleStep ==
  ASSUME IInv, NEW c \in Conns, NEW l \in Labels \ {"none"}, NEW s \in SUBSET Marks,
         MovesTo(c, l, s), GateMoves, CountExact', failed' \subseteq Generations,
         attachment' \in [Grants -> Attachments],
         conn[c].pc # "receipt", holder[GrantOf(c)].issued,
         l = "claim" => s = {"mapping"},
         l = "enroll" => "enrolled" \notin s,
         l = "decrement" => "enrolled" \in s /\ "uncertain" \notin s,
         l = "release" => s \subseteq {"mapping", "claim"},
         l = "receipt" => s \subseteq {"claim"},
         "claim" \in s => /\ "claim" \in conn[c].has \/ attachment[GrantOf(c)] = "NEW"
                          /\ attachment'[GrantOf(c)] # "NEW",
         \A h \in Grants : attachment[h] # "NEW" => attachment'[h] # "NEW"
  PROVE  IInv'
  <1>1. /\ TypeOK /\ ResolvedMeansGone /\ LedgerBudget
        /\ \A d \in Conns : HandleCoherent(d)
        /\ \A h \in Grants : Serving(h) /\ (holder[h].issued => holder[h].pid # Nobody)
        /\ \A g \in Generations :
             /\ g > nextEpoch => Untouched(g)
             /\ Sealable(g)
             /\ ledger[g] # {} => "present" \in ledger[g]
        /\ Destroying => manager.gen \in Generations /\ ledger[manager.gen] # {}
    BY DEF IInv
  <1>2. /\ conn' \in [Conns -> [pc : Labels, has : SUBSET Marks]]
        /\ conn'[c].pc = l /\ conn'[c].has = s
        /\ \A d \in Conns \ {c} : conn'[d] = conn[d]
    BY <1>1, HandleTypes DEF MovesTo
  <1>3. TypeOK'
    <2>1. \A d \in Conns : conn'[d].pc = "receipt" => conn'[d].has \subseteq {"claim"}
      BY <1>1, <1>2 DEF TypeOK
    <2> QED BY <1>1, <1>2, <2>1 DEF TypeOK, MovesTo, GateMoves, procs, Marks
  <1>4. \A d \in Conns : HandleCoherent(d)'
    <2>1. HandleCoherent(c)'
      BY <1>2 DEF HandleCoherent, MovesTo
    <2>2. ASSUME NEW d \in Conns \ {c} PROVE HandleCoherent(d)'
      BY <1>1, <1>2, Deliveries DEF HandleCoherent, MovesTo
    <2> QED BY <2>1, <2>2
  <1>5. ResolvedMeansGone'
    <2>1. ASSUME NEW d \in Conns, NEW e \in Conns, GrantOf(d) = GrantOf(e), d # e,
                 "claim" \in conn'[d].has, "claim" \in conn'[e].has
          PROVE  FALSE
      <3>1. \A x \in Conns : "claim" \in conn[x].has => attachment[GrantOf(x)] # "NEW"
        BY <1>1 DEF HandleCoherent
      <3>2. "claim" \in conn[d].has /\ "claim" \in conn[e].has
        BY <1>2, <2>1, <3>1
      <3> QED BY <1>1, <2>1, <3>2 DEF ResolvedMeansGone
    <2>2. ASSUME NEW h \in Grants, holder[h].issued, holder[h].resolved
          PROVE  \/ holder[h].pid \in dead
                 \/ \E d \in Conns : /\ GrantOf(d) = h /\ conn'[d].pc = "receipt"
                                     /\ conn'[d].has = {"claim"}
      <3>1. CASE holder[h].pid \notin dead
        <4>1. PICK d \in Conns : /\ GrantOf(d) = h /\ conn[d].pc = "receipt"
                                 /\ conn[d].has = {"claim"}
          BY <1>1, <2>2, <3>1 DEF ResolvedMeansGone
        <4>2. conn'[d] = conn[d]
          BY <1>2, <4>1
        <4> QED BY <4>1, <4>2
      <3> QED BY <3>1
    <2> QED BY <2>1, <2>2 DEF ResolvedMeansGone, MovesTo, procs
  <1>6. LedgerBudget'
    BY <1>1 DEF LedgerBudget, MovesTo, With, Candidates, Present
  <1>7. \A h \in Grants : Serving(h)' /\ (holder'[h].issued => holder'[h].pid # Nobody)
    BY <1>1, Deliveries DEF Serving, MovesTo, GateMoves, Destroying
  <1>8. ASSUME NEW g \in Generations
        PROVE  /\ g > nextEpoch' => Untouched(g)'
               /\ Sealable(g)'
               /\ ledger'[g] # {} => "present" \in ledger'[g]
    <2>1. /\ gate[g].state = "BUILDING" => gate'[g].state = "BUILDING"
          /\ gate'[g].state = "SEALED" => gate[g].state = "SEALED"
      BY DEF GateMoves
    <2> QED BY <1>1, <2>1 DEF Untouched, Sealable, AllResolved, MovesTo
  <1>9. Destroying' => manager'.gen \in Generations /\ ledger'[manager'.gen] # {}
    BY <1>1 DEF Destroying, MovesTo
  <1> QED BY <1>3, <1>4, <1>5, <1>6, <1>7, <1>8, <1>9 DEF IInv

\* Neither the count of any object nor who is enrolled has changed.
LEMMA CountUntouched ==
  ASSUME TypeOK, CountExact, NEW c \in Conns, NEW l, NEW s, MovesTo(c, l, s), GateMoves,
         "enrolled" \in s <=> "enrolled" \in conn[c].has,
         \A g \in Generations : gate'[g].count = gate[g].count
  PROVE  CountExact'
  <1>1. \A d \in Conns : "enrolled" \in conn'[d].has <=> "enrolled" \in conn[d].has
    BY HandleTypes DEF MovesTo
  <1>2. \A g \in Generations : Enrolled(g)' = Enrolled(g)
    BY <1>1 DEF Enrolled, OfGen
  <1>3. \A g \in Generations : gate'[g].state # "SEALED" => gate[g].state # "SEALED"
    BY DEF GateMoves
  <1>4. \A g \in Generations : Cardinality(Enrolled(g)) - Cardinality(Enrolled(g)) = 0
                               /\ gate[g].count \in Nat /\ gate[g].count - gate[g].count = 0
    <2>1. \A g \in Generations : Cardinality(Enrolled(g)) \in Nat
      BY Finite, FS_Subset, FS_CardinalityType DEF Enrolled
    <2> QED BY <2>1, HandleTypes
  <1> QED BY <1>2, <1>3, <1>4, CountKept

\* One handle of g is enrolled, or is no longer.
LEMMA CountMoved ==
  ASSUME TypeOK, CountExact, NEW c \in Conns, NEW l, NEW s, MovesTo(c, l, s), GateMoves,
         LET has == conn[c].has
         IN  \/ /\ "enrolled" \in s /\ "enrolled" \notin has
                /\ gate' = [gate EXCEPT ![Gen(c)].count = @ + 1]
             \/ /\ "enrolled" \notin s /\ "enrolled" \in has
                /\ gate' = [gate EXCEPT ![Gen(c)].count = @ - 1]
  PROVE  CountExact'
  <1> DEFINE k == Gen(c)
  <1>1. /\ \A d \in Conns \ {c} : conn'[d] = conn[d]
        /\ conn'[c].has = s /\ k \in Generations /\ c \in OfGen(k)
        /\ \A g \in Generations \ {k} : c \notin OfGen(g)
    BY HandleTypes, Deliveries DEF MovesTo, OfGen
  <1>2. \A g \in Generations :
          /\ IsFiniteSet(Enrolled(g)) /\ Cardinality(Enrolled(g)) \in Nat
          /\ gate'[g].count \in Nat /\ gate[g].count \in Nat
    <2>1. \A g \in Generations : Enrolled(g) \in SUBSET OfGen(g)
      BY DEF Enrolled
    <2>2. \A g \in Generations : gate'[g].count \in Nat
      BY Finite DEF GateMoves
    <2> QED BY <2>1, <2>2, HandleTypes, Finite, FS_Subset, FS_CardinalityType
  <1>3. ASSUME NEW g \in Generations \ {k}
        PROVE  Enrolled(g)' = Enrolled(g) /\ gate'[g] = gate[g]
    <2>1. \A d \in OfGen(g) : conn'[d] = conn[d]
      BY <1>1 DEF OfGen
    <2> QED BY <2>1 DEF Enrolled, OfGen, TypeOK
  <1>4. gate'[k].count - gate[k].count = Cardinality(Enrolled(k)') - Cardinality(Enrolled(k))
    <2>1. CASE "enrolled" \in s /\ "enrolled" \notin conn[c].has
      <3>1. Enrolled(k)' = Enrolled(k) \cup {c} /\ c \notin Enrolled(k)
        BY <1>1, <2>1 DEF Enrolled, OfGen
      <3>2. Cardinality(Enrolled(k)') = Cardinality(Enrolled(k)) + 1
        BY <1>1, <1>2, <3>1, FS_AddElement
      <3>3. gate'[k].count = gate[k].count + 1
        BY <1>1, <2>1 DEF TypeOK
      <3> QED BY <1>1, <1>2, <3>2, <3>3
    <2>2. CASE "enrolled" \notin s /\ "enrolled" \in conn[c].has
      <3>1. Enrolled(k)' = Enrolled(k) \ {c} /\ c \in Enrolled(k)
        BY <1>1, <2>2 DEF Enrolled, OfGen
      <3>2. Cardinality(Enrolled(k)') = Cardinality(Enrolled(k)) - 1
        BY <1>1, <1>2, <3>1, FS_RemoveElement
      <3>3. gate'[k].count = gate[k].count - 1
        BY <1>1, <2>2 DEF TypeOK
      <3> QED BY <1>1, <1>2, <3>2, <3>3
    <2> QED BY <2>1, <2>2
  <1>5. \A g \in Generations : gate'[g].state # "SEALED" => gate[g].state # "SEALED"
    BY DEF GateMoves
  <1>6. \A g \in Generations : gate'[g].count - gate[g].count =
                               Cardinality(Enrolled(g)') - Cardinality(Enrolled(g))
    BY <1>2, <1>3, <1>4
  <1> QED BY <1>2, <1>5, <1>6, CountKept

\* Every step of a process keeps the invariant.
LEMMA HandleNext ==
  ASSUME IInv, NEW c \in Conns, RetireFailure(c) \/ LeaveStep(c)
  PROVE  IInv'
  <1> DEFINE h == GrantOf(c)
             k == Gen(c)
             pc == conn[c].pc
             has == conn[c].has
  <1>1. /\ TypeOK /\ CountExact /\ HandleCoherent(c) /\ h \in Grants /\ k \in Generations
        /\ conn \in [Conns -> [pc : Labels, has : SUBSET Marks]] /\ has \subseteq Marks
        /\ attachment \in [Grants -> Attachments] /\ pc \in Labels
        /\ \A g \in Generations : gate[g].count \in 0 .. Cardinality(Endpoints)
        /\ Cardinality(Endpoints) \in Nat
        /\ gate \in [Generations -> [state : {States[i] : i \in 1 .. 5},
                                     count : 0 .. Cardinality(Endpoints)]]
        /\ failed \subseteq Generations
    BY HandleTypes, Deliveries, Finite DEF IInv, TypeOK
  <1>2. /\ {"none", "claim", "enroll", "reject", "join", "cleanup", "handle", "retire",
            "decrement", "release", "receipt"} = Labels
        /\ {"NEW", "JOINING", "ACTIVE", "QUIESCENT", "REJECTED"} = Attachments
        /\ {"mapping", "claim", "enrolled", "uncertain"} = Marks
    BY DEF Labels, Attachments, Marks
  <1>3. UNCHANGED gate => GateMoves
    BY <1>1 DEF GateMoves
  <1>4. gate' = [gate EXCEPT ![k] = Retired(@)] =>
          GateMoves /\ \A g \in Generations : gate'[g].count = gate[g].count
    <2>1. "RETIRE_REQUESTED" = States[3]
      BY DEF States
    <2>2. /\ Retired(gate[k]) \in [state : {States[i] : i \in 1 .. 5},
                                   count : 0 .. Cardinality(Endpoints)]
          /\ Retired(gate[k]).count = gate[k].count
          /\ \/ Retired(gate[k]).state = gate[k].state
             \/ gate[k].state = "READY" /\ Retired(gate[k]).state = "RETIRE_REQUESTED"
      <3>1. CASE gate[k].state = "READY"
        <4>1. Retired(gate[k]) = [gate[k] EXCEPT !.state = "RETIRE_REQUESTED"]
          BY <3>1 DEF Retired
        <4> QED BY <1>1, <2>1, <3>1, <4>1
      <3>2. CASE gate[k].state # "READY"
        BY <1>1, <3>2 DEF Retired
      <3> QED BY <3>1, <3>2
    <2> QED BY <1>1, <2>2 DEF GateMoves
  <1>5. \A n \in 0 .. Cardinality(Endpoints) : gate' = [gate EXCEPT ![k].count = n] => GateMoves
    BY <1>1 DEF GateMoves
  <1> DEFINE Keeps(l, s) == MovesTo(c, l, s) /\ UNCHANGED <<gate, failed>>
  \* A step that leaves the gate alone, and the marks but for the mapping.
  <1>6. ASSUME NEW l \in Labels \ {"none"}, NEW s \in SUBSET Marks, Keeps(l, s),
               "enrolled" \in s <=> "enrolled" \in has
        PROVE  /\ GateMoves /\ CountExact' /\ failed' \subseteq Generations
    BY <1>1, <1>3, <1>6, CountUntouched
  <1>7. \A l, s : Move(c, l, s) /\ UNCHANGED <<authority, holder, procs>> => MovesTo(c, l, s)
    BY DEF Move, MovesTo, authority
  <1>8. pc # "none" => holder[h].issued
    BY <1>1 DEF HandleCoherent
  \* The simple steps: nothing is claimed, the record keeps its value or leaves NEW.
  <1>9. ASSUME NEW l \in {"cleanup", "handle", "join", "reject", "decrement", "release",
                          "receipt", "retire"},
               NEW s \in SUBSET Marks, MovesTo(c, l, s), GateMoves, CountExact',
               failed' \subseteq Generations, pc \notin {"none", "receipt"},
               l = "decrement" => "enrolled" \in s /\ "uncertain" \notin s,
               l = "release" => s \subseteq {"mapping", "claim"},
               l = "receipt" => s \subseteq {"claim"},
               "claim" \in s => "claim" \in has,
               \/ UNCHANGED attachment
               \/ \E a \in {"ACTIVE", "QUIESCENT", "REJECTED"} :
                    attachment' = [attachment EXCEPT ![h] = a]
        PROVE  IInv'
    <2>1. l \in Labels \ {"none"} /\ l \notin {"claim", "enroll"}
      BY <1>2
    <2>2. attachment' \in [Grants -> Attachments]
      BY <1>1, <1>2, <1>9
    <2>3. \A x \in Grants : attachment[x] # "NEW" => attachment'[x] # "NEW"
      BY <1>1, <1>9
    <2>4. "claim" \in s => attachment'[h] # "NEW"
      BY <1>1, <1>9, <2>3 DEF HandleCoherent
    <2> QED BY <1>8, <1>9, <2>1, <2>2, <2>3, <2>4, HandleStep
  \* What may come out of munmap and close.
  <1>10. ASSUME NEW done \in {"handle", "receipt"}, Release(c, done),
                UNCHANGED <<authority, gate, failed, holder, attachment, procs>>,
                pc \notin {"none", "receipt"},
                done = "receipt" => has \subseteq {"mapping", "claim"}
         PROVE  IInv'
    <2>1. PICK l \in {"handle", "receipt"}, s \in {has \ {"mapping"}, has,
                                                   (has \ {"mapping"}) \cup {"uncertain"}} :
            /\ Move(c, l, s)
            /\ l = "receipt" => done = "receipt" /\ s = has \ {"mapping"}
      BY <1>10 DEF Release, Has
    <2>2. s \in SUBSET Marks /\ ("enrolled" \in s <=> "enrolled" \in has)
          /\ ("claim" \in s => "claim" \in has)
      BY <1>1, <1>2
    <2>3. Keeps(l, s) /\ l \in Labels \ {"none"} /\ l \in {"cleanup", "handle", "join", "reject",
                         "decrement", "release", "receipt", "retire"}
      BY <1>2, <1>7, <1>10, <2>1
    <2>4. GateMoves /\ CountExact' /\ failed' \subseteq Generations
      BY <1>6, <2>2, <2>3
    <2>5. l = "receipt" => s \subseteq {"claim"}
      BY <1>10, <2>1
    <2> QED BY <1>9, <1>10, <2>1, <2>2, <2>3, <2>4, <2>5
  \* A step to l that keeps the marks, the gate and the failures.
  <1>11. ASSUME NEW l \in {"cleanup", "handle", "reject", "decrement", "release"},
                Move(c, l, has), UNCHANGED <<authority, gate, failed, holder, procs>>,
                pc \notin {"none", "receipt"},
                l = "decrement" => "enrolled" \in has /\ "uncertain" \notin has,
                l = "release" => has \subseteq {"mapping", "claim"},
                \/ UNCHANGED attachment
                \/ \E a \in {"ACTIVE", "QUIESCENT", "REJECTED"} :
                     attachment' = [attachment EXCEPT ![h] = a]
         PROVE  IInv'
    <2>1. Keeps(l, has) /\ has \in SUBSET Marks /\ l \in Labels \ {"none"}
      BY <1>1, <1>2, <1>7, <1>11
    <2>2. GateMoves /\ CountExact' /\ failed' \subseteq Generations
      BY <1>6, <2>1
    <2>3. l \in {"cleanup", "handle", "join", "reject", "decrement", "release",
                 "receipt", "retire"} /\ l # "receipt"
      OBVIOUS
    <2> QED BY <1>9, <1>11, <2>1, <2>2, <2>3
  <1>20. CASE Open(c)
    <2>1. /\ pc = "none" /\ has = {} /\ holder[h].issued
          /\ UNCHANGED <<authority, gate, failed, holder, attachment, procs>>
      BY <1>1, <1>20 DEF Open, At, HandleCoherent
    <2>2. PICK l \in {"claim", "handle"}, s \in {{}, {"mapping"}} :
            Move(c, l, s) /\ (l = "claim" => s = {"mapping"})
      BY <1>20 DEF Open
    <2>3. /\ Keeps(l, s) /\ l \in Labels \ {"none"} /\ s \in SUBSET Marks
          /\ ("enrolled" \in s <=> "enrolled" \in has) /\ "claim" \notin s
      BY <1>2, <1>7, <2>1, <2>2
    <2>4. GateMoves /\ CountExact' /\ failed' \subseteq Generations
      BY <1>6, <2>3
    <2> QED BY <1>1, <2>1, <2>2, <2>3, <2>4, HandleStep
  <1>21. CASE Claim(c)
    <2>1. /\ pc = "claim" /\ has = {"mapping"} /\ holder[h].issued
          /\ UNCHANGED <<authority, gate, failed, holder, procs>>
      BY <1>1, <1>21 DEF Claim, At, HandleCoherent
    <2>2. CASE attachment[h] = "NEW"
      <3>1. /\ attachment' = [attachment EXCEPT ![h] = "JOINING"]
            /\ Move(c, "enroll", {"mapping", "claim"})
        BY <1>21, <2>1, <2>2 DEF Claim, Has
      <3>2. /\ Keeps("enroll", {"mapping", "claim"}) /\ "enroll" \in Labels \ {"none"}
            /\ {"mapping", "claim"} \in SUBSET Marks
        BY <1>2, <1>7, <2>1, <3>1
      <3>3. GateMoves /\ CountExact' /\ failed' \subseteq Generations
        BY <1>6, <2>1, <3>2
      <3>4. /\ attachment' \in [Grants -> Attachments] /\ attachment'[h] = "JOINING"
            /\ \A x \in Grants : attachment[x] # "NEW" => attachment'[x] # "NEW"
        BY <1>1, <1>2, <3>1
      <3> QED BY <2>1, <2>2, <3>2, <3>3, <3>4, HandleStep
    <2>3. CASE attachment[h] # "NEW"
      BY <1>11, <1>21, <2>1, <2>3 DEF Claim, Has
    <2> QED BY <2>2, <2>3
  <1>22. CASE Enroll(c)
    <2>1. /\ pc = "enroll" /\ "enrolled" \notin has
          /\ UNCHANGED <<authority, failed, holder, attachment, procs>>
      BY <1>1, <1>22 DEF Enroll, At, HandleCoherent
    <2>2. CASE gate[k].state = "READY" /\ gate[k].count < Cardinality(Endpoints)
      <3> DEFINE s == has \cup {"enrolled"}
      <3>1. /\ gate' = [gate EXCEPT ![k].count = @ + 1]
            /\ Move(c, "join", s)
        BY <1>22, <2>2 DEF Enroll, Has
      <3>2. gate[k].count + 1 \in 0 .. Cardinality(Endpoints)
        BY <1>1, <2>2
      <3>3. GateMoves
        BY <1>1, <1>5, <3>1, <3>2
      <3>4. MovesTo(c, "join", s)
        BY <1>7, <2>1, <3>1
      <3>5. CountExact'
        BY <1>1, <2>1, <3>1, <3>3, <3>4, CountMoved
      <3>6. s \in SUBSET Marks /\ ("claim" \in s => "claim" \in has) /\ failed' \subseteq Generations
        BY <1>1, <1>2, <2>1
      <3> QED BY <1>9, <2>1, <3>3, <3>4, <3>5, <3>6
    <2>3. CASE ~(gate[k].state = "READY" /\ gate[k].count < Cardinality(Endpoints))
      BY <1>11, <1>22, <2>1, <2>3 DEF Enroll, Has
    <2> QED BY <2>2, <2>3
  <1>23. CASE Reject(c)
    BY <1>11, <1>23 DEF Reject, At, Has
  <1>24. CASE Join(c)
    BY <1>11, <1>24 DEF Join, At, Has
  <1>25. CASE AttachCleanup(c)
    BY <1>10, <1>25 DEF AttachCleanup, At
  <1>26. CASE RetireFailure(c)
    <2>1. /\ pc = "handle" /\ Move(c, "retire", has)
          /\ failed' \in {failed, failed \cup {k}}
          /\ UNCHANGED <<authority, gate, holder, attachment, procs>>
      BY <1>26 DEF RetireFailure, At, Has
    <2>2. MovesTo(c, "retire", has) /\ GateMoves /\ failed' \subseteq Generations
      BY <1>1, <1>3, <1>7, <2>1
    <2>3. CountExact'
      BY <1>1, <2>1, <2>2, CountUntouched
    <2> QED BY <1>1, <1>9, <2>1, <2>2, <2>3
  <1>27. CASE RetireGate(c)
    <2>1. /\ pc = "retire" /\ Move(c, "handle", has)
          /\ gate' = [gate EXCEPT ![k] = Retired(@)]
          /\ UNCHANGED <<authority, failed, holder, attachment, procs>>
      BY <1>27 DEF RetireGate, At, Has
    <2>2. /\ MovesTo(c, "handle", has) /\ GateMoves /\ failed' \subseteq Generations
          /\ \A g \in Generations : gate'[g].count = gate[g].count
      BY <1>1, <1>4, <1>7, <2>1
    <2>3. CountExact'
      BY <1>1, <2>2, CountUntouched
    <2> QED BY <1>1, <1>9, <2>1, <2>2, <2>3
  <1>28. CASE Detach(c)
    <2>1. /\ pc = "handle" /\ "uncertain" \notin has
          /\ UNCHANGED <<authority, gate, failed, holder, procs>>
          /\ IF "enrolled" \in has
             THEN /\ attachment' = [attachment EXCEPT ![h] = "QUIESCENT"]
                  /\ Move(c, "decrement", has)
             ELSE Move(c, "release", has) /\ UNCHANGED attachment
      BY <1>28 DEF Detach, At, Has
    <2>2. "enrolled" \notin has => has \subseteq {"mapping", "claim"}
      BY <1>1, <1>2, <2>1
    <2> QED BY <1>11, <2>1, <2>2
  <1>29. CASE Decrement(c)
    <2>1. /\ pc = "decrement" /\ "enrolled" \in has /\ "uncertain" \notin has
          /\ UNCHANGED <<authority, failed, holder, attachment, procs>>
      BY <1>1, <1>29 DEF Decrement, At, HandleCoherent
    <2>2. CASE gate[k].count = 0
      BY <1>11, <1>29, <2>1, <2>2 DEF Decrement, Has
    <2>3. CASE gate[k].count # 0
      <3> DEFINE s == has \ {"enrolled"}
      <3>1. /\ gate' = [gate EXCEPT ![k].count = @ - 1]
            /\ Move(c, "release", s)
        BY <1>29, <2>3 DEF Decrement, Has
      <3>2. gate[k].count - 1 \in 0 .. Cardinality(Endpoints)
        <4>1. gate[k].count \in 0 .. Cardinality(Endpoints) /\ Cardinality(Endpoints) \in Nat
          BY <1>1
        <4> HIDE DEF k
        <4> QED BY <2>3, <4>1
      <3>3. GateMoves
        BY <1>1, <1>5, <3>1, <3>2
      <3>4. MovesTo(c, "release", s)
        BY <1>7, <2>1, <3>1
      <3>5. CountExact'
        BY <1>1, <2>1, <3>1, <3>3, <3>4, CountMoved
      <3>6. /\ s \in SUBSET Marks /\ s \subseteq {"mapping", "claim"}
            /\ ("claim" \in s => "claim" \in has) /\ failed' \subseteq Generations
        BY <1>1, <1>2, <2>1
      <3> QED BY <1>9, <2>1, <3>3, <3>4, <3>5, <3>6
    <2> QED BY <2>2, <2>3
  <1>30. CASE DetachRelease(c)
    <2>1. pc = "release" /\ has \subseteq {"mapping", "claim"}
      BY <1>1, <1>30 DEF DetachRelease, At, HandleCoherent
    <2> QED BY <1>10, <1>30, <2>1 DEF DetachRelease
  <1> QED BY <1>20, <1>21, <1>22, <1>23, <1>24, <1>25, <1>26, <1>27, <1>28, <1>29, <1>30 DEF LeaveStep
-----------------------------------------------------------------------------
(***************************************************************************)
(* The steps of the authority.                                             *)
(***************************************************************************)

\* The parts of the invariant.
LEMMA Parts ==
  ASSUME IInv
  PROVE  /\ TypeOK /\ CountExact /\ ResolvedMeansGone /\ LedgerBudget
         /\ \A c \in Conns : HandleCoherent(c)
         /\ \A h \in Grants : Serving(h) /\ (holder[h].issued => holder[h].pid # Nobody)
         /\ \A g \in Generations :
              /\ g > nextEpoch => Untouched(g)
              /\ Sealable(g)
              /\ ledger[g] # {} => "present" \in ledger[g] /\ g <= nextEpoch
         /\ Destroying => manager.gen \in Generations /\ ledger[manager.gen] # {}
  <1>1. nextEpoch \in Nat /\ Generations \subseteq Nat
    BY LifecycleAssumption DEF IInv, TypeOK, Generations
  <1>2. \A g \in Generations : ledger[g] # {} => g <= nextEpoch
    BY <1>1 DEF IInv, Untouched
  <1> QED BY <1>2 DEF IInv

\* The handles, and the counts of objects that are not sealed, stay as they were.
LEMMA HandlesKept ==
  ASSUME IInv, TypeOK', UNCHANGED <<conn, attachment>>,
         \A h \in Grants : holder[h].issued => holder'[h].issued,
         \A g \in Generations : gate'[g].state # "SEALED" =>
           gate[g].state # "SEALED" /\ gate'[g].count = gate[g].count
  PROVE  CountExact' /\ \A c \in Conns : HandleCoherent(c)'
  <1>1. CountExact'
    <2>1. \A g \in Generations : OfGen(g)' = OfGen(g)
      BY DEF OfGen
    <2> QED BY <2>1, Parts DEF CountExact
  <1>2. ASSUME NEW c \in Conns PROVE HandleCoherent(c)'
    BY <1>2, Parts, Deliveries DEF HandleCoherent
  <1> QED BY <1>1, <1>2

\* No object enters the ledger, its service or its quarantine.
LEMMA BudgetKept ==
  ASSUME LedgerBudget,
         \A g \in Generations : ledger'[g] # {} =>
           /\ ledger[g] # {}
           /\ ledger'[g] \cap {"active", "quarantined"} = ledger[g] \cap {"active", "quarantined"}
  PROVE  LedgerBudget'
  <1>1. /\ With("active")' \subseteq With("active")
        /\ With("quarantined")' \subseteq With("quarantined")
        /\ Candidates' \subseteq Candidates
    BY DEF With, Candidates, Present
  <1>2. With("quarantined") \in SUBSET Generations /\ With("quarantined")' \in SUBSET Generations
    BY DEF With, Present
  <1>3. /\ Cardinality(With("quarantined")') \in Nat /\ Cardinality(With("quarantined")) \in Nat
        /\ Cardinality(With("quarantined")') <= Cardinality(With("quarantined"))
    BY <1>1, <1>2, Finite, FS_Subset, FS_CardinalityType
  <1>4. MaxQuarantined \in Nat
    BY LifecycleAssumption
  <1> QED BY <1>1, <1>3, <1>4, Budget

\* A step that touches the ledger and the gate of object k only, and no holder.
LEMMA LedgerStep ==
  ASSUME IInv, TypeOK', LedgerBudget', NEW k \in Generations,
         UNCHANGED <<conn, attachment, holder, dead>>,
         nextEpoch' \in Nat, nextEpoch <= nextEpoch', k <= nextEpoch',
         \A g \in Generations \ {k} : ledger'[g] = ledger[g] /\ gate'[g] = gate[g],
         gate'[k].state # "SEALED" => gate[k].state # "SEALED" /\ gate'[k].count = gate[k].count,
         ledger'[k] # {} => "present" \in ledger'[k],
         Destroying' => manager'.gen = k /\ ledger'[k] # {},
         Sealable(k)', \A i \in Endpoints : Serving(<<k, i>>)'
  PROVE  IInv'
  <1>1. CountExact' /\ \A c \in Conns : HandleCoherent(c)'
    BY HandlesKept, Parts
  <1>2. ResolvedMeansGone'
    BY Parts DEF ResolvedMeansGone
  <1>3. nextEpoch \in Nat /\ Generations \subseteq Nat
    BY Parts, LifecycleAssumption DEF TypeOK, Generations
  <1>4. ASSUME NEW g \in Generations
        PROVE  /\ g > nextEpoch' => Untouched(g)'
               /\ Sealable(g)'
               /\ ledger'[g] # {} => "present" \in ledger'[g]
    <2>1. CASE g = k
      BY <1>3, <2>1
    <2>2. CASE g # k
      <3>1. /\ g > nextEpoch' => Untouched(g)
            /\ Sealable(g) /\ (ledger[g] # {} => "present" \in ledger[g])
            /\ ledger'[g] = ledger[g] /\ gate'[g] = gate[g]
        BY <1>3, <2>2, Parts
      <3>2. ~(manager'.pc = "seal" /\ manager'.gen = g)
        BY <2>2 DEF Destroying
      <3> QED BY <3>1, <3>2 DEF Untouched, Sealable, AllResolved
    <2> QED BY <2>1, <2>2
  <1>5. ASSUME NEW h \in Grants
        PROVE  Serving(h)' /\ (holder'[h].issued => holder'[h].pid # Nobody)
    <2>1. CASE h[1] = k
      BY <2>1, Parts, Deliveries
    <2>2. CASE h[1] # k
      BY <2>2, Parts, Deliveries DEF Serving
    <2> QED BY <2>1, <2>2
  <1>6. Destroying' => manager'.gen \in Generations /\ ledger'[manager'.gen] # {}
    OBVIOUS
  <1> QED BY <1>1, <1>2, <1>4, <1>5, <1>6 DEF IInv

Words == [state : {States[i] : i \in 1 .. 5}, count : 0 .. Cardinality(Endpoints)]

\* What the authority writes to a gate word.
LEMMA WordSteps ==
  ASSUME NEW w \in Words
  PROVE  /\ Retired(w) \in Words /\ Retired(w).count = w.count /\ Retired(w).state # "READY"
         /\ Retired(w).state = "SEALED" <=> w.state = "SEALED"
         /\ \A st \in {"READY", "QUARANTINED"} :
              /\ [w EXCEPT !.state = st] \in Words
              /\ [w EXCEPT !.state = st].state = st /\ [w EXCEPT !.state = st].count = w.count
         /\ [state |-> "SEALED", count |-> 0] \in Words
  <1>1. {"READY", "RETIRE_REQUESTED", "QUARANTINED", "SEALED"} \subseteq {States[i] : i \in 1 .. 5}
    <2>1. /\ States[2] = "READY" /\ States[3] = "RETIRE_REQUESTED"
          /\ States[4] = "QUARANTINED" /\ States[5] = "SEALED"
      BY DEF States
    <2> QED BY <2>1
  <1>2. 0 \in 0 .. Cardinality(Endpoints)
    BY Finite
  <1>3. CASE w.state = "READY"
    <2>1. Retired(w) = [w EXCEPT !.state = "RETIRE_REQUESTED"]
      BY <1>3 DEF Retired
    <2> QED BY <1>1, <1>2, <1>3, <2>1 DEF Words
  <1>4. CASE w.state # "READY"
    <2>1. Retired(w) = w
      BY <1>4 DEF Retired
    <2> QED BY <1>1, <1>2, <1>4, <2>1 DEF Words
  <1> QED BY <1>3, <1>4

\* The types of what such a step changes.
LEMMA LedgerTypes ==
  /\ TypeOK => /\ ledger \in [Generations -> SUBSET LedgerFlags] /\ gate \in [Generations -> Words]
               /\ failed \subseteq Generations /\ nextEpoch \in 0 .. MaxEpoch
               /\ nextEpoch \in Nat /\ MaxEpoch \in Nat /\ Generations \subseteq Nat
  /\ /\ TypeOK /\ UNCHANGED <<holder, attachment, conn, procs>>
     /\ nextEpoch' \in 0 .. MaxEpoch /\ ledger' \in [Generations -> SUBSET LedgerFlags]
     /\ manager' \in [pc : {"idle", "seal", "unlink", "unmap", "destroyed"}, gen : 0 .. MaxEpoch]
     /\ gate' \in [Generations -> Words] /\ failed' \subseteq Generations
     => TypeOK'
  BY LifecycleAssumption DEF TypeOK, Words, procs, Generations

\* Creation and service.
LEMMA CreateStep ==
  ASSUME IInv, Create
  PROVE  IInv'
  <1>0. /\ nextEpoch \in Nat /\ MaxEpoch \in Nat /\ nextEpoch < MaxEpoch
        /\ nextEpoch + 1 \in Generations
    BY Parts, LedgerTypes DEF Create, Generations
  <1> PICK k \in Generations : k = nextEpoch + 1
    BY <1>0
  <1>1. /\ nextEpoch \in Nat /\ MaxEpoch \in Nat /\ nextEpoch < MaxEpoch
        /\ k = nextEpoch + 1 /\ nextEpoch' = k /\ Idle /\ Candidates = {}
        /\ UNCHANGED <<manager, failed, holder, attachment, conn, procs>>
    BY <1>0 DEF Create
  <1>2. k \in Generations /\ Untouched(k) /\ k \in 0 .. MaxEpoch
    <2>1. k \in Generations /\ k > nextEpoch /\ k \in 0 .. MaxEpoch
      BY <1>1 DEF Generations
    <2> QED BY <2>1, Parts
  <1>3. PICK flags \in {{}, {"present", "created"}, {"present", "created", "mapped"},
                        {"present", "created", "mapped", "constructed"}} :
          ledger' = [ledger EXCEPT ![k] = flags]
    <2>1. nextEpoch' = k /\ \E flags \in {{}, {"present", "created"},
                          {"present", "created", "mapped"},
                          {"present", "created", "mapped", "constructed"}} :
            ledger' = [ledger EXCEPT ![nextEpoch'] = flags]
      BY <1>1 DEF Create
    <2> QED BY <2>1
  <1>4. gate' = [gate EXCEPT ![k].state = "READY"] \/ UNCHANGED gate
    <2>1. nextEpoch' = k /\ (gate' = [gate EXCEPT ![nextEpoch'].state = "READY"] \/ UNCHANGED gate)
      BY <1>1 DEF Create
    <2> QED BY <2>1
  <1>5. ledger \in [Generations -> SUBSET LedgerFlags] /\ gate \in [Generations -> Words]
    BY Parts, LedgerTypes
  <1>6. /\ ledger' \in [Generations -> SUBSET LedgerFlags] /\ ledger'[k] = flags
        /\ \A g \in Generations \ {k} : ledger'[g] = ledger[g]
    <2>1. flags \in SUBSET LedgerFlags
      BY DEF LedgerFlags
    <2> QED BY <1>2, <1>3, <1>5, <2>1
  <1>7. /\ gate' \in [Generations -> Words] /\ gate'[k].count = gate[k].count
        /\ gate'[k].state \in {"READY", "BUILDING"}
        /\ \A g \in Generations \ {k} : gate'[g] = gate[g]
    <2>1. CASE UNCHANGED gate
      BY <1>2, <1>5, <2>1 DEF Untouched
    <2>2. CASE gate' = [gate EXCEPT ![k].state = "READY"]
      <3>1. /\ gate[k] \in Words
            /\ [gate[k] EXCEPT !.state = "READY"] \in Words
            /\ [gate[k] EXCEPT !.state = "READY"].state = "READY"
            /\ [gate[k] EXCEPT !.state = "READY"].count = gate[k].count
        BY <1>2, <1>5, WordSteps
      <3>2. gate' = [gate EXCEPT ![k] = [gate[k] EXCEPT !.state = "READY"]]
        BY <2>2
      <3> QED BY <1>2, <1>5, <3>1, <3>2
    <2> QED BY <1>4, <2>1, <2>2
  <1>8. TypeOK'
    BY <1>1, <1>2, <1>6, <1>7, Parts, LedgerTypes DEF TypeOK
  <1>9. LedgerBudget'
    <2>1. "active" \notin flags /\ "quarantined" \notin flags
      OBVIOUS
    <2>2. With("active")' \subseteq With("active") /\ With("quarantined")' = With("quarantined")
      BY <1>2, <1>6, <2>1 DEF With, Present, Untouched
    <2>3. Candidates' \subseteq {k}
      BY <1>1, <1>6, <2>1 DEF Candidates, With, Present
    <2> QED BY <2>2, <2>3, Parts, Budget
  <1>10. ~Destroying' /\ Sealable(k)' /\ \A i \in Endpoints : Serving(<<k, i>>)'
    <2>1. ~Destroying' /\ manager'.pc # "seal"
      BY <1>1 DEF Idle, Destroying
    <2>2. Sealable(k)'
      BY <1>7, <2>1 DEF Sealable
    <2>3. \A i \in Endpoints : ~holder'[<<k, i>>].issued
      BY <1>1, <1>2 DEF Untouched
    <2> QED BY <2>1, <2>2, <2>3 DEF Serving
  <1>11. ledger'[k] # {} => "present" \in ledger'[k]
    BY <1>6
  <1>12. k \in Nat /\ nextEpoch <= k /\ gate[k].state = "BUILDING" /\ UNCHANGED dead
    BY <1>1, <1>2 DEF Untouched, procs
  <1>13. /\ \A g \in Generations \ {k} : ledger'[g] = ledger[g] /\ gate'[g] = gate[g]
         /\ gate[k].state # "SEALED" /\ gate'[k].count = gate[k].count
         /\ UNCHANGED <<conn, attachment, holder, dead>>
         /\ nextEpoch' \in Nat /\ nextEpoch <= nextEpoch' /\ k <= nextEpoch'
    <2>1. \A g \in Generations \ {k} : ledger'[g] = ledger[g] /\ gate'[g] = gate[g]
      BY <1>6, <1>7
    <2>2. gate[k].state # "SEALED" /\ gate'[k].count = gate[k].count
      BY <1>7, <1>12
    <2>3. UNCHANGED <<conn, attachment, holder, dead>>
      BY <1>1, <1>12
    <2>4. nextEpoch' \in Nat /\ nextEpoch <= nextEpoch' /\ k <= nextEpoch'
      BY <1>1, <1>12
    <2> QED BY <2>1, <2>2, <2>3, <2>4
  <1> QED BY <1>2, <1>8, <1>9, <1>10, <1>11, <1>13, LedgerStep

\* A step on an object that is in the ledger, given the parts that depend on it.
LEMMA ObjectStep ==
  ASSUME IInv, NEW k \in Generations, ledger[k] # {}, LedgerBudget',
         NEW flags \in SUBSET LedgerFlags, ledger' = [ledger EXCEPT ![k] = flags],
         "present" \in flags \/ flags = {},
         NEW w \in Words, gate' = [gate EXCEPT ![k] = w],
         w.state # "SEALED" => gate[k].state # "SEALED" /\ w.count = gate[k].count,
         manager' \in [pc : {"idle", "seal", "unlink", "unmap", "destroyed"}, gen : 0 .. MaxEpoch],
         failed' \subseteq Generations,
         UNCHANGED <<nextEpoch, holder, attachment, conn, procs>>,
         Destroying' => manager'.gen = k /\ flags # {},
         w.state = "SEALED" \/ manager'.pc = "seal" => AllResolved(k),
         \A i \in Endpoints : holder[<<k, i>>].issued /\ w.state = "READY" =>
           {"active", "constructed"} \subseteq flags /\ ~Destroying'
  PROVE  IInv'
  <1>1. ledger \in [Generations -> SUBSET LedgerFlags] /\ gate \in [Generations -> Words]
        /\ nextEpoch \in Nat /\ nextEpoch \in 0 .. MaxEpoch /\ k <= nextEpoch
    BY Parts, LedgerTypes
  <1>2. /\ ledger' \in [Generations -> SUBSET LedgerFlags] /\ ledger'[k] = flags
        /\ gate' \in [Generations -> Words] /\ gate'[k] = w
        /\ \A g \in Generations \ {k} : ledger'[g] = ledger[g] /\ gate'[g] = gate[g]
    BY <1>1
  <1>3. TypeOK'
    BY <1>1, <1>2, Parts, LedgerTypes
  <1>4. Sealable(k)' /\ \A i \in Endpoints : Serving(<<k, i>>)'
    BY <1>2 DEF Sealable, AllResolved, Serving
  <1>5. nextEpoch' \in Nat /\ nextEpoch <= nextEpoch' /\ k <= nextEpoch' /\ UNCHANGED dead
    BY <1>1 DEF procs
  <1> QED BY <1>2, <1>3, <1>4, <1>5, LedgerStep

\* A step that closes an object to grants, and its gate with it, keeps the
\* invariant, and may begin the destruction when every holder is resolved.
LEMMA RetireStep ==
  ASSUME IInv, manager.pc = "idle", NEW k \in Generations, ledger[k] # {},
         ledger' = [ledger EXCEPT ![k] = ledger[k] \cup {"noMoreGrants"}],
         gate' = [gate EXCEPT ![k] = Retired(gate[k])],
         failed' \subseteq Generations,
         \/ UNCHANGED manager
         \/ manager' = [pc |-> "seal", gen |-> k] /\ AllResolved(k),
         UNCHANGED <<nextEpoch, holder, attachment, conn, procs>>
  PROVE  IInv'
  <1>1. /\ ledger \in [Generations -> SUBSET LedgerFlags] /\ gate \in [Generations -> Words]
        /\ "present" \in ledger[k] /\ Sealable(k) /\ gate[k] \in Words
        /\ manager \in [pc : {"idle", "seal", "unlink", "unmap", "destroyed"}, gen : 0 .. MaxEpoch]
        /\ Generations = 1 .. MaxEpoch /\ MaxEpoch \in Nat
    BY Parts, LedgerTypes DEF TypeOK, Generations
  <1>2. PICK flags \in SUBSET LedgerFlags : flags = ledger[k] \cup {"noMoreGrants"}
    <2>1. "noMoreGrants" \in LedgerFlags
      BY DEF LedgerFlags
    <2> QED BY <1>1, <2>1
  <1>3. PICK w \in Words : w = Retired(gate[k])
    BY <1>1, WordSteps
  <1>4. /\ w.state # "READY" /\ w.count = gate[k].count
        /\ w.state = "SEALED" <=> gate[k].state = "SEALED"
    BY <1>1, <1>3, WordSteps
  <1>5. ledger' = [ledger EXCEPT ![k] = flags] /\ gate' = [gate EXCEPT ![k] = w]
    BY <1>2, <1>3
  <1>6. LedgerBudget'
    <2>1. \A g \in Generations : ledger'[g] = IF g = k THEN flags ELSE ledger[g]
      BY <1>1, <1>5
    <2>2. flags \cap {"active", "quarantined"} = ledger[k] \cap {"active", "quarantined"}
      BY <1>2
    <2> QED BY <2>1, <2>2, Parts, BudgetKept
  <1>7. /\ manager' \in [pc : {"idle", "seal", "unlink", "unmap", "destroyed"}, gen : 0 .. MaxEpoch]
        /\ Destroying' => manager'.gen = k
        /\ manager'.pc = "seal" => AllResolved(k)
    <2>1. k \in 0 .. MaxEpoch
      BY <1>1
    <2> QED BY <1>1, <2>1 DEF Destroying
  <1>8. w.state = "SEALED" \/ manager'.pc = "seal" => AllResolved(k)
    BY <1>1, <1>4, <1>7 DEF Sealable
  <1>9. "present" \in flags /\ flags # {}
    BY <1>1, <1>2
  <1> QED BY <1>4, <1>5, <1>6, <1>7, <1>8, <1>9, ObjectStep

\* Activation.
LEMMA ActivateStep ==
  ASSUME IInv, NEW k \in Generations, Activate(k)
  PROVE  IInv'
  <1>1. /\ ledger \in [Generations -> SUBSET LedgerFlags] /\ gate \in [Generations -> Words]
        /\ "present" \in ledger[k] /\ "constructed" \in ledger[k] /\ ledger[k] # {}
        /\ With("active") \subseteq {k} /\ gate[k].state = "READY" /\ manager.pc = "idle"
        /\ manager \in [pc : {"idle", "seal", "unlink", "unmap", "destroyed"}, gen : 0 .. MaxEpoch]
        /\ failed \subseteq Generations
    BY Parts, LedgerTypes DEF TypeOK, Activate, With, Present, Idle
  <1>2. PICK flags \in SUBSET LedgerFlags : flags = ledger[k] \cup {"active"}
    <2>1. "active" \in LedgerFlags
      BY DEF LedgerFlags
    <2> QED BY <1>1, <2>1
  <1>3. PICK w \in Words : w = gate[k]
    BY <1>1
  <1>4. /\ ledger' = [ledger EXCEPT ![k] = flags] /\ gate' = [gate EXCEPT ![k] = w]
        /\ UNCHANGED <<nextEpoch, manager, failed, holder, attachment, conn, procs>>
    BY <1>1, <1>2, <1>3 DEF Activate
  <1>5. LedgerBudget'
    <2>1. \A g \in Generations : ledger'[g] = IF g = k THEN flags ELSE ledger[g]
      BY <1>1, <1>4
    <2>2. With("active")' \subseteq {k}
      BY <1>1, <2>1 DEF With, Present
    <2>3. Candidates' \subseteq Candidates /\ With("quarantined")' = With("quarantined")
      BY <1>1, <1>2, <2>1 DEF Candidates, With, Present
    <2> QED BY <2>2, <2>3, Parts, Budget
  <1>6. ~Destroying' /\ manager'.pc # "seal" /\ w.state = "READY" /\ w.count = gate[k].count
    BY <1>1, <1>3, <1>4 DEF Destroying
  <1>7. /\ "present" \in flags /\ {"active", "constructed"} \subseteq flags
        /\ manager' \in [pc : {"idle", "seal", "unlink", "unmap", "destroyed"}, gen : 0 .. MaxEpoch]
        /\ failed' \subseteq Generations
    BY <1>1, <1>2, <1>4
  <1> QED BY <1>1, <1>3, <1>4, <1>5, <1>6, <1>7, ObjectStep

\* Quarantine.
LEMMA QuarantineStep ==
  ASSUME IInv, NEW k \in Generations, Quarantine(k)
  PROVE  IInv'
  <1>1. /\ ledger \in [Generations -> SUBSET LedgerFlags] /\ gate \in [Generations -> Words]
        /\ "present" \in ledger[k] /\ ledger[k] # {} /\ manager.pc = "idle"
        /\ manager \in [pc : {"idle", "seal", "unlink", "unmap", "destroyed"}, gen : 0 .. MaxEpoch]
        /\ failed' \subseteq Generations
        /\ UNCHANGED <<nextEpoch, manager, holder, attachment, conn, procs>>
    BY Parts, LedgerTypes DEF TypeOK, Quarantine, With, Present, Idle
  <1> DEFINE over == Cardinality(With("quarantined")) >= MaxQuarantined
             done == ~over /\ gate[k].state # "SEALED"
  <1>2. CASE ~done
    <2>1. /\ ledger' = [ledger EXCEPT ![k] = ledger[k] \cup {"noMoreGrants"}]
          /\ gate' = [gate EXCEPT ![k] = Retired(gate[k])]
      BY <1>2 DEF Quarantine
    <2> QED BY <1>1, <2>1, RetireStep
  <1>3. CASE done
    <2>1. PICK flags \in SUBSET LedgerFlags :
            flags = (ledger[k] \ {"active"}) \cup {"noMoreGrants", "quarantined"}
      <3>1. {"noMoreGrants", "quarantined"} \subseteq LedgerFlags
        BY DEF LedgerFlags
      <3> QED BY <1>1, <3>1
    <2>2. PICK w \in Words : w = [gate[k] EXCEPT !.state = "QUARANTINED"]
      BY <1>1, WordSteps
    <2>3. ledger' = [ledger EXCEPT ![k] = flags] /\ gate' = [gate EXCEPT ![k] = w]
      BY <1>3, <2>1, <2>2 DEF Quarantine
    <2>4. w.state = "QUARANTINED" /\ w.count = gate[k].count /\ gate[k].state # "SEALED"
      BY <1>1, <1>3, <2>2, WordSteps
    <2>5. LedgerBudget'
      <3>1. \A g \in Generations : ledger'[g] = IF g = k THEN flags ELSE ledger[g]
        BY <1>1, <2>3
      <3>2. With("active")' \subseteq With("active") /\ Candidates' \subseteq Candidates
        BY <1>1, <2>1, <3>1 DEF Candidates, With, Present
      <3>3. With("quarantined")' = With("quarantined") \cup {k}
        BY <1>1, <2>1, <3>1 DEF With, Present
      <3>4. IsFiniteSet(With("quarantined")) /\ Cardinality(With("quarantined")) \in Nat
        BY Finite, FS_CardinalityType DEF With, Present
      <3>5. /\ Cardinality(With("quarantined")') \in Nat
            /\ Cardinality(With("quarantined")') <= Cardinality(With("quarantined")) + 1
        BY <3>3, <3>4, OneMore
      <3>6. MaxQuarantined \in Nat
        BY LifecycleAssumption
      <3>7. Cardinality(With("quarantined")') <= MaxQuarantined
        BY <1>3, <3>4, <3>5, <3>6
      <3> QED BY <3>2, <3>7, Parts, Budget
    <2>6. ~Destroying' /\ manager'.pc # "seal" /\ "present" \in flags
      BY <1>1, <2>1 DEF Destroying
    <2> QED BY <1>1, <2>3, <2>4, <2>5, <2>6, ObjectStep
  <1> QED BY <1>2, <1>3

\* The beginning of a destruction.
LEMMA DestroyStart ==
  ASSUME IInv, NEW k \in Generations, Destroy(k)
  PROVE  IInv'
  <1>1. /\ ledger \in [Generations -> SUBSET LedgerFlags] /\ gate \in [Generations -> Words]
        /\ "present" \in ledger[k] /\ ledger[k] # {} /\ manager.pc = "idle"
        /\ manager \in [pc : {"idle", "seal", "unlink", "unmap", "destroyed"}, gen : 0 .. MaxEpoch]
        /\ failed' \subseteq Generations /\ k \in 0 .. MaxEpoch
        /\ ledger' = [ledger EXCEPT ![k] = ledger[k] \cup {"noMoreGrants"}]
        /\ UNCHANGED <<nextEpoch, failed, holder, attachment, conn, procs>>
        /\ Sealable(k) /\ \A i \in Endpoints : Serving(<<k, i>>)
    BY Parts, LedgerTypes, Deliveries DEF TypeOK, Destroy, With, Present, Idle, Generations
  <1>2. CASE UNCHANGED gate /\ \/ UNCHANGED manager
                               \/ /\ "constructed" \notin ledger[k]
                                  /\ manager' = [pc |-> "unlink", gen |-> k]
    <2>1. PICK flags \in SUBSET LedgerFlags : flags = ledger[k] \cup {"noMoreGrants"}
      <3>1. "noMoreGrants" \in LedgerFlags
        BY DEF LedgerFlags
      <3> QED BY <1>1, <3>1
    <2>2. PICK w \in Words : w = gate[k]
      BY <1>1
    <2>3. ledger' = [ledger EXCEPT ![k] = flags] /\ gate' = [gate EXCEPT ![k] = w]
      BY <1>1, <1>2, <2>1, <2>2
    <2>4. LedgerBudget'
      <3>1. \A g \in Generations : ledger'[g] = IF g = k THEN flags ELSE ledger[g]
        BY <1>1, <2>3
      <3>2. flags \cap {"active", "quarantined"} = ledger[k] \cap {"active", "quarantined"}
        BY <2>1
      <3> QED BY <1>1, <3>1, <3>2, Parts, BudgetKept
    <2>5. manager' \in [pc : {"idle", "seal", "unlink", "unmap", "destroyed"}, gen : 0 .. MaxEpoch]
      BY <1>1, <1>2
    <2>6. /\ "present" \in flags /\ flags # {} /\ manager'.pc # "seal"
          /\ Destroying' => manager'.gen = k /\ "constructed" \notin ledger[k]
      BY <1>1, <1>2, <2>1 DEF Destroying
    <2>7. w.state = "SEALED" => AllResolved(k)
      BY <1>1, <2>2 DEF Sealable
    <2>8. \A i \in Endpoints : holder[<<k, i>>].issued /\ w.state = "READY" =>
            {"active", "constructed"} \subseteq flags /\ ~Destroying'
      BY <1>1, <2>1, <2>2, <2>6 DEF Serving
    <2>9. /\ w.state # "SEALED" => gate[k].state # "SEALED" /\ w.count = gate[k].count
          /\ ledger[k] # {} /\ failed' \subseteq Generations
          /\ UNCHANGED <<nextEpoch, holder, attachment, conn, procs>>
      BY <1>1, <2>2
    <2>10. Destroying' => manager'.gen = k /\ flags # {}
      BY <2>6
    <2> QED BY <2>3, <2>4, <2>5, <2>6, <2>7, <2>8, <2>9, <2>10, ObjectStep
  <1>3. CASE /\ gate' = [gate EXCEPT ![k] = Retired(gate[k])]
             /\ \/ UNCHANGED manager
                \/ manager' = [pc |-> "seal", gen |-> k] /\ AllResolved(k)
    BY <1>1, <1>3, RetireStep
  <1>4. \/ UNCHANGED gate /\ \/ UNCHANGED manager
                             \/ /\ "constructed" \notin ledger[k]
                                /\ manager' = [pc |-> "unlink", gen |-> k]
        \/ /\ gate' = [gate EXCEPT ![k] = Retired(gate[k])]
           /\ \/ UNCHANGED manager
              \/ manager' = [pc |-> "seal", gen |-> k] /\ AllResolved(k)
    BY DEF Destroy
  <1> QED BY <1>2, <1>3, <1>4

\* The rest of a destruction.
LEMMA DestroyNext ==
  ASSUME IInv, DestroyStep
  PROVE  IInv'
  <1>1. Destroying /\ UNCHANGED <<nextEpoch, failed, holder, attachment, conn, procs>>
    BY DEF DestroyStep, Seal, Unlink, Unmap, Destroying
  <1>2. PICK k \in Generations : k = manager.gen
    BY <1>1, Parts
  <1>3. /\ ledger \in [Generations -> SUBSET LedgerFlags] /\ gate \in [Generations -> Words]
        /\ "present" \in ledger[k] /\ ledger[k] # {} /\ k \in 0 .. MaxEpoch /\ MaxEpoch \in Nat
        /\ manager \in [pc : {"idle", "seal", "unlink", "unmap", "destroyed"}, gen : 0 .. MaxEpoch]
        /\ failed' \subseteq Generations
        /\ Sealable(k) /\ \A i \in Endpoints : Serving(<<k, i>>)
    BY <1>1, <1>2, Parts, LedgerTypes, Deliveries DEF TypeOK, Generations
  <1>4. PICK flags \in SUBSET LedgerFlags :
          /\ ledger' = [ledger EXCEPT ![k] = flags]
          /\ flags = {} \/ flags \cap {"present", "active", "quarantined"} =
                           ledger[k] \cap {"present", "active", "quarantined"}
          /\ manager'.pc # "idle" => flags # {}
    <2>1. CASE Seal
      BY <1>3, <2>1 DEF Seal
    <2>2. CASE Unlink
      <3>1. CASE ledger' = [ledger EXCEPT ![k] = ledger[k] \ {"created"}]
        <4>1. PICK flags \in SUBSET LedgerFlags : flags = ledger[k] \ {"created"}
          BY <1>3
        <4>2. /\ flags \cap {"present", "active", "quarantined"} =
                 ledger[k] \cap {"present", "active", "quarantined"}
              /\ flags # {} /\ ledger' = [ledger EXCEPT ![k] = flags]
          BY <1>3, <3>1, <4>1
        <4> QED BY <4>2
      <3>2. CASE UNCHANGED ledger
        BY <1>3, <3>2
      <3> QED BY <1>2, <2>2, <3>1, <3>2 DEF Unlink
    <2>3. CASE Unmap
      <3>1. manager'.pc = "idle"
        BY <2>3 DEF Unmap, NoCall
      <3>2. CASE ledger' = [ledger EXCEPT ![k] = {}]
        <4>1. PICK flags \in SUBSET LedgerFlags : flags = {}
          OBVIOUS
        <4> QED BY <3>1, <3>2, <4>1
      <3>3. CASE UNCHANGED ledger
        BY <1>3, <3>3
      <3>4. CASE ledger' = [ledger EXCEPT ![k] =
                              (ledger[k] \ {"mapped", "constructed"}) \cup {"uncertain"}]
        <4>1. PICK flags \in SUBSET LedgerFlags :
                flags = (ledger[k] \ {"mapped", "constructed"}) \cup {"uncertain"}
          BY <1>3 DEF LedgerFlags
        <4>2. /\ flags \cap {"present", "active", "quarantined"} =
                 ledger[k] \cap {"present", "active", "quarantined"}
              /\ flags # {} /\ ledger' = [ledger EXCEPT ![k] = flags]
          BY <1>3, <3>4, <4>1
        <4> QED BY <4>2
      <3> QED BY <1>2, <2>3, <3>2, <3>3, <3>4 DEF Unmap
    <2> QED BY <2>1, <2>2, <2>3 DEF DestroyStep
  <1>5. PICK w \in Words :
          /\ gate' = [gate EXCEPT ![k] = w]
          /\ \/ w = gate[k]
             \/ w.state = "SEALED" /\ manager.pc = "seal"
    <2>1. CASE Seal
      <3>1. PICK w \in Words : w = [state |-> "SEALED", count |-> 0]
        BY <1>3, WordSteps
      <3> QED BY <1>2, <2>1, <3>1 DEF Seal
    <2>2. CASE UNCHANGED gate
      BY <1>3, <2>2
    <2> QED BY <2>1, <2>2 DEF DestroyStep, Unlink, Unmap
  <1>6. LedgerBudget'
    <2>1. \A g \in Generations : ledger'[g] = IF g = k THEN flags ELSE ledger[g]
      BY <1>3, <1>4
    <2>2. flags # {} => flags \cap {"active", "quarantined"} = ledger[k] \cap {"active", "quarantined"}
      BY <1>4
    <2> QED BY <1>3, <2>1, <2>2, Parts, BudgetKept
  <1>7. /\ manager' \in [pc : {"idle", "seal", "unlink", "unmap", "destroyed"}, gen : 0 .. MaxEpoch]
        /\ manager'.pc # "seal"
        /\ manager'.pc # "idle" => manager'.gen = k
    <2>1. 0 \in 0 .. MaxEpoch
      BY <1>3
    <2> QED BY <1>2, <1>3, <2>1 DEF DestroyStep, Seal, Unlink, Unmap, NoCall
  <1>8. /\ w.state # "SEALED" => gate[k].state # "SEALED" /\ w.count = gate[k].count
        /\ w.state = "SEALED" => AllResolved(k)
        /\ \A i \in Endpoints : ~(holder[<<k, i>>].issued /\ w.state = "READY")
    <2>1. \A i \in Endpoints : ~(holder[<<k, i>>].issued /\ gate[k].state = "READY")
      BY <1>1, <1>2, <1>3, Deliveries DEF Serving
    <2>2. gate[k].state = "SEALED" \/ manager.pc = "seal" => AllResolved(k)
      BY <1>2, <1>3 DEF Sealable
    <2> QED BY <1>5, <2>1, <2>2
  <1>9. "present" \in flags \/ flags = {}
    BY <1>3, <1>4
  <1>10. Destroying' => manager'.gen = k /\ flags # {}
    BY <1>4, <1>7 DEF Destroying
  <1> QED BY <1>1, <1>3, <1>4, <1>5, <1>6, <1>7, <1>8, <1>9, <1>10, ObjectStep

\* A step that gives endpoints out, resolves their holders or lets processes
\* die, and does no more to the objects than close some of them.
LEMMA HolderStep ==
  ASSUME IInv, TypeOK', UNCHANGED <<nextEpoch, conn, attachment>>, dead \subseteq dead',
         UNCHANGED manager \/ manager'.pc = "destroyed",
         \A g \in Generations : \/ ledger'[g] = ledger[g]
                                \/ ledger[g] # {} /\ ledger'[g] = ledger[g] \cup {"noMoreGrants"},
         \A g \in Generations : /\ gate'[g].count = gate[g].count
                                /\ \/ gate'[g].state = gate[g].state
                                   \/ /\ gate[g].state = "READY"
                                      /\ gate'[g].state = "RETIRE_REQUESTED",
         \A h \in Grants : /\ holder[h].issued => holder'[h].issued
                           /\ holder[h].pid # Nobody => holder'[h].pid = holder[h].pid
                           /\ holder[h].resolved => holder'[h].resolved,
         \A h \in Grants : holder'[h].issued /\ ~holder[h].issued =>
           /\ manager.pc = "idle" /\ {"active", "constructed"} \subseteq ledger[h[1]]
           /\ gate[h[1]].state = "READY" /\ ~holder'[h].resolved /\ holder'[h].pid # Nobody,
         \A h \in Grants : holder'[h].issued /\ holder'[h].resolved /\ ~holder[h].resolved =>
           \/ holder'[h].pid \in dead
           \/ \E c \in Conns : /\ GrantOf(c) = h /\ conn[c].pc = "receipt"
                               /\ conn[c].has = {"claim"}
  PROVE  IInv'
  <1>1. CountExact' /\ \A c \in Conns : HandleCoherent(c)'
    BY HandlesKept
  <1>2. ResolvedMeansGone'
    <2>1. ASSUME NEW h \in Grants, holder'[h].issued, holder'[h].resolved
          PROVE  \/ holder'[h].pid \in dead'
                 \/ \E c \in Conns : /\ GrantOf(c) = h /\ conn[c].pc = "receipt"
                                     /\ conn[c].has = {"claim"}
      <3>1. CASE holder[h].resolved
        <4>1. holder[h].issued /\ holder'[h].pid = holder[h].pid
          BY <2>1, <3>1, Parts
        <4> QED BY <2>1, <3>1, <4>1, Parts DEF ResolvedMeansGone
      <3>2. CASE ~holder[h].resolved
        BY <2>1, <3>2
      <3> QED BY <3>1, <3>2
    <2>2. \A h \in Grants : holder'[h].issued /\ holder'[h].resolved =>
            \/ holder'[h].pid \in dead'
            \/ \E c \in Conns : /\ GrantOf(c) = h /\ conn'[c].pc = "receipt"
                                /\ conn'[c].has = {"claim"}
      BY <2>1
    <2>3. \A c, d \in Conns : GrantOf(c) = GrantOf(d) /\ c # d =>
                                ~("claim" \in conn'[c].has /\ "claim" \in conn'[d].has)
      BY Parts DEF ResolvedMeansGone
    <2> QED BY <2>2, <2>3 DEF ResolvedMeansGone
  <1>3. LedgerBudget'
    <2>1. \A g \in Generations : ledger'[g] # {} =>
            /\ ledger[g] # {}
            /\ ledger'[g] \cap {"active", "quarantined"} = ledger[g] \cap {"active", "quarantined"}
      OBVIOUS
    <2> QED BY <2>1, Parts, BudgetKept
  <1>4. ASSUME NEW h \in Grants
        PROVE  Serving(h)' /\ (holder'[h].issued => holder'[h].pid # Nobody)
    <2>1. gate'[h[1]].state = "READY" => gate[h[1]].state = "READY"
      BY Deliveries
    <2>2. ledger[h[1]] \subseteq ledger'[h[1]]
      BY Deliveries
    <2>3. Destroying' => Destroying /\ manager' = manager
      BY DEF Destroying
    <2>4. CASE holder[h].issued
      BY <2>1, <2>2, <2>3, <2>4, Parts DEF Serving
    <2>5. CASE ~holder[h].issued
      <3>1. CASE holder'[h].issued
        BY <2>2, <2>3, <2>5, <3>1 DEF Serving, Destroying
      <3>2. CASE ~holder'[h].issued
        BY <3>2 DEF Serving
      <3> QED BY <3>1, <3>2
    <2> QED BY <2>4, <2>5
  <1>5. ASSUME NEW g \in Generations
        PROVE  /\ g > nextEpoch' => Untouched(g)'
               /\ Sealable(g)'
               /\ ledger'[g] # {} => "present" \in ledger'[g]
    <2>1. ASSUME g > nextEpoch PROVE Untouched(g)'
      <3>1. Untouched(g)
        BY <2>1, Parts
      <3>2. ledger'[g] = {} /\ gate'[g].state = "BUILDING"
        BY <3>1 DEF Untouched
      <3>3. \A i \in Endpoints : ~holder'[<<g, i>>].issued
        BY <3>1, Deliveries DEF Untouched
      <3> QED BY <3>2, <3>3 DEF Untouched
    <2>2. ASSUME gate'[g].state = "SEALED" \/ (manager'.pc = "seal" /\ manager'.gen = g)
          PROVE  AllResolved(g)'
      <3>1. gate[g].state = "SEALED" \/ (manager.pc = "seal" /\ manager.gen = g)
        BY <2>2
      <3>2. AllResolved(g)
        BY <3>1, Parts DEF Sealable
      <3>3. ASSUME NEW i \in Endpoints, holder'[<<g, i>>].issued PROVE holder'[<<g, i>>].resolved
        <4>1. <<g, i>> \in Grants /\ <<g, i>>[1] = g
          BY Deliveries
        <4>2. holder[<<g, i>>].issued
          BY <3>1, <3>3, <4>1
        <4> QED BY <3>2, <4>1, <4>2 DEF AllResolved
      <3> QED BY <3>3 DEF AllResolved
    <2>3. ledger'[g] # {} => "present" \in ledger'[g]
      BY Parts
    <2> QED BY <2>1, <2>2, <2>3 DEF Sealable
  <1>6. Destroying' => manager'.gen \in Generations /\ ledger'[manager'.gen] # {}
    BY Parts DEF Destroying
  <1> QED BY <1>1, <1>2, <1>3, <1>4, <1>5, <1>6 DEF IInv

\* Registration, grants, receipts and the reaping of a child.
LEMMA HolderNext ==
  ASSUME IInv,
         \/ \E h \in Grants : Grant(h)
         \/ \E h \in Grants, p \in Procs : Register(h, p)
         \/ \E p \in Children : Reap(p)
         \/ \E c \in Conns : AckCleanup(c)
  PROVE  IInv'
  <1> DEFINE Holders == [pid : Procs \cup {Nobody}, issued : BOOLEAN, resolved : BOOLEAN]
  <1>1. /\ TypeOK /\ holder \in [Grants -> Holders]
        /\ dead \subseteq Children /\ reaped \subseteq dead
        /\ \A h \in Grants : holder[h] \in Holders
    BY Parts DEF TypeOK
  \* One holder changes, and nothing of the objects.
  <1>2. ASSUME NEW h \in Grants, NEW new \in Holders, holder' = [holder EXCEPT ![h] = new],
               UNCHANGED <<authority, gate, failed, attachment, conn, procs>>,
               /\ holder[h].issued => new.issued
               /\ holder[h].pid # Nobody => new.pid = holder[h].pid
               /\ holder[h].resolved => new.resolved,
               new.issued /\ ~holder[h].issued =>
                 /\ manager.pc = "idle" /\ {"active", "constructed"} \subseteq ledger[h[1]]
                 /\ gate[h[1]].state = "READY" /\ ~new.resolved /\ new.pid # Nobody,
               new.issued /\ new.resolved /\ ~holder[h].resolved =>
                 \E c \in Conns : /\ GrantOf(c) = h /\ conn[c].pc = "receipt"
                                  /\ conn[c].has = {"claim"}
        PROVE  IInv'
    <2>1. /\ holder' \in [Grants -> Holders]
          /\ \A x \in Grants : holder'[x] = IF x = h THEN new ELSE holder[x]
      BY <1>1, <1>2
    <2>2. TypeOK'
      BY <1>1, <1>2, <2>1 DEF TypeOK, authority, procs
    <2>3. /\ UNCHANGED <<nextEpoch, manager, ledger, gate, conn, attachment, dead>>
          /\ dead \subseteq dead'
      BY <1>2 DEF authority, procs
    <2>4. \A x \in Grants : /\ holder[x].issued => holder'[x].issued
                            /\ holder[x].pid # Nobody => holder'[x].pid = holder[x].pid
                            /\ holder[x].resolved => holder'[x].resolved
      BY <1>2, <2>1
    <2>5. \A x \in Grants : holder'[x].issued /\ ~holder[x].issued =>
            /\ manager.pc = "idle" /\ {"active", "constructed"} \subseteq ledger[x[1]]
            /\ gate[x[1]].state = "READY" /\ ~holder'[x].resolved /\ holder'[x].pid # Nobody
      BY <1>2, <2>1
    <2>6. \A x \in Grants : holder'[x].issued /\ holder'[x].resolved /\ ~holder[x].resolved =>
            \E c \in Conns : /\ GrantOf(c) = x /\ conn[c].pc = "receipt"
                             /\ conn[c].has = {"claim"}
      BY <1>2, <2>1
    <2> HIDE DEF Holders
    <2> QED BY <2>2, <2>3, <2>4, <2>5, <2>6, HolderStep
  <1>3. ASSUME NEW h \in Grants, Grant(h) PROVE IInv'
    <2>1. PICK new \in Holders : new = [holder[h] EXCEPT !.issued = TRUE]
      BY <1>1
    <2>2. /\ holder' = [holder EXCEPT ![h] = new]
          /\ UNCHANGED <<authority, gate, failed, attachment, conn, procs>>
      BY <1>3, <2>1 DEF Grant
    <2>3. /\ new.issued /\ new.pid = holder[h].pid /\ new.resolved = holder[h].resolved
          /\ ~holder[h].resolved /\ holder[h].pid # Nobody
      BY <1>1, <1>3, <2>1 DEF Grant
    <2>4. /\ manager.pc = "idle" /\ {"active", "constructed"} \subseteq ledger[h[1]]
          /\ gate[h[1]].state = "READY"
      BY <1>3 DEF Grant, Idle, With
    <2> QED BY <1>2, <2>2, <2>3, <2>4
  <1>4. ASSUME NEW h \in Grants, NEW p \in Procs, Register(h, p) PROVE IInv'
    <2>1. PICK new \in Holders : new = [holder[h] EXCEPT !.pid = p]
      BY <1>1
    <2>2. /\ holder' = [holder EXCEPT ![h] = new]
          /\ UNCHANGED <<authority, gate, failed, attachment, conn, procs>>
      BY <1>4, <2>1 DEF Register
    <2>3. /\ new.issued = holder[h].issued /\ new.resolved = holder[h].resolved
          /\ holder[h].pid = Nobody /\ ~holder[h].issued
      BY <1>1, <1>4, <2>1, Parts DEF Register
    <2> QED BY <1>2, <2>2, <2>3
  <1>5. ASSUME NEW c \in Conns, AckCleanup(c) PROVE IInv'
    <2>1. PICK h \in Grants : h = GrantOf(c)
      BY Deliveries
    <2>2. PICK new \in Holders : new = [holder[h] EXCEPT !.resolved = TRUE]
      BY <1>1
    <2>3. /\ holder' = [holder EXCEPT ![h] = new]
          /\ UNCHANGED <<authority, gate, failed, attachment, conn, procs>>
          /\ conn[c].pc = "receipt" /\ "claim" \in conn[c].has /\ holder[h].issued
      BY <1>5, <2>1, <2>2 DEF AckCleanup
    <2>4. conn[c].has = {"claim"}
      BY <1>1, <2>3 DEF TypeOK
    <2>5. new.issued = holder[h].issued /\ new.pid = holder[h].pid /\ new.resolved
      BY <1>1, <2>2
    <2> HIDE DEF Holders
    <2> QED BY <1>2, <2>1, <2>3, <2>4, <2>5
  <1>6. ASSUME NEW p \in Children, Reap(p) PROVE IInv'
    <2>1. /\ p \in dead /\ reaped' = reaped \cup {p} /\ UNCHANGED <<nextEpoch, manager, dead>>
          /\ UNCHANGED <<conn, attachment>> /\ dead \subseteq dead'
      BY <1>6 DEF Reap
    <2>2. PICK touched \in SUBSET Generations :
            /\ touched \subseteq With("constructed")
            /\ ledger' = [g \in Generations |->
                 IF g \in touched THEN ledger[g] \cup {"noMoreGrants"} ELSE ledger[g]]
            /\ gate' = [g \in Generations |-> IF g \in touched THEN Retired(gate[g]) ELSE gate[g]]
            /\ failed' = failed \cup touched
      BY <1>6 DEF Reap, With, Present
    <2>3. \A h \in Grants : holder'[h] = IF h \in Unresolved(p)
                                         THEN [holder[h] EXCEPT !.resolved = TRUE] ELSE holder[h]
      BY <1>6 DEF Reap
    <2>4. ASSUME NEW h \in Grants
          PROVE  /\ holder'[h].issued = holder[h].issued /\ holder'[h].pid = holder[h].pid
                 /\ holder[h].resolved => holder'[h].resolved
                 /\ holder'[h].resolved /\ ~holder[h].resolved => holder[h].pid = p
                 /\ holder'[h] \in Holders
      <3>1. CASE h \in Unresolved(p)
        <4>1. holder[h].pid = p
          BY <3>1 DEF Unresolved
        <4> QED BY <1>1, <2>3, <3>1, <4>1
      <3>2. CASE h \notin Unresolved(p)
        BY <1>1, <2>3, <3>2
      <3> QED BY <3>1, <3>2
    <2>5. \A g \in Generations :
            \/ ledger'[g] = ledger[g]
            \/ ledger[g] # {} /\ ledger'[g] = ledger[g] \cup {"noMoreGrants"}
      BY <2>2 DEF With, Present
    <2>6. ledger \in [Generations -> SUBSET LedgerFlags] /\ gate \in [Generations -> Words]
      BY <1>1, LedgerTypes
    <2>7. \A g \in Generations : /\ gate'[g] \in Words /\ gate'[g].count = gate[g].count
                                 /\ \/ gate'[g].state = gate[g].state
                                    \/ /\ gate[g].state = "READY"
                                       /\ gate'[g].state = "RETIRE_REQUESTED"
      <3>1. ASSUME NEW g \in Generations, gate[g].state = "READY"
            PROVE  Retired(gate[g]).state = "RETIRE_REQUESTED"
        BY <2>6, <3>1 DEF Retired, Words
      <3>2. ASSUME NEW g \in Generations, gate[g].state # "READY"
            PROVE  Retired(gate[g]) = gate[g]
        BY <3>2 DEF Retired
      <3>3. \A g \in Generations : Retired(gate[g]) \in Words /\ Retired(gate[g]).count = gate[g].count
        BY <2>6, WordSteps
      <3> QED BY <2>2, <2>6, <3>1, <3>2, <3>3
    <2>8. TypeOK'
      <3>1. ledger' \in [Generations -> SUBSET LedgerFlags] /\ gate' \in [Generations -> Words]
        <4>1. "noMoreGrants" \in LedgerFlags
          BY DEF LedgerFlags
        <4>2. \A g \in Generations : ledger'[g] \in SUBSET LedgerFlags
          BY <2>5, <2>6, <4>1
        <4> QED BY <2>2, <2>7, <4>2
      <3>2. holder' \in [Grants -> Holders]
        BY <1>6, <2>4 DEF Reap
      <3>3. failed' \subseteq Generations /\ dead' \subseteq Children /\ reaped' \subseteq dead'
        BY <1>1, <2>1, <2>2 DEF TypeOK
      <3> QED BY <1>1, <2>1, <3>1, <3>2, <3>3 DEF TypeOK, Words
    <2> HIDE DEF Holders
    <2> QED BY <2>1, <2>4, <2>5, <2>7, <2>8, HolderStep
  <1> QED BY <1>3, <1>4, <1>5, <1>6

\* The end of the authority, a death, and stuttering.
LEMMA OtherNext ==
  ASSUME IInv, AuthorityDestroy \/ (\E p \in Children : Die(p)) \/ UNCHANGED vars
  PROVE  IInv'
  <1>1. /\ UNCHANGED <<nextEpoch, ledger, gate, failed, holder, attachment, conn, reaped>>
        /\ dead \subseteq dead' /\ dead' \subseteq dead \cup Children
        /\ UNCHANGED manager \/ manager' = [NoCall EXCEPT !.pc = "destroyed"]
    BY DEF AuthorityDestroy, Die, vars, authority, procs
  <1>2. manager' \in [pc : {"idle", "seal", "unlink", "unmap", "destroyed"}, gen : 0 .. MaxEpoch]
    BY <1>1, Parts, LifecycleAssumption DEF TypeOK, NoCall
  <1>3. TypeOK'
    BY <1>1, <1>2, Parts DEF TypeOK
  <1>4. UNCHANGED manager \/ manager'.pc = "destroyed"
    BY <1>1 DEF NoCall
  <1> QED BY <1>1, <1>3, <1>4, HolderStep
-----------------------------------------------------------------------------
(***************************************************************************)
(* The theorems.                                                           *)
(***************************************************************************)
LEMMA InitInvariant == Init => IInv
  <1> SUFFICES ASSUME Init PROVE IInv
    OBVIOUS
  <1>1. TypeOK
    <2>1. "BUILDING" \in {States[i] : i \in 1 .. 5}
      <3>1. States[1] = "BUILDING"
        BY DEF States
      <3> QED BY <3>1
    <2>2. 0 \in 0 .. Cardinality(Endpoints) /\ 0 \in 0 .. MaxEpoch
      BY Finite, LifecycleAssumption
    <2>3. "none" \in Labels /\ "NEW" \in Attachments
      BY DEF Labels, Attachments
    <2>4. conn \in [Conns -> [pc : Labels, has : SUBSET {"mapping", "claim", "enrolled", "uncertain"}]]
      BY <2>3 DEF Init
    <2>5. gate \in [Generations -> [state : {States[i] : i \in 1 .. 5},
                                    count : 0 .. Cardinality(Endpoints)]]
      BY <2>1, <2>2 DEF Init
    <2>6. \A c \in Conns : conn[c].pc # "receipt"
      BY DEF Init
    <2>7. holder \in [Grants -> [pid : Procs \cup {Nobody}, issued : BOOLEAN, resolved : BOOLEAN]]
      <3>1. NoHolder \in [pid : Procs \cup {Nobody}, issued : BOOLEAN, resolved : BOOLEAN]
        BY DEF NoHolder
      <3> QED BY <3>1 DEF Init
    <2>8. /\ nextEpoch \in 0 .. MaxEpoch /\ ledger \in [Generations -> SUBSET LedgerFlags]
          /\ attachment \in [Grants -> Attachments]
          /\ failed \subseteq Generations /\ dead \subseteq Children /\ reaped \subseteq dead
      BY <2>2, <2>3 DEF Init
    <2>9. manager \in [pc : {"idle", "seal", "unlink", "unmap", "destroyed"}, gen : 0 .. MaxEpoch]
      BY <2>2 DEF Init, NoCall
    <2> QED BY <2>4, <2>5, <2>6, <2>7, <2>8, <2>9 DEF TypeOK
  <1>2. /\ \A c \in Conns : conn[c] = [pc |-> "none", has |-> {}]
        /\ \A h \in Grants : holder[h] = NoHolder
        /\ \A g \in Generations : ledger[g] = {} /\ gate[g] = [state |-> "BUILDING", count |-> 0]
        /\ manager.pc = "idle"
    BY DEF Init, NoCall
  <1>3. CountExact
    <2>1. ASSUME NEW g \in Generations
          PROVE  gate[g].count = Cardinality({c \in OfGen(g) : "enrolled" \in conn[c].has})
      <3>1. {c \in OfGen(g) : "enrolled" \in conn[c].has} = {}
        BY <1>2 DEF OfGen
      <3> QED BY <1>2, <3>1, FS_EmptySet
    <2> QED BY <2>1 DEF CountExact
  <1>4. ResolvedMeansGone
    BY <1>2 DEF ResolvedMeansGone, NoHolder
  <1>5. LedgerBudget
    <2>1. With("active") = {} /\ Candidates = {} /\ With("quarantined") = {}
      BY <1>2 DEF With, Candidates, Present
    <2>2. Cardinality({}) = 0 /\ MaxQuarantined \in Nat
      BY FS_EmptySet, LifecycleAssumption
    <2> QED BY <2>1, <2>2 DEF LedgerBudget
  <1>6. \A c \in Conns : HandleCoherent(c)
    BY <1>2 DEF HandleCoherent
  <1>7. \A h \in Grants : Serving(h) /\ (holder[h].issued => holder[h].pid # Nobody)
    BY <1>2 DEF Serving, NoHolder
  <1>8. \A g \in Generations : /\ g > nextEpoch => Untouched(g)
                               /\ Sealable(g)
                               /\ ledger[g] # {} => "present" \in ledger[g]
    <2>1. ~NoHolder.issued
      BY DEF NoHolder
    <2>2. \A g \in Generations, i \in Endpoints : ~holder[<<g, i>>].issued
      BY <1>2, <2>1, Deliveries
    <2> QED BY <1>2, <2>2 DEF Untouched, Sealable
  <1>9. Destroying => manager.gen \in Generations /\ ledger[manager.gen] # {}
    BY <1>2 DEF Destroying
  <1> QED BY <1>1, <1>3, <1>4, <1>5, <1>6, <1>7, <1>8, <1>9 DEF IInv

LEMMA NextInvariant == IInv /\ [Next]_vars => IInv'
  <1> SUFFICES ASSUME IInv, [Next]_vars PROVE IInv'
    OBVIOUS
  <1>1. CASE Create
    BY <1>1, CreateStep
  <1>2. CASE DestroyStep
    BY <1>2, DestroyNext
  <1>3. CASE \E g \in Generations : Activate(g) \/ Quarantine(g) \/ Destroy(g)
    BY <1>3, ActivateStep, QuarantineStep, DestroyStart
  <1>4. CASE \E g \in Generations, reason \in BOOLEAN : ObjectRetire(g, reason)
    <2>1. PICK g \in Generations, reason \in BOOLEAN : ObjectRetire(g, reason)
      BY <1>4
    <2>2. /\ manager.pc = "idle" /\ ledger[g] # {}
          /\ ledger' = [ledger EXCEPT ![g] = ledger[g] \cup {"noMoreGrants"}]
          /\ gate' = [gate EXCEPT ![g] = Retired(gate[g])]
          /\ UNCHANGED <<nextEpoch, manager, holder, attachment, conn, procs>>
      BY <2>1 DEF ObjectRetire, With, Present, Idle
    <2>3. failed' \subseteq Generations
      BY <2>1, Parts DEF ObjectRetire, TypeOK
    <2> QED BY <2>2, <2>3, RetireStep
  <1>5. CASE \/ \E h \in Grants : Grant(h)
             \/ \E h \in Grants, p \in Procs : Register(h, p)
             \/ \E p \in Children : Reap(p)
             \/ \E c \in Conns : AckCleanup(c)
    BY <1>5, HolderNext
  <1>6. CASE \E c \in Conns : RetireFailure(c) \/ LeaveStep(c)
    BY <1>6, HandleNext
  <1>7. CASE AuthorityDestroy \/ (\E p \in Children : Die(p)) \/ UNCHANGED vars
    BY <1>7, OtherNext
  <1> QED BY <1>1, <1>2, <1>3, <1>4, <1>5, <1>6, <1>7 DEF Next

\* The invariant holds of every behaviour.
THEOREM Invariance == Spec => []IInv
  BY InitInvariant, NextInvariant, PTL DEF Spec

\* Types: no count leaves 0 .. the number of endpoints, and a handle that has
\* given its receipt keeps nothing but the claim.
THEOREM TypeCorrect == Spec => []TypeOK
  <1>1. IInv => TypeOK
    BY DEF IInv
  <1> QED BY <1>1, Invariance, PTL

\* Attachment counts are exact as long as the object is not sealed.
THEOREM CountsExact == Spec => []CountExact
  <1>1. IInv => CountExact
    BY DEF IInv
  <1> QED BY <1>1, Invariance, PTL

\* One delivery of a grant at most claims the endpoint, and a living holder is
\* resolved only when that one has given back everything.
THEOREM ResolvedGone == Spec => []ResolvedMeansGone
  <1>1. IInv => ResolvedMeansGone
    BY DEF IInv
  <1> QED BY <1>1, Invariance, PTL

\* What is sealed is out of the reach of every living process: whoever claimed an
\* endpoint was issued it, so it is resolved, and it is the one who has given back.
THEOREM Fenced == Spec => []FencedBeforeSeal
  <1>1. ASSUME IInv PROVE FencedBeforeSeal
    <2>1. SUFFICES ASSUME NEW c \in Conns, gate[Gen(c)].state = "SEALED", Alive(c),
                          {"claim", "mapping"} \subseteq conn[c].has
                   PROVE  FALSE
      BY DEF FencedBeforeSeal
    <2> DEFINE h == GrantOf(c)
    <2>2. /\ h \in Grants /\ h[1] = Gen(c) /\ h = <<Gen(c), h[2]>> /\ h[2] \in Endpoints
          /\ Gen(c) \in Generations
      BY Deliveries
    <2>3. AllResolved(Gen(c))
      BY <1>1, <2>1, <2>2, Parts DEF Sealable
    <2>4. holder[h].issued
      BY <1>1, <2>1, Parts DEF HandleCoherent
    <2>5. holder[h].resolved /\ holder[h].pid \notin dead
      BY <2>1, <2>2, <2>3, <2>4 DEF AllResolved, Alive
    <2>6. PICK d \in Conns : GrantOf(d) = h /\ conn[d].has = {"claim"}
      BY <1>1, <2>2, <2>4, <2>5, Parts DEF ResolvedMeansGone
    <2>7. d = c
      BY <1>1, <2>1, <2>6, Parts DEF ResolvedMeansGone
    <2> QED BY <2>1, <2>6, <2>7
  <1> QED BY <1>1, Invariance, PTL

\* At most one generation has an open gate and a living handle enrolled in it.
THEOREM OneInService == Spec => []SingleService
  <1>1. ASSUME IInv PROVE SingleService
    <2>1. LedgerBudget
      BY <1>1, Parts
    <2>2. ASSUME NEW g \in Generations, InService(g) PROVE g \in With("active")
      <3>1. PICK c \in Conns : /\ gate[g].state = "READY" /\ "enrolled" \in conn[c].has
                               /\ Gen(c) = g
        BY <2>2 DEF InService, OfGen
      <3>2. holder[GrantOf(c)].issued /\ GrantOf(c) \in Grants /\ GrantOf(c)[1] = g
        BY <1>1, <3>1, Parts, Deliveries DEF HandleCoherent
      <3>3. "active" \in ledger[g]
        BY <1>1, <3>1, <3>2, Parts DEF Serving
      <3> QED BY <3>3 DEF With, Present
    <2> QED BY <2>1, <2>2, Budget DEF SingleService
  <1> QED BY <1>1, Invariance, PTL
=============================================================================
