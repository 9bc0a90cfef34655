------------------------------- MODULE Explore -------------------------------
(***************************************************************************)
(* formal/explore.py: the exact breadth-first search behind the formal     *)
(* campaign, and the replay of its witnesses in                            *)
(* tools/verify_formal_results.py.  The model it explores is any transition*)
(* graph: the initial states choose one, so that what a verdict claims can *)
(* be compared with the graph itself.                                      *)
(***************************************************************************)
EXTENDS Integers, Sequences, FiniteSets, SequencesExt, Functions

CONSTANTS Nodes,      \* states of the explored model; 0 is its initial state
          Degree,     \* node -> successors it has, at most
          Budgets     \* values of max_states

VARIABLES
  graph,      \* edges of each node, nodes the invariant rejects, terminal nodes
  phase,      \* "search", "eliminate" or "done"
  states,     \* the distinct states, in the order they were found
  parent,     \* of each found state but the first
  bfs,        \* found and not yet expanded
  current,    \* the state being expanded and its successors still to visit
  edges,      \* [from, to, progress], visited
  remaining,  \* states that elimination has not removed
  status, witness

vars == <<graph, phase, states, parent, bfs, current, edges, remaining, status, witness>>

Edges == [to : Nodes, progress : BOOLEAN]
Idle  == [node |-> -1, todo |-> {}]

\* One transition per pair of states, at most Degree[n] of them from n.
Successors(n) == {es \in SUBSET Edges :
  Cardinality(es) = Cardinality({e.to : e \in es}) /\ Cardinality(es) <= Degree[n]}

Init ==
  /\ graph \in [edges : {g \in [Nodes -> UNION {Successors(n) : n \in Nodes}] :
                           \A n \in Nodes : g[n] \in Successors(n)},
                bad : {b \in SUBSET Nodes : Cardinality(b) <= 1},
                terminal : {{}, {Cardinality(Nodes) - 1}},
                budget : Budgets]
  /\ phase = "search" /\ status = "PASS_WITHIN_SCOPE" /\ witness = <<>>
  /\ states = <<0>> /\ parent = [n \in Nodes |-> -1]
  /\ bfs = <<0>> /\ current = Idle /\ edges = {} /\ remaining = {}

\* The path of parents from the initial state to n, without the initial state.
RECURSIVE PathTo(_)
PathTo(n) == IF parent[n] = -1 THEN <<>> ELSE Append(PathTo(parent[n]), n)

Stop(verdict, path) == /\ status' = verdict /\ witness' = path /\ phase' = "done"
                       /\ UNCHANGED <<states, parent, bfs, current, edges, remaining>>

\* The wall clock is looked at before a state is taken from the queue.
WallBudget ==
  /\ phase = "search" /\ current = Idle /\ bfs # <<>>
  /\ Stop("INCOMPLETE", <<>>)

Expand ==
  LET n == Head(bfs) IN
  /\ phase = "search" /\ current = Idle /\ bfs # <<>>
  /\ bfs' = Tail(bfs)
  /\ IF graph.edges[n] = {} /\ n \notin graph.terminal
       THEN /\ status' = "FAIL_DEADLOCK" /\ witness' = PathTo(n) /\ phase' = "done"
            /\ UNCHANGED current
       ELSE /\ current' = IF graph.edges[n] = {} THEN Idle
                          ELSE [node |-> n, todo |-> graph.edges[n]]
            /\ UNCHANGED <<status, witness, phase>>
  /\ UNCHANGED <<states, parent, edges, remaining>>

\* One successor: a violation first, then the lookup of the exact state, and
\* the state budget only when the state is new.
Visit(e) ==
  LET n == current.node  t == e.to
      found == t \in Range(states)
  IN
  /\ phase = "search" /\ e \in current.todo
  /\ IF t \in graph.bad THEN Stop("FAIL_WITNESS", Append(PathTo(n), t))
     ELSE IF ~found /\ Len(states) >= graph.budget THEN Stop("INCOMPLETE", <<>>)
     ELSE /\ IF found THEN UNCHANGED <<states, parent, bfs>>
             ELSE /\ states' = Append(states, t)
                  /\ parent' = [parent EXCEPT ![t] = n]
                  /\ bfs' = Append(bfs, t)
          /\ edges' = edges \cup {[from |-> n, to |-> t, progress |-> e.progress]}
          /\ current' = IF current.todo = {e} THEN Idle
                        ELSE [current EXCEPT !.todo = @ \ {e}]
          /\ UNCHANGED <<status, witness, phase, remaining>>

Analyze ==
  /\ phase = "search" /\ current = Idle /\ bfs = <<>>
  /\ phase' = "eliminate" /\ remaining' = Range(states)
  /\ UNCHANGED <<states, parent, bfs, current, edges, status, witness>>

\* Mutant: progress edges count as well.
Ready_AllEdges == {n \in remaining : \A e \in edges : e.to = n => e.from \notin remaining}

\* Kahn's elimination over the edges without progress.
Ready == {n \in remaining :
            \A e \in edges : e.to = n /\ ~e.progress => e.from \notin remaining}

Eliminate ==
  /\ phase = "eliminate"
  /\ IF Ready # {} THEN /\ \E n \in Ready : remaining' = remaining \ {n}
                        /\ UNCHANGED <<status, phase>>
     ELSE /\ status' = IF remaining = {} THEN status ELSE "FAIL_PROGRESS_CYCLE"
          /\ phase' = "done" /\ UNCHANGED remaining
  /\ UNCHANGED <<states, parent, bfs, current, edges, witness>>

Next == /\ \/ WallBudget \/ Expand \/ Analyze \/ Eliminate
           \/ \E e \in Edges : Visit(e)
        /\ UNCHANGED graph

Spec == Init /\ [][Next]_vars

\* replay_witness: every step but the last is a transition to an accepted
\* state, and the last one is rejected.
ReplayWitness(path) ==
  LET At(i) == IF i = 0 THEN 0 ELSE path[i] IN
  /\ path # <<>>
  /\ \A i \in 1 .. Len(path) :
       /\ Cardinality({e \in graph.edges[At(i - 1)] : e.to = path[i]}) = 1
       /\ path[i] \in graph.bad <=> i = Len(path)

(***************************************************************************)
(* What the verdicts mean, in terms of the graph alone.                    *)
(***************************************************************************)
Succ(S) == UNION {{e.to : e \in graph.edges[n]} : n \in S}

\* The nodes a path of at most k edges reaches.
Within == [k \in 0 .. Cardinality(Nodes) |->
             LET w[j \in 0 .. k] == IF j = 0 THEN {0} ELSE w[j-1] \cup Succ(w[j-1])
             IN  w[k]]
Reachable == Within[Cardinality(Nodes)]

\* The length of a shortest path that ends in a rejected state.
Violates(k) == k >= 1 /\ Succ(Within[k - 1]) \cap graph.bad # {}
ShortestViolation(k) == Violates(k) /\ ~Violates(k - 1)

\* A cycle of edges without progress through reachable nodes.
QuietCycle == \E S \in (SUBSET Reachable) \ {{}} : \A n \in S :
                \E e \in graph.edges[n] : ~e.progress /\ e.to \in S

Stuck == {n \in Reachable \ graph.terminal : graph.edges[n] = {}}

\* A verdict says of the explored graph what its name claims: a pass found
\* every state and nothing wrong, a witness is a shortest violation that
\* replays, a cut is never a pass.
VerdictSound == phase = "done" =>
  CASE status = "PASS_WITHIN_SCOPE" ->
         /\ Range(states) = Reachable /\ Succ(Reachable) \cap graph.bad = {}
         /\ Stuck = {} /\ ~QuietCycle
    [] status = "FAIL_WITNESS" ->
         ReplayWitness(witness) /\ ShortestViolation(Len(witness))
    [] status = "FAIL_DEADLOCK" ->
         (IF witness = <<>> THEN 0 ELSE Last(witness)) \in Stuck
    [] status = "FAIL_PROGRESS_CYCLE" -> QuietCycle /\ Succ(Reachable) \cap graph.bad = {}
    [] status = "INCOMPLETE" -> Range(states) \subseteq Reachable
=============================================================================
