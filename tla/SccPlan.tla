------------------------------- MODULE SccPlan -------------------------------
(***************************************************************************)
(* How the levelized plan is computed (copper-sim/src/executor.rs):        *)
(* tarjan_scc with its explicit DFS stack, then Kahn's algorithm over the  *)
(* condensation with a min-heap.  CombGraph says what the result must be.  *)
(*                                                                         *)
(* adj[v] is v's adjacency list; comb_dependency_graph pushes consumers in *)
(* index order, so the list is a set walked in ascending order, and a DFS  *)
(* frame's cursor is the set of neighbours still to explore.               *)
(***************************************************************************)
EXTENDS CombGraph

CONSTANTS N,          \* number of tasks
          UNVISITED   \* usize::MAX

Node == 1..N

ASSUME SccAssumption == N \in Nat /\ UNVISITED \notin Nat

VARIABLES adj,                   \* the graph
          index, low,            \* DFS discovery order and lowlink
          comp_id,
          scc_stack,             \* visited nodes of unfinished components
          call,                  \* frames [node, rest]
          next_index, next_comp,
          cindeg,                \* unplanned predecessors of each component
          ready,                 \* the heap, as a set of component ids
          plan,
          phase

tarjanVars == <<index, low, comp_id, scc_stack, call, next_index, next_comp>>
kahnVars == <<cindeg, ready, plan>>
vars == <<adj, tarjanVars, kahnVars, phase>>

E == {e \in Node \X Node : e[2] \in adj[e[1]]}
Stacked == {scc_stack[i] : i \in 1..Len(scc_stack)}
on_stack_visited(v) == index[v] # UNVISITED
on_stack(v) == v \in Stacked
Top == call[Len(call)]
SetTop(frame) == [call EXCEPT ![Len(call)] = frame]
Lesser_ignored(x, y) == x
Lesser(x, y) == IF x < y THEN x ELSE y

Init ==
    /\ adj \in {f \in [Node -> SUBSET Node] : \A v \in Node : v \notin f[v]}
    /\ index = [v \in Node |-> UNVISITED]
    /\ low = [v \in Node |-> 0]
    /\ comp_id = [v \in Node |-> UNVISITED]
    /\ scc_stack = << >>
    /\ call = << >>
    /\ next_index = 0
    /\ next_comp = 0
    /\ cindeg = << >>
    /\ ready = {}
    /\ plan = << >>
    /\ phase = "tarjan"

\* A node is discovered: numbered and pushed on both stacks (cs is the call
\* stack below it).
Discover(v, cs) ==
    /\ index' = [index EXCEPT ![v] = next_index]
    /\ low' = [low EXCEPT ![v] = next_index]
    /\ next_index' = next_index + 1
    /\ scc_stack' = Append(scc_stack, v)
    /\ call' = Append(cs, [node |-> v, rest |-> adj[v]])
    /\ UNCHANGED <<adj, comp_id, next_comp, kahnVars, phase>>

Unvisited_any == Node
Unvisited == {v \in Node : index[v] = UNVISITED}

\* The outer loop takes the next root that no earlier search reached.
StartRoot ==
    /\ phase = "tarjan" /\ call = << >> /\ Unvisited # {}
    /\ Discover(Least(Unvisited), << >>)

Exploring == phase = "tarjan" /\ call # << >> /\ Top.rest # {}
Neighbour == Least(Top.rest)
Advanced_stuck == call
Advanced == SetTop([Top EXCEPT !.rest = @ \ {Neighbour}])

Descend ==
    /\ Exploring
    /\ index[Neighbour] = UNVISITED
    /\ Discover(Neighbour, Advanced)

\* An edge to a visited node: into an unfinished component, or into a finished one.
Revisit ==
    /\ Exploring
    /\ index[Neighbour] # UNVISITED
    /\ call' = Advanced
    /\ low' = [low EXCEPT ![Top.node] =
                 IF on_stack(Neighbour) THEN Lesser(@, index[Neighbour]) ELSE @]
    /\ UNCHANGED <<adj, index, comp_id, scc_stack, next_index, next_comp, kahnVars, phase>>

SccBase_bottom(v) == 1
SccBase(v) == Least({i \in 1..Len(scc_stack) : scc_stack[i] = v})

\* All edges of v explored: pop its component if v is the root of one, return to
\* the parent frame and hand v's lowlink up.
Finish ==
    /\ phase = "tarjan" /\ call # << >> /\ Top.rest = {}
    /\ LET v    == Top.node
           base == SccBase(v)
           scc  == {scc_stack[i] : i \in base..Len(scc_stack)}
           root == low[v] = index[v]
       IN  /\ comp_id' = [x \in Node |-> IF root /\ x \in scc THEN next_comp ELSE comp_id[x]]
           /\ scc_stack' = IF root THEN SubSeq(scc_stack, 1, base - 1) ELSE scc_stack
           /\ next_comp' = IF root THEN next_comp + 1 ELSE next_comp
           /\ call' = SubSeq(call, 1, Len(call) - 1)
           /\ low' = IF Len(call) = 1 THEN low
                     ELSE [low EXCEPT ![call[Len(call) - 1].node] = Lesser(@, low[v])]
    /\ UNCHANGED <<adj, index, next_index, kahnVars, phase>>

members(c) == {v \in Node : comp_id[v] = c}
Comp == 0..(next_comp - 1)
cadj(c) == {d \in Comp \ {c} : \E u \in members(c), v \in members(d) : <<u, v>> \in E}

\* Condensation edges, in-degrees and the initial heap.
Condense ==
    /\ phase = "tarjan" /\ call = << >> /\ Unvisited = {}
    /\ cindeg' = [c \in Comp |-> Cardinality({d \in Comp : c \in cadj(d)})]
    /\ ready' = {c \in Comp : cindeg'[c] = 0}
    /\ phase' = "kahn"
    /\ UNCHANGED <<adj, tarjanVars, plan>>

\* Pop the ready component with the least task and release its successors.
Emit ==
    /\ phase = "kahn" /\ ready # {}
    /\ LET c == CHOOSE x \in ready : \A y \in ready : Least(members(x)) <= Least(members(y))
       IN  /\ plan' = Append(plan, members(c))
           /\ cindeg' = [d \in Comp |-> IF d \in cadj(c) THEN cindeg[d] - 1 ELSE cindeg[d]]
           /\ ready' = (ready \ {c}) \cup {d \in cadj(c) : cindeg'[d] = 0}
    /\ UNCHANGED <<adj, tarjanVars, phase>>

Finished ==
    /\ phase = "kahn" /\ ready = {}
    /\ phase' = "done"
    /\ UNCHANGED <<adj, tarjanVars, kahnVars>>

Next == StartRoot \/ Descend \/ Revisit \/ Finish \/ Condense \/ Emit \/ Finished

Spec == Init /\ [][Next]_vars /\ WF_vars(Next)
-----------------------------------------------------------------------------
(* Properties.                                                             *)

\* Type invariant: the vectors tarjan_scc allocates keep their element types.
TypeOK ==
    /\ adj \in [Node -> SUBSET Node]
    /\ index \in [Node -> Nat \cup {UNVISITED}]
    /\ low \in [Node -> Nat]
    /\ comp_id \in [Node -> Nat \cup {UNVISITED}]
    /\ scc_stack \in Seq(Node)
    /\ call \in Seq([node : Node, rest : SUBSET Node])
    /\ next_index \in 0..N /\ next_comp \in 0..N
    /\ plan \in Seq(SUBSET Node)
    /\ phase \in {"tarjan", "kahn", "done"}

\* tarjan_scc finalizes components in reverse topological order (its doc comment):
\* a node that got a component id has all its consumers in components with ids no
\* greater, at every moment of the search.
ReverseTopological ==
    \A e \in E : comp_id[e[1]] # UNVISITED =>
        comp_id[e[2]] # UNVISITED /\ comp_id[e[2]] <= comp_id[e[1]]

\* A lowlink is never an over-eager merge: low[v] is the index of a node that v
\* reaches and that is still in an unfinished component, as long as v itself is.
LowlinkReachable ==
    LET R == Reachable(Node, E)
    IN  \A v \in Stacked : \E u \in Stacked : index[u] = low[v] /\ u \in R[v]

\* The DFS bookkeeping agrees with itself: a visited node is on the component stack
\* exactly until it gets an id, the stack is in discovery order, and every open
\* frame's node is on it (the code's on_stack vector and scc_stack.pop().unwrap()).
StacksAgree ==
    /\ \A v \in Node : v \in Stacked <=> index[v] # UNVISITED /\ comp_id[v] = UNVISITED
    /\ \A i, j \in 1..Len(scc_stack) : i < j => index[scc_stack[i]] < index[scc_stack[j]]
    /\ \A i \in 1..Len(call) : call[i].node \in Stacked

\* The plan the two algorithms produce is the one the executor's model walks: every
\* component once, producers before consumers, ties to the least task
\* (compute_scc_plan).
PlanCorrect == phase = "done" => {plan} = kahn_order(Components(Node, E), E)

\* Planning always completes: neither the explicit DFS stack nor the heap stalls.
Terminates == <>(phase = "done")
=============================================================================
