------------------------------ MODULE CombGraph ------------------------------
(***************************************************************************)
(* The combinational dependency graph of a set of spawned tasks and the    *)
(* levelized settle plan computed from it (copper-sim/src/executor.rs).    *)
(*                                                                         *)
(* A task table is a function from task indices to records with the two    *)
(* fields the executor looks at: `reads`, the set of wires the caller      *)
(* declared at spawn, and `dirties`, the sequence of wires whose           *)
(* DirtyHandles were registered.  reg is the set of wires driven by a      *)
(* RegOut (WireKind::Registered); all others are WireKind::Comb.           *)
(***************************************************************************)
EXTENDS Integers, Sequences, FiniteSets

Handles(task) == {task.dirties[k] : k \in 1..Len(task.dirties)}

comb_producer_kind_swapped(tasks, reg, w) ==
    {p \in DOMAIN tasks : w \in Handles(tasks[p]) \cap reg}

\* The tasks that drive wire w through a registered plain-Out handle.
comb_producer(tasks, reg, w) ==
    {p \in DOMAIN tasks : w \in Handles(tasks[p]) \ reg}

\* Producer -> consumer edges; `HashMap::insert` keeps the last writer of a
\* wire, self edges and duplicates are dropped.
comb_dependency_graph(tasks, reg) ==
    {e \in (DOMAIN tasks) \X (DOMAIN tasks) :
        /\ e[1] # e[2]
        /\ \E w \in tasks[e[2]].reads :
              /\ e[1] \in comb_producer(tasks, reg, w)
              /\ \A q \in comb_producer(tasks, reg, w) : q <= e[1]}

-----------------------------------------------------------------------------
\* What a path of E leads to from each node: whatever is in every set of nodes that
\* holds the node and that no edge leaves.
Closed(nodes, E) == {S \in SUBSET nodes : \A e \in E : e[1] \in S => e[2] \in S}
Reachable(nodes, E) ==
    LET closed == Closed(nodes, E)
    IN  [u \in nodes |-> {v \in nodes : \A S \in closed : u \in S => v \in S}]

\* The strongly connected components: what tarjan_scc labels with one comp_id.  Nodes
\* reach each other if the same sets that no edge leaves hold them.
Components(nodes, E) ==
    LET closed == Closed(nodes, E)
    IN  {{u \in nodes : \A S \in closed : u \in S <=> v \in S} : v \in nodes}

Least(S) == CHOOSE x \in S : \A y \in S : x <= y

\* Kahn's algorithm over the condensation: components with no unplanned
\* predecessor are ready, and the ready one with the least member goes next.
\* The set of orders it can produce (SccPlan shows that there is just one).
kahn_order(comps, E) ==
    LET pred(c) == {d \in comps \ {c} : \E u \in d, v \in c : <<u, v>> \in E}
        done(s, i) == {s[j] : j \in 1..(i - 1)}
        ready(s, i) == {c \in comps \ done(s, i) : pred(c) \subseteq done(s, i)}
    IN  {s \in [1..Cardinality(comps) -> comps] :
            \A i \in 1..Cardinality(comps) :
                s[i] \in ready(s, i) /\ \A d \in ready(s, i) : Least(s[i]) <= Least(d)}

compute_scc_plan(tasks, reg) ==
    LET E == comb_dependency_graph(tasks, reg)
    IN  kahn_order(Components(DOMAIN tasks, E), E)

comb_cycles(tasks, reg) ==
    LET E == comb_dependency_graph(tasks, reg)
    IN  {c \in Components(DOMAIN tasks, E) : Cardinality(c) > 1}
=============================================================================
