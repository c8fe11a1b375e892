---------------------------- MODULE SccPlanProofs -----------------------------
(***************************************************************************)
(* tarjan_scc and compute_scc_plan are correct, for every graph of any     *)
(* number of tasks.                                                        *)
(***************************************************************************)
EXTENDS SccPlan, CombGraphProofs, SequenceTheorems

(***************************************************************************)
(* The inductive invariant of the search.                                  *)
(***************************************************************************)

Frame == [node : Node, rest : SUBSET Node]
R == Reachable(Node, E)
Visited == {v \in Node : index[v] # UNVISITED}
Depth == 1..Len(call)

\* The discovery numbers of the open frames' nodes.
Num == [i \in Depth |-> index[call[i].node]]

\* The edge from x to y has still to be explored.
Pending(x, y) == \E i \in Depth : call[i].node = x /\ y \in call[i].rest

\* The i-th frame is the innermost one opened before x (or x's own).
Owner(i, x) == Num[i] <= index[x] /\ (i < Len(call) => index[x] < Num[i + 1])

\* TypeOK without the bounds on the counters.
Types ==
    /\ adj \in [Node -> SUBSET Node]
    /\ index \in [Node -> Nat \cup {UNVISITED}]
    /\ low \in [Node -> Nat]
    /\ comp_id \in [Node -> Nat \cup {UNVISITED}]
    /\ scc_stack \in Seq(Node)
    /\ call \in Seq(Frame)
    /\ next_index \in Nat /\ next_comp \in Nat
    /\ plan \in Seq(SUBSET Node)
    /\ phase \in {"tarjan", "kahn", "done"}

\* Visited nodes carry distinct numbers, all below the next one to be given.
Numbered ==
    /\ \A v \in Visited : index[v] < next_index
    /\ \A u, v \in Visited : index[u] = index[v] => u = v
    /\ Cardinality(Visited) = next_index

\* The open frames are a path of the search, and hold the oldest node of the stack.
Frames ==
    /\ \A i, j \in Depth : i < j => Num[i] < Num[j]
    /\ \A i \in Depth : call[i].rest \subseteq adj[call[i].node]
    /\ call = << >> => scc_stack = << >>
    /\ call # << >> => \A x \in Stacked : Num[1] <= index[x]

\* Every edge of a visited node leads to a visited node or is still pending.
Explored == \A e \in E : e[1] \in Visited => e[2] \in Visited \/ Pending(e[1], e[2])

\* What low promises: an upper bound on the node's own number, and a lower bound for
\* the open frames on what the nodes they own can reach by one explored edge.
Lows ==
    /\ \A v \in Stacked : low[v] <= index[v]
    /\ \A i \in Depth : \A e \in E :
          e[1] \in Stacked /\ e[2] \in Stacked /\ Owner(i, e[1]) /\ ~Pending(e[1], e[2])
             => low[call[i].node] <= index[e[2]]

\* An open frame's node reaches everything stacked after it, and everything stacked
\* before the next frame's node reaches it.
Knit ==
    /\ \A i \in Depth : \A x \in Stacked : Num[i] <= index[x] => x \in R[call[i].node]
    /\ \A i \in Depth : \A x \in Stacked :
          (i < Len(call) => index[x] < Num[i + 1]) => call[i].node \in R[x]

\* Component ids are handed out without gaps, and nodes that share one reach each other.
Labelled ==
    /\ \A v \in Node : comp_id[v] # UNVISITED => v \in Visited /\ comp_id[v] \in Comp
    /\ \A c \in Comp : members(c) # {}
    /\ \A u, v \in Node : comp_id[u] # UNVISITED /\ comp_id[u] = comp_id[v] => v \in R[u]

Search == /\ Types /\ Numbered /\ StacksAgree /\ Frames /\ Explored /\ Lows
          /\ LowlinkReachable /\ Knit /\ Labelled /\ ReverseTopological

\* Kahn's loop starts from a complete search.
Phases == /\ phase = "tarjan" => plan = << >>
          /\ phase # "tarjan" => call = << >> /\ Visited = Node

\* What the in-degrees and the heap mean while the plan grows.
Emitted(c) == \E i \in 1..Len(plan) : plan[i] = members(c)
CompNodes == {members(c) : c \in Comp}
Heap ==
    phase # "tarjan" =>
        /\ cindeg \in [Comp -> Nat]
        /\ \A c \in Comp : cindeg[c] = Cardinality({d \in Comp : c \in cadj(d) /\ ~Emitted(d)})
        /\ ready = {c \in Comp : ~Emitted(c) /\ cindeg[c] = 0}
        /\ \A i \in 1..Len(plan) :
              /\ plan[i] \in ReadyAt(CompNodes, E, plan, i)
              /\ \A m \in ReadyAt(CompNodes, E, plan, i) : Least(plan[i]) <= Least(m)
        /\ phase = "done" => ready = {}

-----------------------------------------------------------------------------
\* There are finitely many nodes, and they are numbers.
LEMMA NodeFinite ==
    /\ Node \in SUBSET Nat /\ IsFiniteSet(Node) /\ Cardinality(Node) = N
    /\ \A S \in SUBSET Node : IsFiniteSet(S) /\ Cardinality(S) \in Nat /\ Cardinality(S) <= N
    /\ \A S \in SUBSET Node : S # {} => Least(S) \in S
<1>1. N \in Nat
  BY SccAssumption
<1>2. Node \in SUBSET Nat
  BY DEF Node
<1>3. IsFiniteSet(Node) /\ Cardinality(Node) = N
  BY <1>1, FS_Interval DEF Node
<1>4. \A S \in SUBSET Node : IsFiniteSet(S) /\ Cardinality(S) \in Nat /\ Cardinality(S) <= N
  BY <1>3, FS_Subset, FS_CardinalityType
<1>5. \A S \in SUBSET Node : S # {} => Least(S) \in S
  BY <1>2, LeastType
<1> QED
  BY <1>2, <1>3, <1>4, <1>5

\* Reachability in the graph at hand.
LEMMA Reaches ==
    /\ R \in [Node -> SUBSET Node]
    /\ \A u \in Node : u \in R[u]
    /\ \A u, v, w \in Node : v \in R[u] /\ <<v, w>> \in E => w \in R[u]
    /\ \A u, v, w \in Node : v \in R[u] /\ w \in R[v] => w \in R[u]
<1>1. E \in SUBSET (Node \X Node)
  BY DEF E
<1> QED
  BY <1>1, ReachableSteps DEF R

\* The graph does not change.
LEMMA GraphFixed ==
    ASSUME adj' = adj
    PROVE  E' = E /\ R' = R
BY DEF E, R

\* The top frame of a search in progress.
LEMMA TopFrame ==
    ASSUME Types, call # << >>
    PROVE  /\ Len(call) \in Nat \ {0} /\ Len(call) \in Depth
           /\ \A i \in Depth : call[i] \in Frame /\ call[i].node \in Node
                                  /\ call[i].rest \in SUBSET Node
           /\ Top = call[Len(call)]
           /\ Top \in Frame /\ Top.node \in Node /\ Top.rest \in SUBSET Node
<1>1. call \in Seq(Frame)
  BY DEF Types
<1>2. Len(call) \in Nat \ {0}
  BY <1>1, EmptySeq
<1>3. \A i \in Depth : call[i] \in Frame
  BY <1>1, ElementOfSeq DEF Depth
<1>4. \A f \in Frame : f.node \in Node /\ f.rest \in SUBSET Node
  BY DEF Frame
<1>5. Len(call) \in Depth /\ Top = call[Len(call)]
  BY <1>2 DEF Depth, Top
<1> HIDE DEF Depth
<1> QED
  BY <1>2, <1>3, <1>4, <1>5

\* The neighbour explored next is one that is left to explore.
LEMMA NeighbourType ==
    ASSUME Types, Exploring
    PROVE  Neighbour \in Top.rest /\ Neighbour \in Node
BY TopFrame, NodeFinite DEF Exploring, Neighbour

\* Taking a neighbour off the top frame changes nothing else.
LEMMA AdvancedFacts ==
    ASSUME Types, Exploring
    PROVE  /\ Advanced \in Seq(Frame) /\ Len(Advanced) = Len(call)
           /\ \A i \in Depth : Advanced[i].node = call[i].node
           /\ \A i \in Depth : i # Len(call) => Advanced[i].rest = call[i].rest
           /\ Advanced[Len(call)].rest = Top.rest \ {Neighbour}
<1> DEFINE f == [Top EXCEPT !.rest = @ \ {Neighbour}]
<1>1. call # << >> /\ call \in Seq(Frame)
  BY DEF Exploring, Types
<1>2. f \in Frame /\ f.node = Top.node /\ f.rest = Top.rest \ {Neighbour}
  BY <1>1, TopFrame DEF Frame
<1>3. Advanced = [call EXCEPT ![Len(call)] = f]
  BY DEF Advanced, SetTop
<1> HIDE DEF f
<1>4. Len(call) \in 1..Len(call) /\ Top = call[Len(call)] /\ Depth = 1..Len(call)
  BY <1>1, TopFrame DEF Depth
<1>5. /\ Advanced \in Seq(Frame) /\ Len(Advanced) = Len(call)
      /\ \A i \in 1..Len(call) : Advanced[i] = IF i = Len(call) THEN f ELSE call[i]
  BY <1>1, <1>2, <1>3, <1>4, ExceptSeq
<1> QED
  BY <1>2, <1>4, <1>5

-----------------------------------------------------------------------------
\* Stacked nodes are visited nodes without a component.
LEMMA StackFacts ==
    ASSUME Types, StacksAgree
    PROVE  /\ Len(scc_stack) \in Nat /\ Stacked \subseteq Visited /\ Visited \subseteq Node
           /\ \A i \in 1..Len(scc_stack) : scc_stack[i] \in Stacked
           /\ \A x \in Visited : index[x] \in Nat
           /\ \A x \in Node : x \in Stacked <=> x \in Visited /\ comp_id[x] = UNVISITED
           /\ \A i \in Depth : call[i].node \in Stacked /\ Num[i] \in Nat
<1>1. scc_stack \in Seq(Node) /\ Len(scc_stack) \in Nat /\ Stacked \subseteq Node
  BY DEF Types, Stacked
<1>2. \A x \in Node : x \in Stacked <=> x \in Visited /\ comp_id[x] = UNVISITED
  BY DEF StacksAgree, Visited
<1>3. \A x \in Visited : index[x] \in Nat
  BY DEF Types, Visited
<1>4. \A i \in Depth : call[i].node \in Stacked
  BY DEF StacksAgree, Depth
<1>5. \A i \in 1..Len(scc_stack) : scc_stack[i] \in Stacked
  BY DEF Stacked
<1>6. \A i \in Depth : Num[i] = index[call[i].node]
  BY DEF Num
<1> QED
  BY <1>1, <1>2, <1>3, <1>4, <1>5, <1>6 DEF Visited

\* What discovering v changes.
LEMMA DiscoverFacts ==
    ASSUME Types, StacksAgree, NEW v \in Node, index[v] = UNVISITED, NEW cs \in Seq(Frame),
           Discover(v, cs)
    PROVE  /\ Types'
           /\ E' = E /\ R' = R
           /\ \A x \in Node : index'[x] = IF x = v THEN next_index ELSE index[x]
           /\ \A x \in Node : low'[x] = IF x = v THEN next_index ELSE low[x]
           /\ v \notin Visited /\ Visited' = Visited \cup {v}
           /\ v \notin Stacked /\ Stacked' = Stacked \cup {v}
           /\ Len(scc_stack') = Len(scc_stack) + 1 /\ scc_stack'[Len(scc_stack) + 1] = v
           /\ \A i \in 1..Len(scc_stack) : scc_stack'[i] = scc_stack[i]
           /\ Len(call') = Len(cs) + 1 /\ Depth' = 1..(Len(cs) + 1) /\ Len(cs) \in Nat
           /\ \A i \in 1..Len(cs) : call'[i] = cs[i]
           /\ call'[Len(cs) + 1].node = v /\ call'[Len(cs) + 1].rest = adj[v]
           /\ next_index' = next_index + 1
<1> DEFINE f == [node |-> v, rest |-> adj[v]]
<1>1. /\ index' = [index EXCEPT ![v] = next_index] /\ low' = [low EXCEPT ![v] = next_index]
      /\ next_index' = next_index + 1 /\ scc_stack' = Append(scc_stack, v) /\ call' = Append(cs, f)
      /\ adj' = adj /\ comp_id' = comp_id /\ next_comp' = next_comp /\ plan' = plan /\ phase' = phase
  BY DEF Discover, kahnVars
<1>2. f \in Frame /\ f.node = v /\ f.rest = adj[v]
  BY DEF Frame, Types
<1> HIDE DEF f
<1>3. /\ call' \in Seq(Frame) /\ Len(call') = Len(cs) + 1 /\ Len(cs) \in Nat
      /\ \A i \in 1..Len(cs) : call'[i] = cs[i]
      /\ call'[Len(cs) + 1] = f
  BY <1>1, <1>2, AppendProperties, LenProperties
<1>4. /\ scc_stack' \in Seq(Node) /\ Len(scc_stack') = Len(scc_stack) + 1 /\ Len(scc_stack) \in Nat
      /\ \A i \in 1..Len(scc_stack) : scc_stack'[i] = scc_stack[i]
      /\ scc_stack'[Len(scc_stack) + 1] = v
  BY <1>1, AppendProperties, LenProperties DEF Types
<1>5. Types'
  BY <1>1, <1>3, <1>4 DEF Types, Node
<1>6. /\ \A x \in Node : index'[x] = IF x = v THEN next_index ELSE index[x]
      /\ \A x \in Node : low'[x] = IF x = v THEN next_index ELSE low[x]
  BY <1>1 DEF Types
<1>7. v \notin Visited /\ Visited' = Visited \cup {v}
  BY <1>6, SccAssumption DEF Visited, Types
<1>8. v \notin Stacked
  BY <1>7, StackFacts
<1>9. Stacked' = Stacked \cup {v}
  BY <1>4 DEF Stacked
<1>10. E' = E /\ R' = R
  BY <1>1, GraphFixed
<1>11. Depth' = 1..(Len(cs) + 1)
  BY <1>3 DEF Depth
<1> QED
  BY <1>1, <1>2, <1>3, <1>4, <1>5, <1>6, <1>7, <1>8, <1>9, <1>10, <1>11

\* Discovering v, from the top frame's node if there is one, keeps the invariant.
LEMMA OpenKeeps ==
    ASSUME Search, NEW v \in Node, index[v] = UNVISITED, NEW cs \in Seq(Frame),
           Len(cs) = Len(call),
           \A i \in Depth : cs[i].node = call[i].node /\ cs[i].rest \subseteq call[i].rest,
           \A i \in Depth : \A y \in call[i].rest : y \in cs[i].rest \/ y = v,
           call # << >> => <<Top.node, v>> \in E,
           Discover(v, cs)
    PROVE  Search'
<1> DEFINE k == Len(call)
<1>1. /\ Types /\ Numbered /\ StacksAgree /\ Frames /\ Explored /\ Lows
      /\ LowlinkReachable /\ Knit /\ Labelled /\ ReverseTopological
  BY DEF Search
<1>2. /\ Types' /\ E' = E /\ R' = R
      /\ \A x \in Node : index'[x] = IF x = v THEN next_index ELSE index[x]
      /\ \A x \in Node : low'[x] = IF x = v THEN next_index ELSE low[x]
      /\ v \notin Visited /\ Visited' = Visited \cup {v}
      /\ v \notin Stacked /\ Stacked' = Stacked \cup {v}
      /\ next_index' = next_index + 1
  BY <1>1, DiscoverFacts
<1>3. /\ Len(scc_stack') = Len(scc_stack) + 1 /\ scc_stack'[Len(scc_stack) + 1] = v
      /\ \A i \in 1..Len(scc_stack) : scc_stack'[i] = scc_stack[i]
  BY <1>1, DiscoverFacts
<1>4. /\ Len(call') = k + 1 /\ Depth' = 1..(k + 1) /\ Depth = 1..k /\ k \in Nat
      /\ \A i \in Depth : call'[i].node = call[i].node /\ call'[i].rest = cs[i].rest
      /\ call'[k + 1].node = v /\ call'[k + 1].rest = adj[v]
  BY <1>1, DiscoverFacts DEF Depth
<1>5. /\ Stacked \subseteq Visited /\ Visited \subseteq Node /\ Len(scc_stack) \in Nat
      /\ \A i \in 1..Len(scc_stack) : scc_stack[i] \in Stacked
      /\ \A x \in Visited : index[x] \in Nat /\ index[x] < next_index
      /\ \A i \in Depth : call[i].node \in Stacked /\ Num[i] \in Nat
      /\ next_index \in Nat
  BY <1>1, StackFacts DEF Numbered, Types
<1>6. /\ adj' = adj /\ comp_id' = comp_id /\ next_comp' = next_comp
  BY DEF Discover
<1>7. /\ \A x \in Visited : index'[x] = index[x] /\ low'[x] = low[x]
      /\ index'[v] = next_index /\ low'[v] = next_index
  BY <1>2, <1>5
<1>8. /\ \A i \in Depth : Num'[i] = Num[i] /\ i \in Depth' /\ Num[i] < next_index
      /\ Num'[k + 1] = next_index /\ k + 1 \in Depth'
      /\ \A i \in Depth' : i \in Depth \/ i = k + 1
      /\ Depth' = 1..Len(call')
  <2>1. \A i \in Depth : i \in Depth'
    BY <1>4
  <2>2. k + 1 \in Depth' /\ \A i \in Depth' : i \in Depth \/ i = k + 1
    BY <1>4
  <2>3. \A i \in Depth' : Num'[i] = index'[call'[i].node]
    BY DEF Num
  <2>4. \A i \in Depth : Num[i] = index[call[i].node]
    BY DEF Num
  <2> HIDE DEF k
  <2> QED
    BY <1>4, <1>5, <1>7, <2>1, <2>2, <2>3, <2>4 DEF Depth
<1> HIDE DEF k
<1>9. Numbered'
  <2>1. IsFiniteSet(Visited) /\ Cardinality(Visited) = next_index
    BY <1>1, <1>5, NodeFinite DEF Numbered
  <2>2. Cardinality(Visited') = next_index + 1
    BY <1>2, <2>1, FS_AddElement
  <2>3. \A x \in Visited' : index'[x] < next_index'
    BY <1>2, <1>5, <1>7
  <2>4. \A x, y \in Visited' : index'[x] = index'[y] => x = y
    BY <1>1, <1>2, <1>5, <1>7 DEF Numbered
  <2> QED
    BY <1>2, <2>2, <2>3, <2>4 DEF Numbered
<1>10. StacksAgree'
  <2>1. \A x \in Node : x \in Stacked' <=> index'[x] # UNVISITED /\ comp_id'[x] = UNVISITED
    <3>1. comp_id[v] = UNVISITED
      BY <1>1, <1>2 DEF Labelled
    <3>2. next_index # UNVISITED
      BY <1>5, SccAssumption
    <3> QED
      BY <1>1, <1>2, <1>6, <1>7, <3>1, <3>2 DEF StacksAgree
  <2>2. \A i, j \in 1..Len(scc_stack') : i < j => index'[scc_stack'[i]] < index'[scc_stack'[j]]
    BY <1>1, <1>3, <1>5, <1>7 DEF StacksAgree
  <2>3. \A i \in 1..Len(call') : call'[i].node \in Stacked'
    BY <1>2, <1>4, <1>5, <1>8
  <2> QED
    BY <2>1, <2>2, <2>3 DEF StacksAgree
<1>11. Frames'
  <2>1. \A i, j \in Depth' : i < j => Num'[i] < Num'[j]
    BY <1>1, <1>4, <1>8 DEF Frames
  <2>2. \A i \in Depth' : call'[i].rest \subseteq adj'[call'[i].node]
    BY <1>1, <1>4, <1>6, <1>8 DEF Frames
  <2>3. call' # << >>
    BY <1>4
  <2>4. \A x \in Stacked' : Num'[1] <= index'[x]
    <3>1. CASE call = << >>
      <4>1. Stacked' = {v}
        BY <1>1, <1>2, <3>1 DEF Frames, Stacked
      <4>2. k = 0
        BY <3>1 DEF k
      <4> QED
        BY <1>5, <1>7, <1>8, <4>1, <4>2
    <3>2. CASE call # << >>
      <4>1. 1 \in Depth
        BY <1>1, <1>4, <3>2, TopFrame DEF k
      <4> QED
        BY <1>1, <1>2, <1>5, <1>7, <1>8, <3>2, <4>1 DEF Frames
    <3> QED
      BY <3>1, <3>2
  <2> QED
    BY <2>1, <2>2, <2>3, <2>4 DEF Frames
<1>12. ASSUME NEW x \in Node, NEW y \in Node
       PROVE  Pending(x, y) => Pending(x, y)' \/ y = v
  BY <1>4, <1>8 DEF Pending
<1>13. Explored'
  <2> SUFFICES ASSUME NEW e \in E, e[1] \in Visited', e[2] \notin Visited'
               PROVE  Pending(e[1], e[2])'
    BY <1>2 DEF Explored
  <2>1. e[1] \in Node /\ e[2] \in Node /\ e[2] \in adj[e[1]]
    BY DEF E
  <2>2. CASE e[1] = v
    BY <1>4, <1>8, <2>1, <2>2 DEF Pending
  <2>3. CASE e[1] \in Visited
    BY <1>1, <1>2, <1>12, <2>1, <2>3 DEF Explored
  <2> QED
    BY <1>2, <2>2, <2>3
<1>14. Lows'
  <2>1. \A x \in Stacked' : low'[x] <= index'[x]
    BY <1>1, <1>2, <1>5, <1>7 DEF Lows
  <2>2. ASSUME NEW i \in Depth', NEW e \in E, e[1] \in Stacked', e[2] \in Stacked',
               Owner(i, e[1])', ~Pending(e[1], e[2])'
        PROVE  low'[call'[i].node] <= index'[e[2]]
    <3>1. e[1] \in Node /\ e[2] \in Node /\ e[2] \in adj[e[1]]
      BY DEF E
    <3>2. CASE i = k + 1
      <4>1. e[1] = v
        BY <1>2, <1>5, <1>7, <1>8, <2>2, <3>2 DEF Owner
      <4> QED
        BY <1>4, <1>8, <2>2, <3>1, <4>1 DEF Pending
    <3>3. CASE i \in Depth /\ e[2] = v
      <4>1. call[i].node \in Stacked /\ low[call[i].node] <= Num[i] /\ low[call[i].node] \in Nat
        BY <1>1, <1>5, <3>3 DEF Lows, Num, Types
      <4> QED
        BY <1>4, <1>5, <1>7, <1>8, <3>3, <4>1
    <3>4. CASE i \in Depth /\ e[2] # v
      <4>1. e[1] \in Stacked /\ e[2] \in Stacked
        <5>1. e[1] # v
          BY <1>1, <1>4, <1>8, <2>2, <3>1, <3>4 DEF Pending
        <5> QED
          BY <1>2, <2>2, <3>4, <5>1
      <4>2. Owner(i, e[1])
        <5>1. Num[i] <= index[e[1]]
          BY <1>5, <1>7, <1>8, <2>2, <3>4, <4>1 DEF Owner
        <5>2. ASSUME i < Len(call)
              PROVE  index[e[1]] < Num[i + 1]
          <6>1. i + 1 \in Depth /\ i < Len(call')
            BY <1>4, <3>4, <5>2 DEF k
          <6> QED
            BY <1>5, <1>7, <1>8, <2>2, <4>1, <6>1 DEF Owner
        <5> QED
          BY <5>1, <5>2 DEF Owner
      <4>3. ~Pending(e[1], e[2])
        BY <1>12, <2>2, <3>1, <3>4
      <4> QED
        BY <1>1, <1>4, <1>5, <1>7, <3>4, <4>1, <4>2, <4>3 DEF Lows
    <3> QED
      BY <1>8, <3>2, <3>3, <3>4
  <2> QED
    BY <1>2, <2>1, <2>2 DEF Lows
<1>15. LowlinkReachable'
  <2>1. LowlinkReachable <=> \A x \in Stacked : \E u \in Stacked : index[u] = low[x] /\ u \in R[x]
    BY DEF LowlinkReachable, R
  <2>2. LowlinkReachable' <=> \A x \in Stacked' : \E u \in Stacked' : index'[u] = low'[x] /\ u \in R'[x]
    BY DEF LowlinkReachable, R
  <2> QED
    BY <1>1, <1>2, <1>5, <1>7, <2>1, <2>2, Reaches
<1>16. Knit'
  <2>1. call # << >> => k \in Depth /\ <<call[k].node, v>> \in E
    BY <1>1, <1>4, TopFrame DEF k, Top
  <2>2. Depth # {} => call # << >>
    BY <1>4 DEF k
  <2>3. ASSUME NEW i \in Depth', NEW x \in Stacked', Num'[i] <= index'[x]
        PROVE  x \in R[call'[i].node]
    <3>1. CASE i = k + 1
      BY <1>2, <1>4, <1>5, <1>7, <1>8, <2>3, <3>1, Reaches
    <3>2. CASE i \in Depth /\ x \in Stacked
      BY <1>1, <1>4, <1>5, <1>7, <1>8, <2>3, <3>2 DEF Knit
    <3>3. CASE i \in Depth /\ x = v
      <4>1. k \in Depth /\ <<call[k].node, v>> \in E /\ call[k].node \in Stacked
        BY <1>5, <2>1, <2>2, <3>3
      <4>2. Num[i] <= Num[k]
        BY <1>1, <1>4, <1>5, <3>3, <4>1 DEF Frames
      <4>3. call[k].node \in R[call[i].node]
        BY <1>1, <3>3, <4>1, <4>2 DEF Knit, Num
      <4> QED
        BY <1>4, <1>5, <3>3, <4>1, <4>3, Reaches
    <3> QED
      BY <1>2, <1>8, <3>1, <3>2, <3>3
  <2>4. ASSUME NEW i \in Depth', NEW x \in Stacked', i < Len(call') => index'[x] < Num'[i + 1]
        PROVE  call'[i].node \in R[x]
    <3>1. CASE i = k + 1 /\ x = v
      BY <1>4, <3>1, Reaches
    <3>2. CASE i = k + 1 /\ x \in Stacked
      <4>1. k \in Depth /\ <<call[k].node, v>> \in E /\ call[k].node \in Stacked
        <5>1. call # << >>
          BY <1>1, <3>2 DEF Frames, Stacked
        <5> QED
          BY <1>5, <2>1, <5>1
      <4>2. call[k].node \in R[x]
        BY <1>1, <3>2, <4>1 DEF Knit, k
      <4> QED
        BY <1>4, <1>5, <3>2, <4>1, <4>2, Reaches
    <3>3. CASE i \in Depth /\ x = v
      <4>1. i < Len(call') /\ i + 1 \in Depth'
        BY <1>4, <3>3
      <4>2. Num'[i + 1] <= next_index
        BY <1>8, <4>1, <1>5
      <4>3. Num'[i + 1] \in Nat
        BY <1>5, <1>8, <4>1
      <4> QED
        BY <1>5, <1>7, <2>4, <3>3, <4>1, <4>2, <4>3
    <3>4. CASE i \in Depth /\ x \in Stacked
      <4>1. i < Len(call) => i + 1 \in Depth /\ i < Len(call') /\ index[x] < Num[i + 1]
        BY <1>4, <1>5, <1>7, <1>8, <2>4, <3>4 DEF k
      <4> QED
        BY <1>1, <1>4, <3>4, <4>1 DEF Knit
    <3> QED
      BY <1>2, <1>8, <3>1, <3>2, <3>3, <3>4
  <2> QED
    BY <1>2, <2>3, <2>4 DEF Knit
<1>17. Labelled' /\ ReverseTopological'
  BY <1>1, <1>2, <1>6 DEF Labelled, ReverseTopological, Comp, members
<1> QED
  BY <1>2, <1>9, <1>10, <1>11, <1>13, <1>14, <1>15, <1>16, <1>17 DEF Search

\* An edge to a visited node may lower the top frame's lowlink, and nothing else.
LEMMA RevisitKeeps ==
    ASSUME Search, Revisit
    PROVE  Search'
<1> DEFINE k == Len(call)
           t == Top.node
           w == Neighbour
<1>1. /\ Types /\ Numbered /\ StacksAgree /\ Frames /\ Explored /\ Lows
      /\ LowlinkReachable /\ Knit /\ Labelled /\ ReverseTopological
  BY DEF Search
<1>2. Exploring /\ call # << >> /\ index[w] # UNVISITED
  BY DEF Revisit, Exploring
<1>3. /\ adj' = adj /\ index' = index /\ comp_id' = comp_id /\ scc_stack' = scc_stack
      /\ next_index' = next_index /\ next_comp' = next_comp /\ plan' = plan /\ phase' = phase
      /\ call' = Advanced
      /\ low' = [low EXCEPT ![t] = IF on_stack(w) THEN Lesser(@, index[w]) ELSE @]
  BY DEF Revisit, kahnVars
<1>4. /\ E' = E /\ R' = R /\ Visited' = Visited /\ Stacked' = Stacked
  BY <1>3, GraphFixed DEF Visited, Stacked
<1>5. /\ k \in Depth /\ k \in Nat /\ Depth = 1..k /\ Top = call[k]
      /\ w \in Top.rest /\ w \in Node /\ w \in Visited /\ t \in Node
      /\ Top.rest \subseteq adj[t] /\ <<t, w>> \in E
  <2>1. k \in Depth /\ k \in Nat /\ Depth = 1..k /\ Top = call[k] /\ t \in Node
    BY <1>1, <1>2, TopFrame DEF Depth
  <2>2. w \in Top.rest /\ w \in Node /\ w \in Visited
    BY <1>1, <1>2, NeighbourType DEF Visited
  <2>3. Top.rest \subseteq adj[t]
    BY <1>1, <2>1 DEF Frames
  <2> QED
    BY <2>1, <2>2, <2>3 DEF E
<1>6. /\ call' \in Seq(Frame) /\ Len(call') = k /\ Depth' = Depth
      /\ \A i \in Depth : call'[i].node = call[i].node
      /\ \A i \in Depth : i # k => call'[i].rest = call[i].rest
      /\ call'[k].rest = Top.rest \ {w}
  BY <1>1, <1>2, <1>3, AdvancedFacts DEF Depth
<1>7. /\ Stacked \subseteq Visited /\ Visited \subseteq Node
      /\ \A x \in Visited : index[x] \in Nat
      /\ \A i \in Depth : call[i].node \in Stacked /\ Num[i] \in Nat
      /\ t \in Stacked /\ t \in Visited
  <2>1. /\ Stacked \subseteq Visited /\ Visited \subseteq Node
        /\ \A x \in Visited : index[x] \in Nat
        /\ \A i \in Depth : call[i].node \in Stacked /\ Num[i] \in Nat
    BY <1>1, StackFacts
  <2> QED
    BY <1>5, <2>1
<1>8. Num' = Num
  BY <1>3, <1>6 DEF Num
<1> HIDE DEF k, t, w
<1>9. /\ low' \in [Node -> Nat] /\ \A x \in Node : x # t => low'[x] = low[x]
      /\ \A x \in Node : low'[x] <= low[x]
      /\ w \in Stacked => low'[t] <= index[w]
      /\ low'[t] = low[t] \/ (w \in Stacked /\ low'[t] = index[w])
  <2>1. \A x \in Node : low[x] \in Nat
    BY <1>1 DEF Types
  <2>2. low' = [low EXCEPT ![t] = IF w \in Stacked THEN (IF low[t] < index[w] THEN low[t] ELSE index[w])
                                  ELSE low[t]]
    BY <1>3 DEF on_stack, Lesser
  <2>3. index[w] \in Nat
    BY <1>5, <1>7
  <2> QED
    BY <1>1, <1>5, <2>1, <2>2, <2>3 DEF Types
<1>10. Types'
  BY <1>1, <1>3, <1>6, <1>9 DEF Types
<1>11. Numbered' /\ StacksAgree' /\ Labelled' /\ ReverseTopological'
  <2>1. Numbered'
    BY <1>1, <1>3, <1>4 DEF Numbered
  <2>2. Labelled' /\ ReverseTopological'
    BY <1>1, <1>3, <1>4 DEF Labelled, ReverseTopological, Comp, members
  <2>3. \A i \in 1..Len(call') : call'[i].node \in Stacked'
    BY <1>4, <1>5, <1>6, <1>7
  <2>4. StacksAgree'
    BY <1>1, <1>3, <1>4, <2>3 DEF StacksAgree
  <2> QED
    BY <2>1, <2>2, <2>4
<1>12. Frames'
  <2>1. \A i \in Depth : call'[i].rest \subseteq adj[call[i].node]
    BY <1>1, <1>5, <1>6 DEF Frames
  <2>2. call' # << >>
    BY <1>5, <1>6
  <2> QED
    BY <1>1, <1>2, <1>3, <1>4, <1>6, <1>8, <2>1, <2>2 DEF Frames
<1>13. ASSUME NEW x \in Node, NEW y \in Node
       PROVE  Pending(x, y) => Pending(x, y)' \/ (x = t /\ y = w)
  BY <1>5, <1>6 DEF Pending, t
<1>14. Explored'
  <2> SUFFICES ASSUME NEW e \in E, e[1] \in Visited, e[2] \notin Visited
               PROVE  Pending(e[1], e[2])'
    BY <1>4 DEF Explored
  <2>1. e[1] \in Node /\ e[2] \in Node /\ e[2] # w
    BY <1>5 DEF E
  <2> QED
    BY <1>1, <1>13, <2>1 DEF Explored
<1>15. Lows'
  <2>1. \A x \in Stacked : low'[x] <= index[x]
    BY <1>1, <1>7, <1>9 DEF Lows, Types
  <2>2. ASSUME NEW i \in Depth, NEW e \in E, e[1] \in Stacked, e[2] \in Stacked,
               Owner(i, e[1])', ~Pending(e[1], e[2])'
        PROVE  low'[call[i].node] <= index[e[2]]
    <3>1. e[1] \in Node /\ e[2] \in Node
      BY DEF E
    <3>2. Owner(i, e[1])
      BY <1>3, <1>6, <1>8, <2>2 DEF Owner, k
    <3>3. CASE Pending(e[1], e[2])
      <4>1. e[1] = t /\ e[2] = w
        BY <1>13, <2>2, <3>1, <3>3
      <4>2. i = k
        <5>1. Num[k] = index[t]
          BY <1>5 DEF Num, t
        <5>2. i < k => i + 1 \in Depth /\ index[t] < Num[i + 1] /\ Num[i + 1] <= Num[k]
          BY <1>1, <1>5, <1>7, <3>2, <4>1 DEF Owner, k, Frames
        <5> QED
          BY <1>5, <1>7, <5>1, <5>2
      <4> QED
        BY <1>5, <1>9, <2>2, <4>1, <4>2 DEF t
    <3>4. CASE ~Pending(e[1], e[2])
      <4>1. low[call[i].node] <= index[e[2]] /\ call[i].node \in Node
        BY <1>1, <1>7, <2>2, <3>2, <3>4 DEF Lows
      <4>2. low'[call[i].node] \in Nat /\ low[call[i].node] \in Nat /\ index[e[2]] \in Nat
        BY <1>1, <1>7, <1>9, <2>2, <4>1 DEF Types
      <4> QED
        BY <1>9, <4>1, <4>2
    <3> QED
      BY <3>3, <3>4
  <2> QED
    BY <1>3, <1>4, <1>6, <2>1, <2>2 DEF Lows
<1>16. LowlinkReachable'
  <2>1. LowlinkReachable <=> \A x \in Stacked : \E u \in Stacked : index[u] = low[x] /\ u \in R[x]
    BY DEF LowlinkReachable, R
  <2>2. LowlinkReachable' <=> \A x \in Stacked' : \E u \in Stacked' : index'[u] = low'[x] /\ u \in R'[x]
    BY DEF LowlinkReachable, R
  <2>3. w \in R[t]
    BY <1>5, Reaches
  <2> QED
    BY <1>1, <1>3, <1>4, <1>7, <1>9, <2>1, <2>2, <2>3
<1>17. Knit'
  BY <1>1, <1>3, <1>4, <1>6, <1>8 DEF Knit, k
<1> QED
  BY <1>10, <1>11, <1>12, <1>14, <1>15, <1>16, <1>17 DEF Search

\* The place of v on the component stack: what is below was discovered before v.
LEMMA SccBaseFacts ==
    ASSUME Types, StacksAgree, NEW v \in Stacked
    PROVE  /\ SccBase(v) \in 1..Len(scc_stack)
           /\ \A i \in 1..Len(scc_stack) : i < SccBase(v) <=> index[scc_stack[i]] < index[v]
<1> DEFINE S == {i \in 1..Len(scc_stack) : scc_stack[i] = v}
<1>1. Len(scc_stack) \in Nat /\ \A i \in 1..Len(scc_stack) : index[scc_stack[i]] \in Nat
  BY StackFacts
<1>2. S \in SUBSET Nat /\ S # {}
  BY <1>1 DEF Stacked
<1>3. Least(S) \in S
  BY <1>2, LeastType
<1>4. SccBase(v) = Least(S)
  BY DEF SccBase
<1>5. SccBase(v) \in 1..Len(scc_stack) /\ scc_stack[SccBase(v)] = v
  BY <1>3, <1>4
<1>6. \A i, j \in 1..Len(scc_stack) : i < j => index[scc_stack[i]] < index[scc_stack[j]]
  BY DEF StacksAgree
<1> QED
  BY <1>1, <1>5, <1>6

\* Returning from a frame: what the call stack becomes.
LEMMA ReturnFacts ==
    ASSUME Search, Finish
    PROVE  /\ call # << >> /\ Top.rest = {} /\ phase = "tarjan"
           /\ call' \in Seq(Frame) /\ Len(call') = Len(call) - 1 /\ Depth' = 1..(Len(call) - 1)
           /\ \A i \in Depth' : i \in Depth /\ call'[i] = call[i] /\ Num[i] < Num[Len(call)]
           /\ Num[Len(call)] = index[Top.node] /\ Top.node \in Stacked
           /\ adj' = adj /\ index' = index /\ next_index' = next_index /\ plan' = plan /\ phase' = phase
           /\ E' = E /\ R' = R /\ Visited' = Visited
           /\ Num' \in [Depth' -> Nat] /\ \A i \in Depth' : Num'[i] = Num[i]
<1> DEFINE k == Len(call)
<1>1. Types /\ Frames /\ StacksAgree
  BY DEF Search
<1>2. /\ call # << >> /\ Top.rest = {} /\ phase = "tarjan"
      /\ call' = SubSeq(call, 1, k - 1)
      /\ adj' = adj /\ index' = index /\ next_index' = next_index /\ plan' = plan /\ phase' = phase
  BY DEF Finish, kahnVars
<1>3. k \in Nat \ {0} /\ k \in Depth /\ Depth = 1..k /\ Top = call[k]
  BY <1>1, <1>2, TopFrame DEF Depth
<1>4. \A i \in 1..(k - 1) : call[i] \in Frame
  BY <1>1, <1>2, <1>3, TopFrame
<1>5. /\ call' \in Seq(Frame) /\ Len(call') = k - 1
      /\ \A i \in 1..(k - 1) : call'[i] = call[i]
  <2> HIDE DEF k
  <2>1. k - 1 \in Int /\ (1 <= k - 1 \/ k - 1 = 0)
    BY <1>3
  <2>2. /\ SubSeq(call, 1, k - 1) \in Seq(Frame)
        /\ Len(SubSeq(call, 1, k - 1)) = IF 1 <= k - 1 THEN (k - 1) - 1 + 1 ELSE 0
        /\ \A i \in 1..((k - 1) - 1 + 1) : SubSeq(call, 1, k - 1)[i] = call[1 + i - 1]
    BY <1>4, <2>1, SubSeqProperties
  <2>3. /\ (k - 1) - 1 + 1 = k - 1
        /\ \A i \in 1..(k - 1) : 1 + i - 1 = i
    BY <1>3
  <2> QED
    BY <1>2, <1>3, <2>1, <2>2, <2>3
<1>6. Depth' = 1..(k - 1) /\ \A i \in Depth' : i \in Depth /\ i < k
  BY <1>3, <1>5 DEF Depth
<1>7. \A i \in Depth : Num[i] \in Nat /\ Num[i] = index[call[i].node] /\ call[i].node \in Stacked
  BY <1>1, StackFacts DEF Num
<1>8. Num' = [i \in Depth' |-> index[call'[i].node]]
  BY <1>2 DEF Num
<1> HIDE DEF k
<1>9. \A i \in Depth' : Num'[i] = Num[i] /\ Num[i] \in Nat
  BY <1>5, <1>6, <1>7, <1>8
<1>10. Num' \in [Depth' -> Nat]
  BY <1>8, <1>9
<1>11. \A i \in Depth' : Num[i] < Num[k]
  BY <1>1, <1>3, <1>6 DEF Frames
<1>12. E' = E /\ R' = R /\ Visited' = Visited
  BY <1>2, GraphFixed DEF Visited
<1> QED
  BY <1>2, <1>3, <1>5, <1>6, <1>7, <1>9, <1>10, <1>11, <1>12 DEF k

\* When the root of a component returns, exactly the nodes stacked since are labelled.
LEMMA RootFacts ==
    ASSUME Search, Finish, low[Top.node] = index[Top.node]
    PROVE  /\ Types' /\ low' = low
           /\ next_comp' = next_comp + 1
           /\ Stacked' = {x \in Stacked : index[x] < index[Top.node]}
           /\ \A x \in Node : comp_id'[x] = IF x \in Stacked \ Stacked' THEN next_comp ELSE comp_id[x]
           /\ Len(scc_stack') \in 0..Len(scc_stack)
           /\ \A i \in 1..Len(scc_stack') : scc_stack'[i] = scc_stack[i]
<1> DEFINE v == Top.node
           base == SccBase(v)
           scc == {scc_stack[i] : i \in base..Len(scc_stack)}
<1>1. Types /\ Frames /\ StacksAgree /\ Lows
  BY DEF Search
<1>2. /\ call' \in Seq(Frame) /\ adj' = adj /\ index' = index /\ next_index' = next_index
      /\ plan' = plan /\ phase' = phase /\ v \in Stacked
  BY ReturnFacts
<1>3. /\ comp_id' = [x \in Node |-> IF x \in scc THEN next_comp ELSE comp_id[x]]
      /\ scc_stack' = SubSeq(scc_stack, 1, base - 1)
      /\ next_comp' = next_comp + 1
      /\ low' = IF Len(call) = 1 THEN low
                ELSE [low EXCEPT ![call[Len(call) - 1].node] = Lesser(@, low[v])]
  BY DEF Finish
<1>4. /\ base \in 1..Len(scc_stack) /\ Len(scc_stack) \in Nat
      /\ \A i \in 1..Len(scc_stack) : i < base <=> index[scc_stack[i]] < index[v]
  BY <1>1, <1>2, SccBaseFacts, StackFacts
<1>5. \A x \in Visited : index[x] \in Nat
  BY <1>1, StackFacts
<1> HIDE DEF v, base
<1>6. \A i \in 1..(base - 1) : scc_stack[i] \in Node
  BY <1>1, <1>4, StackFacts
<1>7. /\ scc_stack' \in Seq(Node) /\ Len(scc_stack') = base - 1
      /\ \A i \in 1..(base - 1) : scc_stack'[i] = scc_stack[i]
  BY <1>3, <1>4, <1>6, SubSeqProperties
<1>8. Stacked' = {x \in Stacked : index[x] < index[v]}
  <2>1. Stacked' = {scc_stack[i] : i \in 1..(base - 1)}
    BY <1>7 DEF Stacked
  <2>2. ASSUME NEW i \in 1..(base - 1)
        PROVE  scc_stack[i] \in Stacked /\ index[scc_stack[i]] < index[v]
    BY <1>4 DEF Stacked
  <2>3. ASSUME NEW x \in Stacked, index[x] < index[v]
        PROVE  \E i \in 1..(base - 1) : x = scc_stack[i]
    <3>1. PICK i \in 1..Len(scc_stack) : x = scc_stack[i]
      BY DEF Stacked
    <3> QED
      BY <1>4, <2>3, <3>1
  <2> QED
    BY <2>1, <2>2, <2>3
<1>9. scc = Stacked \ Stacked'
  BY <1>4, <1>8 DEF Stacked
<1>10. low' = low
  <2>1. CASE Len(call) = 1
    BY <1>3, <2>1
  <2>2. CASE Len(call) # 1
    <3> DEFINE p == call[Len(call) - 1].node
    <3>1. Len(call) - 1 \in Depth' /\ Len(call) \in Nat
      BY <1>1, <2>2, ReturnFacts, TopFrame
    <3>2. Num[Len(call) - 1] < Num[Len(call)] /\ Len(call) - 1 \in Depth
      BY <3>1, ReturnFacts
    <3>3. p \in Stacked /\ Num[Len(call) - 1] = index[p] /\ Num[Len(call)] = index[v]
      BY <1>1, <3>2, StackFacts, ReturnFacts DEF Num, v
    <3>4. low[p] <= index[p] /\ low[p] \in Nat /\ index[p] \in Nat /\ index[v] \in Nat /\ p \in Node
      BY <1>1, <1>2, <3>3, StackFacts DEF Lows, Types, v
    <3>5. low[p] < low[v]
      BY <3>2, <3>3, <3>4 DEF v
    <3> HIDE DEF p
    <3>6. low' = [low EXCEPT ![p] = low[p]]
      BY <1>3, <2>2, <3>5 DEF Lesser, p
    <3> QED
      BY <1>1, <3>6 DEF Types
  <2> QED
    BY <2>1, <2>2
<1> HIDE DEF scc
<1>11. Types'
  <2>1. comp_id' \in [Node -> Nat \cup {UNVISITED}] /\ next_comp' \in Nat
    BY <1>1, <1>3 DEF Types
  <2> QED
    BY <1>1, <1>2, <1>7, <1>10, <2>1 DEF Types
<1> QED
  BY <1>3, <1>4, <1>7, <1>8, <1>9, <1>10, <1>11 DEF v

\* A frame that returns has nothing left to explore, so what is pending stays pending.
LEMMA ReturnPending ==
    ASSUME Search, Finish
    PROVE  /\ \A x, y \in Node : Pending(x, y)' <=> Pending(x, y)
           /\ \A x \in Stacked, y \in Node : Num[Len(call)] <= index[x] => ~Pending(x, y)
<1> DEFINE k == Len(call)
<1>1. /\ Types /\ call # << >> /\ Top.rest = {} /\ Len(call') = k - 1 /\ Depth' = 1..(k - 1)
      /\ \A i \in Depth' : i \in Depth /\ call'[i] = call[i] /\ Num[i] < Num[k]
      /\ \A i \in Depth : Num[i] \in Nat /\ Num[i] = index[call[i].node]
      /\ Types /\ StacksAgree
  BY ReturnFacts, StackFacts DEF Search, Num
<1>2. k \in Nat \ {0} /\ k \in Depth /\ Depth = 1..k /\ call[k].rest = {}
  BY <1>1, TopFrame DEF Depth
<1> HIDE DEF k
<1>3. \A i \in Depth : i = k \/ i \in Depth'
  BY <1>1, <1>2
<1>4. ASSUME NEW x \in Node, NEW y \in Node
      PROVE  Pending(x, y)' <=> Pending(x, y)
  BY <1>1, <1>2, <1>3 DEF Pending
<1>5. ASSUME NEW x \in Stacked, NEW y \in Node, Num[k] <= index[x]
      PROVE  ~Pending(x, y)
  <2> SUFFICES ASSUME NEW i \in Depth, call[i].node = x, y \in call[i].rest
               PROVE  FALSE
    BY DEF Pending
  <2>1. i \in Depth'
    BY <1>2, <1>3
  <2>2. Num[i] = index[x] /\ Num[i] < Num[k] /\ Num[i] \in Nat /\ Num[k] \in Nat
    BY <1>1, <1>2, <2>1
  <2> QED
    BY <1>5, <2>2
<1> QED
  BY <1>4, <1>5 DEF k

\* Closing the component whose root returns keeps the invariant.
LEMMA FinishRootKeeps ==
    ASSUME Search, Finish, low[Top.node] = index[Top.node]
    PROVE  Search'
<1> DEFINE k == Len(call)
           v == Top.node
<1>1. /\ Types /\ Numbered /\ StacksAgree /\ Frames /\ Explored /\ Lows
      /\ LowlinkReachable /\ Knit /\ Labelled /\ ReverseTopological
  BY DEF Search
<1>2. /\ call # << >> /\ Top.rest = {}
      /\ call' \in Seq(Frame) /\ Len(call') = k - 1 /\ Depth' = 1..(k - 1)
      /\ \A i \in Depth' : i \in Depth /\ call'[i] = call[i] /\ Num[i] < Num[k]
      /\ Num[k] = index[v] /\ v \in Stacked
  BY ReturnFacts
<1>3. /\ adj' = adj /\ index' = index /\ next_index' = next_index
      /\ E' = E /\ R' = R /\ Visited' = Visited
      /\ Num' \in [Depth' -> Nat] /\ \A i \in Depth' : Num'[i] = Num[i]
  BY ReturnFacts
<1>4. /\ Types' /\ low' = low /\ next_comp' = next_comp + 1
      /\ Stacked' = {x \in Stacked : index[x] < index[v]}
      /\ \A x \in Node : comp_id'[x] = IF x \in Stacked \ Stacked' THEN next_comp ELSE comp_id[x]
      /\ Len(scc_stack') \in 0..Len(scc_stack)
      /\ \A i \in 1..Len(scc_stack') : scc_stack'[i] = scc_stack[i]
  BY RootFacts
<1>5. /\ Stacked \subseteq Visited /\ Visited \subseteq Node /\ Len(scc_stack) \in Nat
      /\ \A i \in 1..Len(scc_stack) : scc_stack[i] \in Stacked
      /\ \A x \in Visited : index[x] \in Nat
      /\ \A x \in Node : x \in Stacked <=> x \in Visited /\ comp_id[x] = UNVISITED
      /\ \A i \in Depth : call[i].node \in Stacked /\ Num[i] \in Nat /\ Num[i] = index[call[i].node]
  BY <1>1, StackFacts DEF Num
<1>6. k \in Nat \ {0} /\ k \in Depth /\ Depth = 1..k /\ call[k].node = v /\ v \in Node
  BY <1>1, <1>2, TopFrame DEF Depth
<1>7. /\ \A x, y \in Node : Pending(x, y)' <=> Pending(x, y)
      /\ \A x \in Stacked, y \in Node : Num[k] <= index[x] => ~Pending(x, y)
  BY ReturnPending
<1>8. \A i \in Depth' : call'[i].node \in Stacked'
  <2> HIDE DEF k, v
  <2>1. ASSUME NEW i \in Depth'
        PROVE  call[i].node \in Stacked /\ index[call[i].node] < index[v]
    <3>1. i \in Depth /\ Num[i] < Num[k]
      BY <1>2
    <3> QED
      BY <1>2, <1>5, <3>1
  <2> QED
    BY <1>2, <1>4, <2>1
<1>9. next_comp \in Nat /\ next_comp # UNVISITED
  BY <1>1, SccAssumption DEF Types
<1> HIDE DEF k, v
<1>10. Numbered'
  BY <1>1, <1>3 DEF Numbered
<1>11. StacksAgree'
  <2>1. \A x \in Node : x \in Stacked' <=> index'[x] # UNVISITED /\ comp_id'[x] = UNVISITED
    BY <1>3, <1>4, <1>5, <1>9 DEF Visited
  <2>2. \A i, j \in 1..Len(scc_stack') : i < j => index'[scc_stack'[i]] < index'[scc_stack'[j]]
    BY <1>1, <1>3, <1>4, <1>5 DEF StacksAgree
  <2>3. Depth' = 1..Len(call')
    BY DEF Depth
  <2> QED
    BY <1>8, <2>1, <2>2, <2>3 DEF StacksAgree
<1>12. Frames'
  <2>1. \A i, j \in Depth' : i < j => Num'[i] < Num'[j]
    BY <1>1, <1>2, <1>3 DEF Frames
  <2>2. \A i \in Depth' : call'[i].rest \subseteq adj'[call'[i].node]
    BY <1>1, <1>2, <1>3 DEF Frames
  <2>3. \A x \in Stacked : Num[1] <= index[x]
    BY <1>1, <1>2 DEF Frames
  <2>4. call' = << >> => scc_stack' = << >>
    <3> SUFFICES ASSUME call' = << >> PROVE scc_stack' = << >>
      OBVIOUS
    <3>1. k = 1
      BY <1>2, <1>6, EmptySeq
    <3>2. Stacked' = {}
      BY <1>2, <1>4, <1>5, <1>6, <2>3, <3>1
    <3>3. Len(scc_stack') = 0
      <4>1. Len(scc_stack') >= 1 => scc_stack'[1] \in Stacked'
        BY <1>4, <1>5 DEF Stacked
      <4> QED
        BY <1>4, <1>5, <3>2, <4>1
    <3> QED
      BY <1>4, <3>3, EmptySeq DEF Types
  <2>5. call' # << >> => \A x \in Stacked' : Num'[1] <= index'[x]
    <3> SUFFICES ASSUME call' # << >> PROVE 1 \in Depth'
      BY <1>3, <1>4, <2>3
    <3>1. Len(call') # 0
      BY <1>2, EmptySeq
    <3> QED
      BY <1>2, <1>6, <3>1
  <2> QED
    BY <2>1, <2>2, <2>4, <2>5 DEF Frames
<1>13. Explored'
  <2> SUFFICES ASSUME NEW e \in E, e[1] \in Visited PROVE e[2] \in Visited \/ Pending(e[1], e[2])'
    BY <1>3 DEF Explored
  <2>1. e[1] \in Node /\ e[2] \in Node
    BY DEF E
  <2> QED
    BY <1>1, <1>7, <2>1 DEF Explored
<1>14. Lows'
  <2>1. \A x \in Stacked' : low'[x] <= index'[x]
    BY <1>1, <1>3, <1>4 DEF Lows
  <2>2. ASSUME NEW i \in Depth', NEW e \in E, e[1] \in Stacked', e[2] \in Stacked',
               Owner(i, e[1])', ~Pending(e[1], e[2])'
        PROVE  low'[call'[i].node] <= index'[e[2]]
    <3>1. e[1] \in Node /\ e[2] \in Node /\ ~Pending(e[1], e[2]) /\ e[1] \in Stacked /\ e[2] \in Stacked
      BY <1>4, <1>7, <2>2 DEF E
    <3>2. i \in Depth /\ Num[i] <= index[e[1]]
      BY <1>2, <1>3, <2>2 DEF Owner
    <3>3. i < k => index[e[1]] < Num[i + 1]
      <4>1. CASE i = k - 1
        BY <1>2, <1>4, <1>6, <2>2, <4>1
      <4>2. CASE i # k - 1
        <5>1. i + 1 \in Depth' /\ i < Len(call')
          BY <1>2, <1>6, <4>2
        <5> QED
          BY <1>3, <2>2, <5>1 DEF Owner
      <4> QED
        BY <4>1, <4>2
    <3>4. Owner(i, e[1])
      BY <3>2, <3>3 DEF Owner, k
    <3> QED
      BY <1>1, <1>2, <1>3, <1>4, <3>1, <3>2, <3>4 DEF Lows
  <2> QED
    BY <1>3, <2>1, <2>2 DEF Lows
<1>15. LowlinkReachable'
  <2>1. LowlinkReachable <=> \A x \in Stacked : \E u \in Stacked : index[u] = low[x] /\ u \in R[x]
    BY DEF LowlinkReachable, R
  <2>2. LowlinkReachable' <=> \A x \in Stacked' : \E u \in Stacked' : index'[u] = low'[x] /\ u \in R'[x]
    BY DEF LowlinkReachable, R
  <2>3. ASSUME NEW x \in Stacked'
        PROVE  \E u \in Stacked' : index'[u] = low'[x] /\ u \in R'[x]
    <3>1. x \in Stacked /\ index[x] < index[v]
      BY <1>4
    <3>2. PICK u \in Stacked : index[u] = low[x] /\ u \in R[x]
      BY <1>1, <2>1, <3>1
    <3>3. index[u] < index[v]
      <4>1. low[x] <= index[x]
        BY <1>1, <3>1 DEF Lows
      <4> QED
        BY <1>2, <1>5, <3>1, <3>2, <4>1
    <3> QED
      BY <1>3, <1>4, <3>2, <3>3
  <2> QED
    BY <2>2, <2>3
<1>16. Knit'
  <2>1. ASSUME NEW i \in Depth', NEW x \in Stacked', Num'[i] <= index'[x]
        PROVE  x \in R'[call'[i].node]
    BY <1>1, <1>2, <1>3, <1>4, <2>1 DEF Knit
  <2>2. ASSUME NEW i \in Depth', NEW x \in Stacked', i < Len(call') => index'[x] < Num'[i + 1]
        PROVE  call'[i].node \in R'[x]
    <3>1. x \in Stacked /\ index[x] < Num[k] /\ i \in Depth
      BY <1>2, <1>4
    <3>2. i < k => index[x] < Num[i + 1]
      <4>1. CASE i = k - 1
        BY <1>6, <3>1, <4>1
      <4>2. CASE i # k - 1
        <5>1. i + 1 \in Depth' /\ i < Len(call')
          BY <1>2, <1>6, <4>2
        <5> QED
          BY <1>3, <2>2, <5>1
      <4> QED
        BY <4>1, <4>2
    <3>3. call[i].node \in R[x]
      BY <1>1, <3>1, <3>2 DEF Knit, k
    <3> QED
      BY <1>2, <1>3, <3>3
  <2> QED
    BY <2>1, <2>2 DEF Knit
<1>17. \A x \in Stacked : x \notin Stacked' => x \in R[v] /\ v \in R[x]
  <2> SUFFICES ASSUME NEW x \in Stacked, x \notin Stacked' PROVE x \in R[v] /\ v \in R[x]
    OBVIOUS
  <2>1. Num[k] <= index[x]
    BY <1>2, <1>4, <1>5
  <2>2. ~(k < Len(call))
    BY <1>6 DEF k
  <2> QED
    BY <1>1, <1>6, <2>1, <2>2 DEF Knit
<1>18. Labelled'
  <2>1. Comp = 0..(next_comp - 1) /\ Comp' = 0..next_comp
    BY <1>4, <1>9 DEF Comp
  <2>2. \A x \in Node : comp_id'[x] # UNVISITED => x \in Visited' /\ comp_id'[x] \in Comp'
    BY <1>1, <1>3, <1>4, <1>5, <1>9, <2>1 DEF Labelled
  <2>3. \A c \in Comp' : members(c)' # {}
    <3>1. comp_id'[v] = next_comp
      BY <1>2, <1>4, <1>5, <1>6
    <3>2. ASSUME NEW c \in Comp
          PROVE  \E m \in Node : comp_id'[m] = c
      <4>1. PICK m \in Node : comp_id[m] = c
        BY <1>1 DEF Labelled, members
      <4>2. c # UNVISITED
        BY <1>9, <2>1, SccAssumption
      <4> QED
        BY <1>4, <1>5, <4>1, <4>2
    <3>3. \A c \in Comp' : c \in Comp \/ c = next_comp
      BY <1>9, <2>1
    <3> QED
      BY <1>6, <3>1, <3>2, <3>3 DEF members
  <2>4. ASSUME NEW x \in Node, NEW y \in Node, comp_id'[x] # UNVISITED, comp_id'[x] = comp_id'[y]
        PROVE  y \in R'[x]
    <3>1. \A z \in Node : z \notin Stacked => comp_id[z] = UNVISITED \/ comp_id[z] # next_comp
      BY <1>1, <1>9, <2>1 DEF Labelled
    <3>2. CASE x \in Stacked /\ x \notin Stacked'
      <4>1. y \in Stacked /\ y \notin Stacked'
        BY <1>4, <1>5, <1>9, <2>4, <3>1, <3>2
      <4> QED
        BY <1>3, <1>6, <1>17, <2>4, <3>2, <4>1, Reaches
    <3>3. CASE ~(x \in Stacked /\ x \notin Stacked')
      <4>1. comp_id[x] # UNVISITED /\ comp_id'[x] = comp_id[x] /\ x \notin Stacked
        BY <1>4, <1>5, <2>4, <3>3
      <4>2. comp_id'[y] = comp_id[y]
        BY <1>4, <1>5, <2>4, <3>1, <4>1
      <4> QED
        BY <1>1, <1>3, <2>4, <4>1, <4>2 DEF Labelled
    <3> QED
      BY <3>2, <3>3
  <2> QED
    BY <2>2, <2>3, <2>4 DEF Labelled
<1>19. ReverseTopological'
  <2> SUFFICES ASSUME NEW e \in E, comp_id'[e[1]] # UNVISITED
               PROVE  comp_id'[e[2]] # UNVISITED /\ comp_id'[e[2]] <= comp_id'[e[1]]
    BY <1>3 DEF ReverseTopological
  <2>1. e[1] \in Node /\ e[2] \in Node
    BY DEF E
  <2>2. CASE e[1] \in Stacked /\ e[1] \notin Stacked'
    <3>1. comp_id'[e[1]] = next_comp /\ Num[k] <= index[e[1]] /\ e[1] \in Visited
      BY <1>2, <1>4, <1>5, <2>1, <2>2
    <3>2. ~Pending(e[1], e[2])
      BY <1>7, <2>1, <2>2, <3>1
    <3>3. e[2] \in Visited
      BY <1>1, <3>1, <3>2 DEF Explored
    <3>4. CASE e[2] \in Stacked
      <4>1. ~(k < Len(call))
        BY <1>6 DEF k
      <4>2. Owner(k, e[1])
        BY <3>1, <4>1 DEF Owner, k
      <4>3. low[v] <= index[e[2]] /\ low[v] = index[v]
        BY <1>1, <1>6, <2>2, <3>2, <3>4, <4>2 DEF Lows, v
      <4>4. e[2] \notin Stacked'
        BY <1>2, <1>4, <1>5, <3>4, <4>3
      <4> QED
        BY <1>4, <1>9, <2>1, <3>1, <3>4, <4>4
    <3>5. CASE e[2] \notin Stacked
      <4>1. comp_id[e[2]] # UNVISITED /\ comp_id[e[2]] \in Comp
        BY <1>1, <1>5, <2>1, <3>3, <3>5 DEF Labelled
      <4> QED
        BY <1>4, <1>9, <2>1, <3>1, <3>5, <4>1 DEF Comp
    <3> QED
      BY <3>4, <3>5
  <2>3. CASE ~(e[1] \in Stacked /\ e[1] \notin Stacked')
    BY <1>1, <1>4, <1>5, <2>1, <2>3 DEF ReverseTopological
  <2> QED
    BY <2>2, <2>3
<1> QED
  BY <1>4, <1>10, <1>11, <1>12, <1>13, <1>14, <1>15, <1>16, <1>18, <1>19 DEF Search

\* A frame that returns without closing a component has a parent, which inherits its
\* lowlink.
LEMMA InnerFacts ==
    ASSUME Search, Finish, low[Top.node] # index[Top.node]
    PROVE  /\ Types' /\ comp_id' = comp_id /\ next_comp' = next_comp /\ scc_stack' = scc_stack
           /\ Len(call) - 1 \in Depth' /\ low[Top.node] < index[Top.node]
           /\ low' \in [Node -> Nat]
           /\ \A x \in Node : low'[x] <= low[x] /\ (x # call[Len(call) - 1].node => low'[x] = low[x])
           /\ low'[call[Len(call) - 1].node] \in {low[call[Len(call) - 1].node], low[Top.node]}
           /\ low'[call[Len(call) - 1].node] <= low[Top.node]
<1> DEFINE k == Len(call)
           v == Top.node
           p == call[k - 1].node
<1>1. Types /\ Frames /\ StacksAgree /\ Lows /\ LowlinkReachable
  BY DEF Search
<1>2. /\ call # << >> /\ call' \in Seq(Frame) /\ Depth' = 1..(k - 1) /\ Num[k] = index[v] /\ v \in Stacked
      /\ adj' = adj /\ index' = index /\ next_index' = next_index /\ plan' = plan /\ phase' = phase
      /\ \A i \in Depth' : i \in Depth
  BY ReturnFacts
<1>3. k \in Nat \ {0} /\ k \in Depth /\ v \in Node /\ Depth = 1..k
  BY <1>1, <1>2, TopFrame DEF Depth
<1>4. /\ Stacked \subseteq Visited /\ Visited \subseteq Node /\ \A x \in Visited : index[x] \in Nat
      /\ \A i \in Depth : call[i].node \in Stacked /\ Num[i] \in Nat
  BY <1>1, StackFacts
<1>5. \A x \in Node : low[x] \in Nat
  BY <1>1 DEF Types
<1>6. low[v] < index[v]
  BY <1>1, <1>2, <1>3, <1>4, <1>5 DEF Lows
<1>7. k # 1
  <2>1. PICK u \in Stacked : index[u] = low[v]
    BY <1>1, <1>2 DEF LowlinkReachable
  <2>2. Num[1] <= low[v]
    BY <1>1, <1>2, <2>1 DEF Frames
  <2> QED
    BY <1>2, <1>3, <1>4, <1>5, <1>6, <2>2
<1>8. k - 1 \in Depth' /\ p \in Node
  <2> HIDE DEF k
  <2>1. k - 1 \in 1..(k - 1)
    BY <1>3, <1>7
  <2> QED
    BY <1>2, <1>4, <2>1
<1>9. /\ comp_id' = [x \in Node |-> comp_id[x]] /\ scc_stack' = scc_stack /\ next_comp' = next_comp
      /\ low' = [low EXCEPT ![p] = IF @ < low[v] THEN @ ELSE low[v]]
  BY <1>7 DEF Finish, Lesser
<1>10. comp_id' = comp_id
  BY <1>1, <1>9 DEF Types
<1> HIDE DEF k, v, p
<1>11. /\ low' \in [Node -> Nat]
       /\ \A x \in Node : low'[x] <= low[x] /\ (x # p => low'[x] = low[x])
       /\ low'[p] \in {low[p], low[v]} /\ low'[p] <= low[v]
  <2>1. low \in [Node -> Nat] /\ low[v] \in Nat
    BY <1>1, <1>3 DEF Types
  <2> QED
    BY <1>5, <1>8, <1>9, <2>1
<1>12. Types'
  BY <1>1, <1>2, <1>9, <1>10, <1>11 DEF Types
<1> QED
  BY <1>6, <1>8, <1>9, <1>10, <1>11, <1>12 DEF k, v, p

\* Handing a lowlink up keeps the invariant.
LEMMA FinishInnerKeeps ==
    ASSUME Search, Finish, low[Top.node] # index[Top.node]
    PROVE  Search'
<1> DEFINE k == Len(call)
           v == Top.node
           p == call[k - 1].node
<1>1. /\ Types /\ Numbered /\ StacksAgree /\ Frames /\ Explored /\ Lows
      /\ LowlinkReachable /\ Knit /\ Labelled /\ ReverseTopological
  BY DEF Search
<1>2. /\ call # << >> /\ Len(call') = k - 1 /\ Depth' = 1..(k - 1)
      /\ \A i \in Depth' : i \in Depth /\ call'[i] = call[i] /\ Num[i] < Num[k]
      /\ Num[k] = index[v] /\ v \in Stacked
  BY ReturnFacts
<1>3. /\ adj' = adj /\ index' = index /\ next_index' = next_index
      /\ E' = E /\ R' = R /\ Visited' = Visited
      /\ \A i \in Depth' : Num'[i] = Num[i]
  BY ReturnFacts
<1>4. /\ Types' /\ comp_id' = comp_id /\ next_comp' = next_comp /\ scc_stack' = scc_stack
      /\ k - 1 \in Depth' /\ low[v] < index[v] /\ low' \in [Node -> Nat]
      /\ \A x \in Node : low'[x] <= low[x] /\ (x # p => low'[x] = low[x])
      /\ low'[p] \in {low[p], low[v]} /\ low'[p] <= low[v]
  BY InnerFacts
<1>5. Stacked' = Stacked
  BY <1>4 DEF Stacked
<1>6. /\ Stacked \subseteq Visited /\ Visited \subseteq Node
      /\ \A x \in Visited : index[x] \in Nat
      /\ \A i \in Depth : call[i].node \in Stacked /\ Num[i] \in Nat /\ Num[i] = index[call[i].node]
  BY <1>1, StackFacts DEF Num
<1>7. k \in Nat \ {0} /\ k \in Depth /\ Depth = 1..k /\ call[k].node = v /\ v \in Node
  BY <1>1, <1>2, TopFrame DEF Depth
<1>8. \A x, y \in Node : Pending(x, y)' <=> Pending(x, y)
  BY ReturnPending
<1>9. \A x \in Node : low[x] \in Nat /\ low'[x] \in Nat
  BY <1>1, <1>4 DEF Types
<1>10. p \in Stacked /\ p \in Node /\ Num[k - 1] = index[p] /\ Num[k - 1] < Num[k] /\ k - 1 \in Depth
  BY <1>2, <1>4, <1>6
<1>11. \A i \in Depth' : i = k - 1 \/ (i + 1 \in Depth' /\ i < Len(call') /\ i < k)
  BY <1>2, <1>7
<1>12. ~(k < Len(call))
  BY <1>7 DEF k
<1> HIDE DEF k, v, p
<1>13. Numbered' /\ StacksAgree' /\ Labelled' /\ ReverseTopological'
  <2>1. Numbered'
    BY <1>1, <1>3 DEF Numbered
  <2>2. Labelled' /\ ReverseTopological'
    BY <1>1, <1>3, <1>4 DEF Labelled, ReverseTopological, Comp, members
  <2>3. \A i \in 1..Len(call') : call'[i].node \in Stacked'
    BY <1>2, <1>5, <1>6
  <2>4. StacksAgree'
    BY <1>1, <1>3, <1>4, <1>5, <2>3 DEF StacksAgree
  <2> QED
    BY <2>1, <2>2, <2>4
<1>14. Frames'
  <2>1. \A i, j \in Depth' : i < j => Num'[i] < Num'[j]
    BY <1>1, <1>2, <1>3 DEF Frames
  <2>2. \A i \in Depth' : call'[i].rest \subseteq adj'[call'[i].node]
    BY <1>1, <1>2, <1>3 DEF Frames
  <2>3. 1 \in Depth' /\ call' # << >>
    BY <1>2, <1>4, <1>7, EmptySeq DEF Types
  <2>4. \A x \in Stacked' : Num'[1] <= index'[x]
    BY <1>1, <1>2, <1>3, <1>5, <2>3 DEF Frames
  <2> QED
    BY <2>1, <2>2, <2>3, <2>4 DEF Frames
<1>15. Explored'
  <2> SUFFICES ASSUME NEW e \in E, e[1] \in Visited PROVE e[2] \in Visited \/ Pending(e[1], e[2])'
    BY <1>3 DEF Explored
  <2>1. e[1] \in Node /\ e[2] \in Node
    BY DEF E
  <2> QED
    BY <1>1, <1>8, <2>1 DEF Explored
<1>16. Lows'
  <2>1. \A x \in Stacked' : low'[x] <= index'[x]
    BY <1>1, <1>3, <1>4, <1>5, <1>6, <1>9 DEF Lows
  <2>2. ASSUME NEW i \in Depth', NEW e \in E, e[1] \in Stacked, e[2] \in Stacked,
               Owner(i, e[1])', ~Pending(e[1], e[2])'
        PROVE  low'[call[i].node] <= index[e[2]]
    <3>1. /\ e[1] \in Node /\ e[2] \in Node /\ ~Pending(e[1], e[2])
          /\ index[e[1]] \in Nat /\ index[e[2]] \in Nat
      BY <1>6, <1>8, <2>2 DEF E
    <3>2. i \in Depth /\ Num[i] <= index[e[1]] /\ call[i].node \in Node
      BY <1>2, <1>3, <1>6, <2>2 DEF Owner
    <3>3. CASE i = k - 1 /\ Num[k] <= index[e[1]]
      <4>1. Owner(k, e[1])
        BY <1>12, <3>3 DEF Owner, k
      <4>2. low[v] <= index[e[2]]
        BY <1>1, <1>7, <2>2, <3>1, <4>1 DEF Lows
      <4> QED
        BY <1>4, <1>7, <1>9, <1>10, <3>1, <3>3, <4>2 DEF p
    <3>4. CASE ~(i = k - 1 /\ Num[k] <= index[e[1]])
      <4>1. i < k => index[e[1]] < Num[i + 1]
        <5>1. CASE i = k - 1
          <6>1. index[e[1]] < Num[k] /\ i + 1 = k
            BY <1>6, <1>7, <3>1, <3>4, <5>1
          <6> QED
            BY <6>1
        <5>2. CASE i # k - 1
          <6>1. index[e[1]] < Num'[i + 1]
            BY <1>3, <1>11, <2>2, <5>2 DEF Owner
          <6> QED
            BY <1>3, <1>11, <5>2, <6>1
        <5> QED
          BY <5>1, <5>2
      <4>2. Owner(i, e[1])
        BY <3>2, <4>1 DEF Owner, k
      <4>3. low[call[i].node] <= index[e[2]]
        BY <1>1, <2>2, <3>1, <3>2, <4>2 DEF Lows
      <4> QED
        BY <1>4, <1>9, <3>1, <3>2, <4>3
    <3> QED
      BY <3>3, <3>4
  <2> QED
    BY <1>2, <1>3, <1>5, <2>1, <2>2 DEF Lows
<1>17. PICK u \in Stacked : index[u] = low[v] /\ u \in R[v]
  BY <1>1, <1>2 DEF LowlinkReachable, R
<1>18. LowlinkReachable'
  <2>1. LowlinkReachable <=> \A x \in Stacked : \E y \in Stacked : index[y] = low[x] /\ y \in R[x]
    BY DEF LowlinkReachable, R
  <2>2. LowlinkReachable' <=> \A x \in Stacked' : \E y \in Stacked' : index'[y] = low'[x] /\ y \in R'[x]
    BY DEF LowlinkReachable, R
  <2>3. v \in R[p]
    BY <1>1, <1>2, <1>6, <1>10 DEF Knit, p
  <2>4. u \in R[p] /\ u \in Node
    BY <1>6, <1>7, <1>10, <1>17, <2>3, Reaches
  <2>5. ASSUME NEW x \in Stacked
        PROVE  \E y \in Stacked : index[y] = low'[x] /\ y \in R[x]
    <3>1. CASE x = p /\ low'[x] = low[v]
      BY <1>17, <2>4, <3>1
    <3>2. CASE ~(x = p /\ low'[x] = low[v])
      <4>1. low'[x] = low[x]
        BY <1>4, <1>6, <3>2
      <4> QED
        BY <1>1, <2>1, <4>1
    <3> QED
      BY <3>1, <3>2
  <2> QED
    BY <1>3, <1>5, <2>2, <2>5
<1>19. Knit'
  <2>1. ASSUME NEW i \in Depth', NEW x \in Stacked, Num'[i] <= index[x]
        PROVE  x \in R[call[i].node]
    BY <1>1, <1>2, <1>3, <2>1 DEF Knit
  <2>2. ASSUME NEW i \in Depth', NEW x \in Stacked, i < Len(call') => index[x] < Num'[i + 1]
        PROVE  call[i].node \in R[x]
    <3>1. i \in Depth
      BY <1>2
    <3>2. CASE i = k - 1 /\ Num[k] <= index[x]
      <4>1. v \in R[x]
        BY <1>1, <1>7, <1>12 DEF Knit, k
      <4>2. u \in R[x] /\ u \in Node /\ x \in Node
        BY <1>6, <1>7, <1>17, <4>1, Reaches
      <4>3. (k - 1) + 1 = k /\ index[u] < Num[k]
        BY <1>2, <1>4, <1>7, <1>17
      <4>4. p \in R[u]
        BY <1>1, <1>10, <4>3 DEF Knit, p
      <4> QED
        BY <1>10, <3>2, <4>2, <4>4, Reaches DEF p
    <3>3. CASE ~(i = k - 1 /\ Num[k] <= index[x])
      <4>1. i < k => index[x] < Num[i + 1]
        <5>1. CASE i = k - 1
          <6>1. index[x] < Num[k] /\ i + 1 = k
            BY <1>6, <1>7, <3>3, <5>1
          <6> QED
            BY <6>1
        <5>2. CASE i # k - 1
          BY <1>3, <1>11, <2>2, <5>2
        <5> QED
          BY <5>1, <5>2
      <4> QED
        BY <1>1, <3>1, <4>1 DEF Knit, k
    <3> QED
      BY <3>2, <3>3
  <2> QED
    BY <1>2, <1>3, <1>5, <2>1, <2>2 DEF Knit
<1> QED
  BY <1>4, <1>13, <1>14, <1>15, <1>16, <1>18, <1>19 DEF Search

-----------------------------------------------------------------------------
\* The search starts well, with every node unvisited.
LEMMA SearchInit == Init => Search /\ Phases
<1> SUFFICES ASSUME Init PROVE Search /\ Phases
  OBVIOUS
<1>1. /\ adj \in [Node -> SUBSET Node]
      /\ index = [v \in Node |-> UNVISITED] /\ low = [v \in Node |-> 0]
      /\ comp_id = [v \in Node |-> UNVISITED] /\ scc_stack = << >> /\ call = << >>
      /\ next_index = 0 /\ next_comp = 0 /\ plan = << >> /\ phase = "tarjan"
  BY DEF Init
<1>2. /\ \A v \in Node : index[v] = UNVISITED /\ comp_id[v] = UNVISITED
      /\ Visited = {} /\ Stacked = {} /\ Depth = {} /\ Comp = {}
  BY <1>1 DEF Visited, Stacked, Depth, Comp
<1>3. Types /\ Phases
  BY <1>1 DEF Types, Phases
<1>4. Numbered
  BY <1>1, <1>2, FS_EmptySet DEF Numbered
<1>5. StacksAgree
  BY <1>1, <1>2 DEF StacksAgree
<1>6. Frames /\ Explored /\ Lows /\ LowlinkReachable /\ Knit
  BY <1>1, <1>2 DEF Frames, Explored, Lows, LowlinkReachable, Knit
<1>7. Labelled
  BY <1>2 DEF Labelled
<1>8. ReverseTopological
  BY <1>2 DEF ReverseTopological, E
<1> QED
  BY <1>3, <1>4, <1>5, <1>6, <1>7, <1>8 DEF Search

\* A new root is discovered with no frame open.
LEMMA StartRootKeeps == Search /\ StartRoot => Search'
<1> SUFFICES ASSUME Search, StartRoot PROVE Search'
  OBVIOUS
<1> DEFINE v == Least(Unvisited)
<1>1. call = << >> /\ Unvisited # {} /\ Discover(v, << >>)
  BY DEF StartRoot
<1>2. v \in Node /\ index[v] = UNVISITED
  <2>1. Unvisited \in SUBSET Node
    BY DEF Unvisited
  <2>2. v \in Unvisited
    BY <1>1, <2>1, NodeFinite
  <2> QED
    BY <2>2 DEF Unvisited
<1>3. << >> \in Seq(Frame) /\ Len(call) = 0 /\ Len(<< >>) = 0 /\ Depth = {}
  BY <1>1 DEF Depth
<1> HIDE DEF v
<1> QED
  BY <1>1, <1>2, <1>3, OpenKeeps

\* A neighbour is discovered from the top frame.
LEMMA DescendKeeps == Search /\ Descend => Search'
<1> SUFFICES ASSUME Search, Descend PROVE Search'
  OBVIOUS
<1> DEFINE v == Neighbour
<1>1. Exploring /\ index[v] = UNVISITED /\ Discover(v, Advanced) /\ Types /\ Frames
  BY DEF Descend, Search
<1>2. v \in Node /\ v \in Top.rest
  BY <1>1, NeighbourType
<1>3. /\ call # << >> /\ Len(call) \in Depth /\ Top = call[Len(call)] /\ Top.node \in Node
  BY <1>1, TopFrame DEF Exploring
<1>4. /\ Advanced \in Seq(Frame) /\ Len(Advanced) = Len(call)
      /\ \A i \in Depth : Advanced[i].node = call[i].node
      /\ \A i \in Depth : i # Len(call) => Advanced[i].rest = call[i].rest
      /\ Advanced[Len(call)].rest = Top.rest \ {v}
  BY <1>1, AdvancedFacts
<1>5. <<Top.node, v>> \in E
  BY <1>1, <1>2, <1>3 DEF Frames, E
<1> HIDE DEF v
<1>6. /\ \A i \in Depth : Advanced[i].rest \subseteq call[i].rest
      /\ \A i \in Depth : \A y \in call[i].rest : y \in Advanced[i].rest \/ y = v
  BY <1>3, <1>4
<1> QED
  BY <1>1, <1>2, <1>3, <1>4, <1>5, <1>6, OpenKeeps

\* Kahn's loop leaves the search's variables alone.
LEMMA SearchFrame ==
    ASSUME Search, UNCHANGED <<adj, tarjanVars>>, plan' \in Seq(SUBSET Node),
           phase' \in {"tarjan", "kahn", "done"}
    PROVE  Search'
<1>1. /\ adj' = adj /\ index' = index /\ low' = low /\ comp_id' = comp_id /\ scc_stack' = scc_stack
      /\ call' = call /\ next_index' = next_index /\ next_comp' = next_comp
  BY DEF tarjanVars
<1>2. E' = E /\ R' = R /\ Visited' = Visited /\ Stacked' = Stacked /\ Depth' = Depth /\ Num' = Num
  BY <1>1, GraphFixed DEF Visited, Stacked, Depth, Num
<1>3. \A x, y : Pending(x, y)' = Pending(x, y)
  BY <1>1, <1>2 DEF Pending
<1>4. \A i, x : Owner(i, x)' = Owner(i, x)
  BY <1>1, <1>2 DEF Owner
<1>5. Types'
  BY <1>1 DEF Search, Types
<1>6. Numbered' /\ StacksAgree' /\ Frames' /\ Explored'
  BY <1>1, <1>2, <1>3 DEF Search, Numbered, StacksAgree, Frames, Explored
<1>7. Lows' /\ Knit'
  BY <1>1, <1>2, <1>3, <1>4 DEF Search, Lows, Knit
<1>8. LowlinkReachable' /\ Labelled' /\ ReverseTopological'
  BY <1>1, <1>2 DEF Search, LowlinkReachable, Labelled, ReverseTopological, Comp, members
<1> QED
  BY <1>5, <1>6, <1>7, <1>8 DEF Search

\* Every step keeps the invariant.
LEMMA SearchStep == Search /\ Phases /\ [Next]_vars => Search' /\ Phases'
<1> SUFFICES ASSUME Search, Phases, [Next]_vars PROVE Search' /\ Phases'
  OBVIOUS
<1>1. CASE StartRoot
  <2>1. plan' = plan /\ phase' = phase /\ phase = "tarjan"
    BY <1>1 DEF StartRoot, Discover, kahnVars
  <2> QED
    BY <1>1, <2>1, StartRootKeeps DEF Phases
<1>2. CASE Descend
  <2>1. plan' = plan /\ phase' = phase /\ phase = "tarjan"
    BY <1>2 DEF Descend, Exploring, Discover, kahnVars
  <2> QED
    BY <1>2, <2>1, DescendKeeps DEF Phases
<1>3. CASE Revisit
  <2>1. plan' = plan /\ phase' = phase /\ phase = "tarjan"
    BY <1>3 DEF Revisit, Exploring, kahnVars
  <2> QED
    BY <1>3, <2>1, RevisitKeeps DEF Phases
<1>4. CASE Finish
  <2>1. plan' = plan /\ phase' = phase /\ phase = "tarjan"
    BY <1>4 DEF Finish, kahnVars
  <2>2. Search'
    BY <1>4, FinishRootKeeps, FinishInnerKeeps
  <2> QED
    BY <2>1, <2>2 DEF Phases
<1>5. CASE Condense
  <2>1. /\ UNCHANGED <<adj, tarjanVars>> /\ plan' = plan /\ phase' = "kahn"
        /\ call = << >> /\ Unvisited = {}
    BY <1>5 DEF Condense
  <2>2. Search' /\ Visited' = Node /\ call' = << >>
    BY <2>1, SearchFrame DEF Search, Types, Unvisited, Visited, tarjanVars
  <2> QED
    BY <2>1, <2>2 DEF Phases
<1>6. CASE Emit
  <2>1. /\ UNCHANGED <<adj, tarjanVars, phase>> /\ phase = "kahn"
        /\ \E c : plan' = Append(plan, members(c))
    BY <1>6 DEF Emit
  <2>2. \A c : members(c) \in SUBSET Node
    BY DEF members
  <2>3. plan' \in Seq(SUBSET Node)
    BY <2>1, <2>2, AppendProperties DEF Search, Types
  <2>4. Search'
    BY <2>1, <2>3, SearchFrame
  <2> QED
    BY <2>1, <2>4 DEF Phases, Visited, tarjanVars
<1>7. CASE Finished
  <2>1. UNCHANGED <<adj, tarjanVars>> /\ plan' = plan /\ phase' = "done" /\ phase = "kahn"
    BY <1>7 DEF Finished, kahnVars
  <2>2. Search'
    BY <2>1, SearchFrame DEF Search, Types
  <2> QED
    BY <2>1, <2>2 DEF Phases, Visited, tarjanVars
<1>8. CASE UNCHANGED vars
  <2>1. UNCHANGED <<adj, tarjanVars>> /\ plan' = plan /\ phase' = phase
    BY <1>8 DEF vars, kahnVars
  <2>2. Search'
    BY <2>1, SearchFrame DEF Search, Types
  <2> QED
    BY <2>1, <2>2 DEF Phases, Visited, tarjanVars
<1> QED
  BY <1>1, <1>2, <1>3, <1>4, <1>5, <1>6, <1>7, <1>8 DEF Next

\* There are no more component ids than nodes: each has a member of its own.
LEMMA CountersBounded ==
    ASSUME Search
    PROVE  next_index <= N /\ next_comp <= N
<1>1. /\ Types /\ Numbered /\ Labelled
  BY DEF Search
<1>2. next_index <= N
  BY <1>1, NodeFinite DEF Numbered, Visited
<1> DEFINE f == [c \in Comp |-> CHOOSE v \in Node : comp_id[v] = c]
<1>3. next_comp \in Nat /\ N \in Nat
  BY <1>1, SccAssumption DEF Types
<1>4. \A c \in Comp : f[c] \in Node /\ comp_id[f[c]] = c
  BY <1>1 DEF Labelled, members
<1>5. f \in Injection(Comp, Node)
  <2>1. f \in [Comp -> Node]
    BY <1>4
  <2>2. \A c, d \in Comp : f[c] = f[d] => c = d
    BY <1>4
  <2> HIDE DEF f
  <2> QED
    BY <2>1, <2>2 DEF Injection, IsInjective
<1>6. Cardinality(Comp) <= N /\ IsFiniteSet(Comp)
  <2> HIDE DEF f
  <2> QED
    BY <1>5, NodeFinite, FS_Injection
<1>7. Cardinality(Comp) = next_comp
  BY <1>3, FS_Interval DEF Comp
<1> QED
  BY <1>2, <1>6, <1>7

-----------------------------------------------------------------------------
\* A component id stands for its members.
LEMMA Ids ==
    ASSUME Search
    PROVE  /\ next_comp \in Nat /\ IsFiniteSet(Comp) /\ Comp \in SUBSET Nat
           /\ \A c \in Comp : members(c) \in SUBSET Node /\ members(c) # {} /\ members(c) \in CompNodes
           /\ \A c, d \in Comp : members(c) = members(d) => c = d
           /\ \A c \in Comp : Least(members(c)) \in Nat
<1>1. Types /\ Labelled
  BY DEF Search
<1>2. next_comp \in Nat /\ Comp \in SUBSET Nat
  BY <1>1 DEF Types, Comp
<1>3. IsFiniteSet(Comp)
  BY <1>2, FS_Interval DEF Comp
<1>4. \A c \in Comp : members(c) \in SUBSET Node /\ members(c) # {} /\ members(c) \in CompNodes
  BY <1>1 DEF Labelled, members, CompNodes
<1>5. \A c, d \in Comp : members(c) = members(d) => c = d
  <2> SUFFICES ASSUME NEW c \in Comp, NEW d \in Comp, members(c) = members(d) PROVE c = d
    OBVIOUS
  <2>1. PICK v \in members(c) : TRUE
    BY <1>4
  <2> QED
    BY <2>1 DEF members
<1>6. \A c \in Comp : Least(members(c)) \in Nat
  BY <1>4, NodeFinite
<1> QED
  BY <1>2, <1>3, <1>4, <1>5, <1>6

\* The predecessors of a component that have not been emitted.
Waiting(c) == {d \in Comp : c \in cadj(d) /\ ~Emitted(d)}

\* A component has no waiting predecessor iff all its predecessors are placed.
LEMMA ReadyIds ==
    ASSUME Search, NEW c \in Comp
    PROVE  /\ IsFiniteSet(Waiting(c)) /\ Cardinality(Waiting(c)) \in Nat
           /\ Cardinality(Waiting(c)) = 0 <=> Waiting(c) = {}
           /\ ~Emitted(c) /\ Waiting(c) = {}
                <=> members(c) \in ReadyAt(CompNodes, E, plan, Len(plan) + 1)
<1>1. Waiting(c) \subseteq Comp /\ IsFiniteSet(Comp)
  BY Ids DEF Waiting
<1>2. IsFiniteSet(Waiting(c)) /\ Cardinality(Waiting(c)) \in Nat
  BY <1>1, FS_Subset, FS_CardinalityType
<1>3. Cardinality(Waiting(c)) = 0 <=> Waiting(c) = {}
  BY <1>2, FS_EmptySet
<1>4. Placed(plan, Len(plan) + 1) = {plan[i] : i \in 1..Len(plan)}
  <2>1. Len(plan) \in Nat
    BY LenProperties DEF Search, Types
  <2>2. Len(plan) + 1 - 1 = Len(plan)
    BY <2>1
  <2> QED
    BY <2>2 DEF Placed
<1>5. \A d \in Comp : Emitted(d) <=> members(d) \in Placed(plan, Len(plan) + 1)
  BY <1>4 DEF Emitted
<1> DEFINE P == Pred(CompNodes, E, members(c))
<1>6. \A d \in Comp : members(d) \in P <=> c \in cadj(d)
  <2> SUFFICES ASSUME NEW d \in Comp
               PROVE  members(d) \in P <=> c \in cadj(d)
    OBVIOUS
  <2>1. c \in cadj(d) <=> c # d /\ \E u \in members(d), v \in members(c) : <<u, v>> \in E
    BY DEF cadj
  <2>2. members(d) \in P <=> members(d) \in CompNodes /\ members(d) # members(c)
                                /\ \E u \in members(d), v \in members(c) : <<u, v>> \in E
    BY DEF Pred
  <2>3. members(d) \in CompNodes /\ (members(d) # members(c) <=> c # d)
    BY Ids
  <2> QED
    BY <2>1, <2>2, <2>3
<1>7. \A m \in P : \E d \in Comp : m = members(d)
  BY DEF Pred, CompNodes
<1>8. P \subseteq Placed(plan, Len(plan) + 1) <=> Waiting(c) = {}
  <2> HIDE DEF P
  <2> QED
    BY <1>5, <1>6, <1>7 DEF Waiting
<1>9. members(c) \in CompNodes
  BY Ids
<1> QED
  BY <1>2, <1>3, <1>5, <1>8, <1>9 DEF ReadyAt

\* The in-degrees and the heap start out right.
LEMMA CondenseHeap == Search /\ Phases /\ Condense => Heap'
<1> SUFFICES ASSUME Search, Phases, Condense PROVE Heap'
  OBVIOUS
<1>1. /\ UNCHANGED <<adj, tarjanVars>> /\ plan' = << >> /\ phase' = "kahn"
      /\ cindeg' = [c \in Comp |-> Cardinality({d \in Comp : c \in cadj(d)})]
      /\ ready' = {c \in Comp : cindeg'[c] = 0}
  BY DEF Condense, Phases
<1>2. E' = E /\ Comp' = Comp /\ next_comp' = next_comp /\ comp_id' = comp_id
  BY <1>1, GraphFixed DEF Comp, tarjanVars
<1>3. \A c : members(c)' = members(c) /\ cadj(c)' = cadj(c) /\ ~Emitted(c)'
  BY <1>1, <1>2 DEF members, cadj, Emitted
<1>4. \A c \in Comp : cindeg'[c] = Cardinality({d \in Comp : c \in cadj(d)})
  BY <1>1
<1>5. \A c \in Comp : cindeg'[c] \in Nat
  <2> SUFFICES ASSUME NEW c \in Comp PROVE Cardinality({d \in Comp : c \in cadj(d)}) \in Nat
    BY <1>4
  <2> DEFINE S == {d \in Comp : c \in cadj(d)}
  <2>1. IsFiniteSet(Comp) /\ S \subseteq Comp
    BY Ids
  <2> HIDE DEF S
  <2>2. Cardinality(S) \in Nat
    BY <2>1, FS_Subset, FS_CardinalityType
  <2> QED
    BY <2>2 DEF S
<1>6. \A c \in Comp : {d \in Comp' : c \in cadj(d)' /\ ~Emitted(d)'} = {d \in Comp : c \in cadj(d)}
  BY <1>2, <1>3
<1>7. cindeg' \in [Comp' -> Nat]
  BY <1>1, <1>2, <1>4, <1>5
<1>8. \A c \in Comp' : cindeg'[c] = Cardinality({d \in Comp' : c \in cadj(d)' /\ ~Emitted(d)'})
  BY <1>2, <1>4, <1>6
<1>9. ready' = {c \in Comp' : ~Emitted(c)' /\ cindeg'[c] = 0}
  BY <1>1, <1>2, <1>3
<1>10. 1..Len(plan') = {} /\ phase' # "done"
  BY <1>1
<1> QED
  BY <1>7, <1>8, <1>9, <1>10 DEF Heap

\* The heap yields a ready component with the least task.
LEMMA HeapTop ==
    ASSUME Search, ready \subseteq Comp, ready # {}
    PROVE  LET c == CHOOSE x \in ready : \A y \in ready : Least(members(x)) <= Least(members(y))
           IN  c \in ready /\ \A y \in ready : Least(members(c)) <= Least(members(y))
<1> DEFINE S == {Least(members(x)) : x \in ready}
<1>1. S \in SUBSET Nat /\ S # {}
  BY Ids
<1> HIDE DEF S
<1>2. PICK m \in S : \A y \in S : m <= y
  BY <1>1, LeastExists
<1>3. \E x \in ready : \A y \in ready : Least(members(x)) <= Least(members(y))
  BY <1>2 DEF S
<1> QED
  BY <1>3

\* Emitting a component keeps the in-degrees and the heap right.
LEMMA EmitHeap == Search /\ Heap /\ Emit => Heap'
<1> SUFFICES ASSUME Search, Heap, Emit PROVE Heap'
  OBVIOUS
<1> DEFINE c == CHOOSE x \in ready : \A y \in ready : Least(members(x)) <= Least(members(y))
           n == Len(plan)
<1>1. /\ phase = "kahn" /\ ready # {} /\ UNCHANGED <<adj, tarjanVars, phase>>
      /\ plan' = Append(plan, members(c))
      /\ cindeg' = [d \in Comp |-> IF d \in cadj(c) THEN cindeg[d] - 1 ELSE cindeg[d]]
      /\ ready' = (ready \ {c}) \cup {d \in cadj(c) : cindeg'[d] = 0}
  BY DEF Emit
<1>2. /\ cindeg \in [Comp -> Nat] /\ \A d \in Comp : cindeg[d] = Cardinality(Waiting(d))
      /\ ready = {d \in Comp : ~Emitted(d) /\ cindeg[d] = 0}
      /\ \A i \in 1..n : /\ plan[i] \in ReadyAt(CompNodes, E, plan, i)
                         /\ \A m \in ReadyAt(CompNodes, E, plan, i) : Least(plan[i]) <= Least(m)
  BY <1>1 DEF Heap, Waiting
<1>3. /\ c \in ready /\ \A y \in ready : Least(members(c)) <= Least(members(y))
      /\ c \in Comp /\ ~Emitted(c) /\ Waiting(c) = {}
  <2>1. c \in ready /\ \A y \in ready : Least(members(c)) <= Least(members(y))
    BY <1>1, <1>2, HeapTop
  <2> HIDE DEF c
  <2> QED
    BY <1>2, <2>1, ReadyIds
<1>4. E' = E /\ Comp' = Comp /\ CompNodes' = CompNodes
      /\ \A d : members(d)' = members(d) /\ cadj(d)' = cadj(d)
  <2>1. E' = E /\ Comp' = Comp /\ comp_id' = comp_id
    BY <1>1, GraphFixed DEF Comp, tarjanVars
  <2> QED
    BY <2>1 DEF CompNodes, members, cadj
<1> HIDE DEF c, n
<1>5. /\ n \in Nat /\ Len(plan') = n + 1 /\ plan'[n + 1] = members(c)
      /\ \A i \in 1..n : plan'[i] = plan[i]
  <2>1. plan \in Seq(SUBSET Node) /\ members(c) \in SUBSET Node
    BY <1>3, Ids DEF Search, Types
  <2> QED
    BY <1>1, <2>1, AppendProperties, LenProperties DEF n
<1>6. \A d \in Comp : Emitted(d)' <=> Emitted(d) \/ d = c
  <2> SUFFICES ASSUME NEW d \in Comp PROVE Emitted(d)' <=> Emitted(d) \/ d = c
    OBVIOUS
  <2>1. Emitted(d)' <=> \E i \in 1..(n + 1) : plan'[i] = members(d)
    BY <1>4, <1>5 DEF Emitted
  <2>2. Emitted(d) <=> \E i \in 1..n : plan[i] = members(d)
    BY DEF Emitted, n
  <2>3. members(c) = members(d) <=> d = c
    BY <1>3, Ids
  <2>4. \A i \in 1..(n + 1) : i \in 1..n \/ i = n + 1
    BY <1>5
  <2>5. n + 1 \in 1..(n + 1) /\ \A i \in 1..n : i \in 1..(n + 1)
    BY <1>5
  <2> QED
    BY <1>5, <2>1, <2>2, <2>3, <2>4, <2>5
<1>7. \A d \in Comp : Waiting(d)' = Waiting(d) \ {c}
  <2> SUFFICES ASSUME NEW d \in Comp PROVE Waiting(d)' = Waiting(d) \ {c}
    OBVIOUS
  <2>1. Waiting(d)' = {e \in Comp : d \in cadj(e) /\ ~Emitted(e)'}
    BY <1>4 DEF Waiting
  <2> QED
    BY <1>6, <2>1 DEF Waiting
<1>8. \A d \in Comp : c \in Waiting(d) <=> d \in cadj(c)
  BY <1>3 DEF Waiting
<1>9. \A d \in Comp : cindeg'[d] = Cardinality(Waiting(d)') /\ cindeg'[d] \in Nat
  <2> SUFFICES ASSUME NEW d \in Comp
               PROVE  cindeg'[d] = Cardinality(Waiting(d)') /\ cindeg'[d] \in Nat
    OBVIOUS
  <2>1. /\ IsFiniteSet(Waiting(d)) /\ Cardinality(Waiting(d)) \in Nat
        /\ cindeg[d] = Cardinality(Waiting(d))
    BY <1>2, ReadyIds
  <2>2. cindeg'[d] = IF d \in cadj(c) THEN cindeg[d] - 1 ELSE cindeg[d]
    BY <1>1
  <2> DEFINE W == Waiting(d)
  <2>3. Cardinality(W \ {c}) = IF c \in W THEN Cardinality(W) - 1 ELSE Cardinality(W)
    <3> HIDE DEF W
    <3>1. IsFiniteSet(W)
      BY <2>1 DEF W
    <3> QED
      BY <3>1, FS_RemoveElement
  <2>4. IsFiniteSet(W \ {c}) /\ Cardinality(W \ {c}) \in Nat
    <3> HIDE DEF W
    <3>1. IsFiniteSet(W) /\ W \ {c} \subseteq W
      BY <2>1 DEF W
    <3> QED
      BY <3>1, FS_Subset, FS_CardinalityType
  <2> QED
    BY <1>7, <1>8, <2>1, <2>2, <2>3, <2>4
<1>10. cindeg' \in [Comp -> Nat]
  BY <1>1, <1>9
\* What has been emitted had its predecessors emitted before it.
<1>11. \A d \in cadj(c) : d \in Comp /\ d # c /\ ~Emitted(d)
  <2> SUFFICES ASSUME NEW d \in cadj(c), d \in Comp, d # c, NEW i \in 1..n, plan[i] = members(d)
               PROVE  FALSE
    BY DEF cadj, Emitted, n
  <2>1. Pred(CompNodes, E, members(d)) \subseteq Placed(plan, i)
    BY <1>2 DEF ReadyAt
  <2>2. members(c) \in Pred(CompNodes, E, members(d))
    <3>1. members(c) \in CompNodes /\ members(c) # members(d)
      BY <1>3, Ids
    <3>2. \E u \in members(c), v \in members(d) : <<u, v>> \in E
      BY DEF cadj
    <3> QED
      BY <3>1, <3>2 DEF Pred
  <2>3. PICK j \in 1..(i - 1) : plan[j] = members(c)
    BY <2>1, <2>2 DEF Placed
  <2>4. j \in 1..n
    BY <1>5
  <2> QED
    BY <1>3, <2>3, <2>4 DEF Emitted, n
<1>12. ready' = {d \in Comp : ~Emitted(d)' /\ cindeg'[d] = 0}
  <2>1. ASSUME NEW d \in ready, d # c
        PROVE  d \in Comp /\ ~Emitted(d)' /\ cindeg'[d] = 0
    <3>1. d \in Comp /\ ~Emitted(d) /\ cindeg[d] = 0 /\ Waiting(d) = {}
      BY <1>2, ReadyIds
    <3>2. d \notin cadj(c)
      BY <1>8, <3>1
    <3> QED
      BY <1>1, <1>6, <2>1, <3>1, <3>2
  <2>2. ASSUME NEW d \in cadj(c), cindeg'[d] = 0
        PROVE  d \in Comp /\ ~Emitted(d)'
    BY <1>6, <1>11
  <2>3. ASSUME NEW d \in Comp, ~Emitted(d)', cindeg'[d] = 0
        PROVE  d \in ready \ {c} \/ d \in cadj(c)
    <3>1. d # c /\ ~Emitted(d)
      BY <1>6, <2>3
    <3>2. d \notin cadj(c) => cindeg[d] = 0
      BY <1>1, <2>3
    <3> QED
      BY <1>2, <3>1, <3>2
  <2>4. ready' \subseteq {d \in Comp : ~Emitted(d)' /\ cindeg'[d] = 0}
    BY <1>1, <2>1, <2>2
  <2>5. {d \in Comp : ~Emitted(d)' /\ cindeg'[d] = 0} \subseteq ready'
    BY <1>1, <2>3
  <2> QED
    BY <2>4, <2>5
<1>13. \A i \in 1..(n + 1) : ReadyAt(CompNodes', E', plan', i) = ReadyAt(CompNodes, E, plan, i)
  <2> SUFFICES ASSUME NEW i \in 1..(n + 1)
               PROVE  Placed(plan', i) = Placed(plan, i)
    BY <1>4 DEF ReadyAt
  <2>1. \A j \in 1..(i - 1) : j \in 1..n
    BY <1>5
  <2> QED
    BY <1>5, <2>1 DEF Placed
<1>14. \A i \in 1..(n + 1) :
          /\ plan'[i] \in ReadyAt(CompNodes', E', plan', i)
          /\ \A m \in ReadyAt(CompNodes', E', plan', i) : Least(plan'[i]) <= Least(m)
  <2>1. members(c) \in ReadyAt(CompNodes, E, plan, n + 1)
    BY <1>3, ReadyIds DEF n
  <2>2. ASSUME NEW m \in ReadyAt(CompNodes, E, plan, n + 1)
        PROVE  Least(members(c)) <= Least(m)
    <3>1. PICK d \in Comp : m = members(d)
      BY DEF ReadyAt, CompNodes
    <3>2. ~Emitted(d) /\ Waiting(d) = {}
      BY <2>2, <3>1, ReadyIds DEF n
    <3>3. d \in ready
      BY <1>2, <3>2, ReadyIds
    <3> QED
      BY <1>3, <3>1, <3>3
  <2>3. \A i \in 1..(n + 1) : i \in 1..n \/ i = n + 1
    BY <1>5
  <2> QED
    BY <1>2, <1>5, <1>13, <2>1, <2>2, <2>3
<1>15. phase' = "kahn"
  BY <1>1
<1>16. \A d \in Comp' : cindeg'[d] = Cardinality({e \in Comp' : d \in cadj(e)' /\ ~Emitted(e)'})
  BY <1>4, <1>9 DEF Waiting
<1> QED
  BY <1>4, <1>5, <1>10, <1>12, <1>14, <1>15, <1>16 DEF Heap

\* Every step keeps the heap right.
LEMMA HeapStep == Search /\ Phases /\ Heap /\ [Next]_vars => Heap'
<1> SUFFICES ASSUME Search, Phases, Heap, [Next]_vars PROVE Heap'
  OBVIOUS
<1>1. CASE StartRoot \/ Descend \/ Revisit \/ Finish
  <2>1. phase' = "tarjan"
    BY <1>1 DEF StartRoot, Descend, Revisit, Finish, Exploring, Discover
  <2> QED
    BY <2>1 DEF Heap
<1>2. CASE Condense
  BY <1>2, CondenseHeap
<1>3. CASE Emit
  BY <1>3, EmitHeap
<1>4. CASE Finished \/ UNCHANGED vars
  <2>1. /\ UNCHANGED <<adj, tarjanVars, kahnVars>>
        /\ phase' = phase \/ (phase = "kahn" /\ phase' = "done" /\ ready = {})
    BY <1>4 DEF Finished, vars
  <2>2. E' = E /\ Comp' = Comp /\ comp_id' = comp_id /\ cindeg' = cindeg /\ ready' = ready /\ plan' = plan
    BY <2>1, GraphFixed DEF Comp, tarjanVars, kahnVars
  <2>3. \A d : members(d)' = members(d)
    BY <2>2 DEF members
  <2>4. /\ CompNodes' = CompNodes /\ \A d : cadj(d)' = cadj(d) /\ Emitted(d)' = Emitted(d)
    BY <2>2, <2>3 DEF CompNodes, cadj, Emitted
  <2> QED
    BY <2>1, <2>2, <2>4 DEF Heap
<1> QED
  BY <1>1, <1>2, <1>3, <1>4 DEF Next

-----------------------------------------------------------------------------
\* Type correctness: next_index and next_comp never pass the number of tasks.
THEOREM SccTypeCorrect == Spec => []TypeOK
<1>1. Search => TypeOK
  BY CountersBounded, SccAssumption DEF Search, Types, TypeOK, Frame
<1> QED
  BY SearchInit, SearchStep, <1>1, PTL DEF Spec

\* scc_stack, call and comp_id never disagree about which components are open.
THEOREM SccStacksAgree == Spec => []StacksAgree
<1>1. Search => StacksAgree
  BY DEF Search
<1> QED
  BY SearchInit, SearchStep, <1>1, PTL DEF Spec

\* Lowlinks never merge more than a strongly connected component.
THEOREM SccLowlinkReachable == Spec => []LowlinkReachable
<1>1. Search => LowlinkReachable
  BY DEF Search
<1> QED
  BY SearchInit, SearchStep, <1>1, PTL DEF Spec

\* Components are numbered in reverse topological order, at every moment.
THEOREM SccReverseTopological == Spec => []ReverseTopological
<1>1. Search => ReverseTopological
  BY DEF Search
<1> QED
  BY SearchInit, SearchStep, <1>1, PTL DEF Spec

-----------------------------------------------------------------------------
\* A complete search has found exactly the strongly connected components.
LEMMA FoundComponents ==
    ASSUME Search, call = << >>, Visited = Node
    PROVE  CompNodes = Components(Node, E)
<1>1. /\ Types /\ StacksAgree /\ Frames /\ Labelled /\ ReverseTopological
  BY DEF Search
<1>2. \A v \in Node : comp_id[v] # UNVISITED /\ comp_id[v] \in Comp
  <2>1. scc_stack = << >>
    BY <1>1 DEF Frames
  <2>2. Stacked = {}
    BY <2>1 DEF Stacked
  <2> QED
    BY <1>1, <2>2, StackFacts DEF Labelled
<1>3. E \in SUBSET (Node \X Node) /\ \A v \in Node : comp_id[v] \in Nat
  BY <1>2, Ids DEF E
<1>4. ASSUME NEW u \in Node, NEW v \in Node, v \in R[u]
      PROVE  comp_id[v] <= comp_id[u]
  <2> DEFINE S == {x \in Node : comp_id[x] <= comp_id[u]}
  <2>1. u \in S
    BY <1>2, <1>3
  <2>2. \A e \in E : e[1] \in S => e[2] \in S
    <3> SUFFICES ASSUME NEW e \in E, e[1] \in S PROVE e[2] \in S
      OBVIOUS
    <3>1. e[1] \in Node /\ e[2] \in Node
      BY DEF E
    <3>2. comp_id[e[2]] <= comp_id[e[1]]
      BY <1>1, <1>2, <3>1 DEF ReverseTopological
    <3> QED
      BY <1>2, <1>3, <3>1, <3>2
  <2>3. S \in SUBSET Node
    OBVIOUS
  <2> HIDE DEF S
  <2>4. R[u] \subseteq S
    BY <1>3, <2>1, <2>2, <2>3, ReachableLeast DEF R
  <2> QED
    BY <1>4, <2>4 DEF S
<1>5. ASSUME NEW v \in Node
      PROVE  members(comp_id[v]) = {u \in Node : u \in R[v] /\ v \in R[u]}
  <2>1. ASSUME NEW u \in Node, comp_id[u] = comp_id[v]
        PROVE  u \in R[v] /\ v \in R[u]
    BY <1>1, <1>2, <2>1 DEF Labelled
  <2>2. ASSUME NEW u \in Node, u \in R[v], v \in R[u]
        PROVE  comp_id[u] = comp_id[v]
    BY <1>2, <1>3, <1>4, <2>2
  <2> QED
    BY <2>1, <2>2 DEF members
<1>6. CompNodes = {members(comp_id[v]) : v \in Node}
  <2>1. \A c \in Comp : \E v \in Node : comp_id[v] = c
    BY <1>1 DEF Labelled, members
  <2> QED
    BY <1>2, <2>1 DEF CompNodes
<1>7. CompNodes = {{u \in Node : u \in R[v] /\ v \in R[u]} : v \in Node}
  BY <1>5, <1>6
<1> QED
  BY <1>3, <1>7, ComponentsDef DEF R

\* When the heap is empty every component has been emitted: one that had not, with the
\* greatest id, would have no waiting predecessor.
LEMMA AllEmitted ==
    ASSUME Search, Heap, phase = "done", call = << >>, Visited = Node
    PROVE  \A c \in Comp : Emitted(c)
<1> DEFINE S == {c \in Comp : ~Emitted(c)}
<1> SUFFICES ASSUME S # {} PROVE FALSE
  OBVIOUS
<1>1. /\ ready = {} /\ \A c \in Comp : cindeg[c] = Cardinality(Waiting(c))
      /\ ready = {c \in Comp : ~Emitted(c) /\ cindeg[c] = 0}
  BY DEF Heap, Waiting
<1>2. S \in SUBSET Nat /\ next_comp \in Nat /\ \A c \in S : c <= next_comp
  BY Ids DEF Comp
<1>3. PICK g \in S : \A c \in S : c <= g
  <2> HIDE DEF S
  <2> QED
    BY <1>2, GreatestExists
<1>4. g \in Comp /\ ~Emitted(g)
  BY DEF S
<1>5. Waiting(g) = {}
  <2> SUFFICES ASSUME NEW d \in Comp, g \in cadj(d), ~Emitted(d) PROVE FALSE
    BY DEF Waiting
  <2>1. PICK u \in members(d), v \in members(g) : <<u, v>> \in E
    BY DEF cadj
  <2>2. comp_id[u] = d /\ comp_id[v] = g /\ d # g
    BY DEF members, cadj
  <2>3. d # UNVISITED /\ d \in Nat /\ g \in Nat
    BY <1>4, Ids, SccAssumption
  <2>4. g <= d
    BY <2>1, <2>2, <2>3 DEF Search, ReverseTopological
  <2>5. d <= g
    BY <1>3
  <2> QED
    BY <2>2, <2>3, <2>4, <2>5
<1> QED
  BY <1>1, <1>4, <1>5, ReadyIds

\* Every graph of every size gets the plan the executor's model walks, and only that.
THEOREM SccPlanCorrect == Spec => []PlanCorrect
<1> DEFINE Inv == Search /\ Phases /\ Heap
<1>1. Inv => PlanCorrect
  <2> SUFFICES ASSUME Search, Phases, Heap, phase = "done"
               PROVE  {plan} = kahn_order(Components(Node, E), E)
    BY DEF PlanCorrect
  <2> DEFINE n == Len(plan)
  <2>1. call = << >> /\ Visited = Node
    BY DEF Phases
  <2>2. CompNodes = Components(Node, E) /\ \A c \in Comp : Emitted(c)
    BY <2>1, FoundComponents, AllEmitted
  <2>3. \A i \in 1..n : /\ plan[i] \in ReadyAt(CompNodes, E, plan, i)
                        /\ \A m \in ReadyAt(CompNodes, E, plan, i) : Least(plan[i]) <= Least(m)
    BY DEF Heap
  <2>4. n \in Nat /\ plan \in Seq(SUBSET Node)
    BY LenProperties DEF Search, Types
  <2> HIDE DEF n
  <2>5. plan \in [1..n -> CompNodes]
    <3>1. \A i \in 1..n : plan[i] \in CompNodes
      BY <2>3 DEF ReadyAt
    <3>2. plan = [i \in 1..n |-> plan[i]]
      BY <2>4, LenProperties DEF n
    <3> QED
      BY <3>1, <3>2
  <2>6. plan \in Injection(1..n, CompNodes)
    <3>1. \A i, j \in 1..n : j < i => plan[i] # plan[j]
      <4> SUFFICES ASSUME NEW i \in 1..n, NEW j \in 1..n, j < i PROVE plan[i] # plan[j]
        OBVIOUS
      <4>1. plan[i] \notin Placed(plan, i)
        BY <2>3 DEF ReadyAt
      <4>2. j \in 1..(i - 1)
        OBVIOUS
      <4> QED
        BY <4>1, <4>2 DEF Placed
    <3>2. \A i, j \in 1..n : plan[i] = plan[j] => i = j
      BY <2>4, <3>1
    <3> QED
      BY <2>5, <3>2 DEF Injection, IsInjective
  <2>7. plan \in Surjection(1..n, CompNodes)
    <3>1. \A m \in CompNodes : \E i \in 1..n : plan[i] = m
      BY <2>2 DEF CompNodes, Emitted, n
    <3> QED
      BY <2>5, <3>1 DEF Surjection
  <2>8. IsFiniteSet(Node) /\ E \in SUBSET (Node \X Node) /\ Node \in SUBSET Nat
    BY NodeFinite DEF E
  <2>9. IsFiniteSet(CompNodes)
    BY <2>2, <2>8, ComponentsFinite
  <2>10. Cardinality(CompNodes) = n
    <3>1. Cardinality(1..n) = Cardinality(CompNodes)
      BY <2>6, <2>7, <2>9, FS_Injection
    <3>2. Cardinality(1..n) = n
      BY <2>4, FS_Interval
    <3> QED
      BY <3>1, <3>2
  <2>11. plan \in kahn_order(Components(Node, E), E)
    BY <2>2, <2>3, <2>5, <2>10, KahnOrderDef
  <2>12. \A s \in kahn_order(Components(Node, E), E) : s = plan
    BY <2>8, <2>11, KahnOrderUnique
  <2> QED
    BY <2>11, <2>12
<1>2. Init => Inv
  <2>1. Init => Heap
    BY DEF Init, Heap
  <2> QED
    BY <2>1, SearchInit
<1>3. Inv /\ [Next]_vars => Inv'
  BY SearchStep, HeapStep
<1> QED
  BY <1>1, <1>2, <1>3, PTL DEF Spec
=============================================================================
