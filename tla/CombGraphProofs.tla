--------------------------- MODULE CombGraphProofs ----------------------------
(***************************************************************************)
(* Facts about the graph operators of CombGraph, for any finite set of     *)
(* tasks: least elements, reachability, strongly connected components and  *)
(* the order Kahn's algorithm gives them.                                  *)
(***************************************************************************)
EXTENDS CombGraph, TLAPS, FiniteSetTheorems

\* Every non-empty set of task indices has a least element.
LEMMA LeastExists ==
    ASSUME NEW S \in SUBSET Nat, S # {}
    PROVE  \E x \in S : \A y \in S : x <= y
<1> DEFINE T == {0..m : m \in S}
<1>1. T \subseteq FiniteSubsetsOf(Nat)
  <2>1. ASSUME NEW m \in S
        PROVE  0..m \in SUBSET Nat /\ IsFiniteSet(0..m)
    BY FS_Interval
  <2> QED
    BY <2>1 DEF FiniteSubsetsOf
<1>2. T # {}
  OBVIOUS
<1>3. PICK I \in T : \A J \in T : ~(<<J, I>> \in StrictSubsetOrdering(Nat))
  BY <1>1, <1>2, FS_StrictSubsetOrderingWellFounded, WFMin
<1>4. PICK x \in S : I = 0..x
  BY <1>3
<1>5. ASSUME NEW y \in S, ~(x <= y)
      PROVE  FALSE
  <2>1. 0..y \subseteq 0..x /\ 0..y # 0..x
    <3>1. x \in 0..x /\ x \notin 0..y
      BY <1>5
    <3> QED
      BY <1>5, <3>1
  <2>2. <<0..y, 0..x>> \in StrictSubsetOrdering(Nat)
    BY <2>1 DEF StrictSubsetOrdering
  <2> QED
    BY <1>3, <1>4, <2>2
<1> QED
  BY <1>5

\* The least member of a non-empty set.
LEMMA LeastType ==
    ASSUME NEW S \in SUBSET Nat, S # {}
    PROVE  Least(S) \in S /\ \A y \in S : Least(S) <= y
BY LeastExists DEF Least

\* Induction over the natural numbers, for a set instead of a predicate.
LEMMA NatSetInduction ==
    ASSUME NEW P \in SUBSET Nat, 0 \in P, \A k \in P : k + 1 \in P
    PROVE  P = Nat
<1> SUFFICES ASSUME Nat \ P # {}
             PROVE  FALSE
  OBVIOUS
<1>1. PICK x \in Nat \ P : \A y \in Nat \ P : x <= y
  BY LeastExists
<1>2. x - 1 \in P
  BY <1>1
<1> QED
  BY <1>1, <1>2

\* A non-empty set of task indices below a bound has a greatest element.
LEMMA GreatestExists ==
    ASSUME NEW S \in SUBSET Nat, S # {}, NEW b \in Nat, \A x \in S : x <= b
    PROVE  \E x \in S : \A y \in S : y <= x
<1> DEFINE T == {y \in Nat : y <= b /\ b - y \in S}
<1>1. ASSUME NEW x \in S
      PROVE  b - x \in T
  <2>1. x \in Nat /\ x <= b
    OBVIOUS
  <2>2. b - x \in Nat /\ b - x <= b /\ b - (b - x) = x
    BY <2>1
  <2>3. b - (b - x) \in S
    BY <2>2
  <2> QED
    BY <2>2, <2>3
<1>2. T \in SUBSET Nat /\ T # {}
  BY <1>1
<1>3. PICK m \in T : \A y \in T : m <= y
  BY <1>2, LeastExists
<1>4. m \in Nat /\ b - m \in S
  BY <1>3
<1>5. ASSUME NEW y \in S
      PROVE  y <= b - m
  <2>1. m <= b - y
    BY <1>1, <1>3
  <2>2. y \in Nat
    OBVIOUS
  <2> QED
    BY <1>4, <2>1, <2>2
<1> QED
  BY <1>4, <1>5

-----------------------------------------------------------------------------
\* Reachability is reflexive, follows edges and is transitive.
LEMMA ReachableSteps ==
    ASSUME NEW nodes, NEW E \in SUBSET (nodes \X nodes)
    PROVE  LET R == Reachable(nodes, E)
           IN  /\ R \in [nodes -> SUBSET nodes]
               /\ \A u \in nodes : u \in R[u]
               /\ \A u, v, w \in nodes : v \in R[u] /\ <<v, w>> \in E => w \in R[u]
               /\ \A u, v, w \in nodes : v \in R[u] /\ w \in R[v] => w \in R[u]
BY DEF Reachable, Closed

\* Nothing reachable from u lies outside a set that holds u and that no edge leaves.
LEMMA ReachableLeast ==
    ASSUME NEW nodes, NEW E \in SUBSET (nodes \X nodes), NEW S \in SUBSET nodes,
           \A e \in E : e[1] \in S => e[2] \in S,
           NEW u \in S
    PROVE  Reachable(nodes, E)[u] \subseteq S
BY DEF Reachable, Closed

\* A component is a class of nodes that reach each other.
LEMMA ComponentsDef ==
    ASSUME NEW nodes, NEW E \in SUBSET (nodes \X nodes)
    PROVE  LET R == Reachable(nodes, E)
           IN  Components(nodes, E) = {{u \in nodes : u \in R[v] /\ v \in R[u]} : v \in nodes}
<1> DEFINE R == Reachable(nodes, E)
           closed == Closed(nodes, E)
           same(v) == {u \in nodes : \A S \in closed : u \in S <=> v \in S}
           comp(v) == {u \in nodes : u \in R[v] /\ v \in R[u]}
<1>1. ASSUME NEW v \in nodes, NEW u \in nodes
      PROVE  (u \in R[v] /\ v \in R[u]) <=> \A S \in closed : u \in S <=> v \in S
  BY DEF Reachable
<1> HIDE DEF R, closed
<1>2. \A v \in nodes : same(v) = comp(v)
  BY <1>1
<1>3. Components(nodes, E) = {same(v) : v \in nodes}
  BY DEF Components, closed
<1> HIDE DEF same, comp
<1>4. {same(v) : v \in nodes} = {comp(v) : v \in nodes}
  BY <1>2
<1> QED
  BY <1>3, <1>4 DEF comp, R

\* The components partition the nodes, and any two nodes of one reach each other.
LEMMA ComponentsPartition ==
    ASSUME NEW nodes, NEW E \in SUBSET (nodes \X nodes)
    PROVE  /\ Components(nodes, E) \subseteq SUBSET nodes
           /\ \A c \in Components(nodes, E) : c # {}
           /\ \A v \in nodes : \E c \in Components(nodes, E) : v \in c
           /\ \A c, d \in Components(nodes, E) : c \cap d # {} => c = d
<1> DEFINE R == Reachable(nodes, E)
           comp(v) == {u \in nodes : u \in R[v] /\ v \in R[u]}
<1>1. Components(nodes, E) = {comp(v) : v \in nodes}
  BY ComponentsDef
<1>2. /\ \A u \in nodes : u \in R[u]
      /\ \A u, v, w \in nodes : v \in R[u] /\ w \in R[v] => w \in R[u]
  BY ReachableSteps
<1> HIDE DEF R
<1>3. \A v \in nodes : v \in comp(v) /\ comp(v) \subseteq nodes
  BY <1>2
<1>4. ASSUME NEW v \in nodes, NEW w \in nodes, comp(v) \cap comp(w) # {}
      PROVE  comp(v) = comp(w)
  <2>1. w \in R[v] /\ v \in R[w]
    BY <1>2, <1>4
  <2> QED
    BY <1>2, <2>1
<1> HIDE DEF comp
<1> QED
  BY <1>1, <1>3, <1>4

-----------------------------------------------------------------------------
(* Kahn's algorithm.  The three notions of kahn_order, for the i-th choice of s. *)

Pred(comps, E, c) == {d \in comps \ {c} : \E u \in d, v \in c : <<u, v>> \in E}
Placed(s, i) == {s[j] : j \in 1..(i - 1)}
ReadyAt(comps, E, s, i) ==
    {c \in comps \ Placed(s, i) : Pred(comps, E, c) \subseteq Placed(s, i)}

\* The orders of kahn_order, in these words.
LEMMA KahnOrderDef ==
    ASSUME NEW comps, NEW E, NEW s
    PROVE  s \in kahn_order(comps, E) <=>
              /\ s \in [1..Cardinality(comps) -> comps]
              /\ \A i \in 1..Cardinality(comps) :
                    /\ s[i] \in ReadyAt(comps, E, s, i)
                    /\ \A d \in ReadyAt(comps, E, s, i) : Least(s[i]) <= Least(d)
BY DEF kahn_order, ReadyAt, Placed, Pred

\* The components of a finite graph are finitely many.
LEMMA ComponentsFinite ==
    ASSUME NEW nodes, IsFiniteSet(nodes), NEW E \in SUBSET (nodes \X nodes)
    PROVE  IsFiniteSet(Components(nodes, E)) /\ Cardinality(Components(nodes, E)) \in Nat
<1>1. IsFiniteSet(SUBSET nodes)
  BY FS_SUBSET
<1> QED
  BY <1>1, ComponentsPartition, FS_Subset, FS_CardinalityType

\* An order lists every component exactly once.
LEMMA KahnOrderComplete ==
    ASSUME NEW comps, IsFiniteSet(comps), NEW E, NEW s \in kahn_order(comps, E)
    PROVE  /\ \A i, j \in 1..Cardinality(comps) : s[i] = s[j] => i = j
           /\ \A c \in comps : \E i \in 1..Cardinality(comps) : s[i] = c
<1> DEFINE k == Cardinality(comps)
<1>1. k \in Nat
  BY FS_CardinalityType
<1>2. /\ s \in [1..k -> comps]
      /\ \A i \in 1..k : s[i] \in ReadyAt(comps, E, s, i)
  BY KahnOrderDef
<1> HIDE DEF k
<1>3. ASSUME NEW i \in 1..k, NEW j \in 1..k, i < j, s[i] = s[j]
      PROVE  FALSE
  <2>1. s[i] \in Placed(s, j)
    BY <1>1, <1>3 DEF Placed
  <2> QED
    BY <1>2, <1>3, <2>1 DEF ReadyAt
<1>4. \A i, j \in 1..k : s[i] = s[j] => i = j
  BY <1>1, <1>3
<1>5. s \in Injection(1..k, comps)
  BY <1>2, <1>4 DEF Injection, IsInjective
<1>6. IsFiniteSet(1..k) /\ Cardinality(1..k) = k
  BY <1>1, FS_Interval
<1>7. s \in Surjection(1..k, comps)
  BY <1>5, <1>6, FS_Injection DEF k
<1>8. \A c \in comps : \E i \in 1..k : s[i] = c
  BY <1>7 DEF Surjection
<1> QED
  BY <1>4, <1>8 DEF k

\* An order puts a producer's component never after its consumer's.
LEMMA KahnOrderSorted ==
    ASSUME NEW comps, IsFiniteSet(comps), NEW E, NEW s \in kahn_order(comps, E),
           NEW i \in 1..Cardinality(comps), NEW j \in 1..Cardinality(comps),
           NEW u \in s[i], NEW v \in s[j], <<u, v>> \in E
    PROVE  i <= j
<1> SUFFICES ASSUME i # j
             PROVE  i < j
  BY FS_CardinalityType
<1>1. s[i] \in comps /\ s[j] \in comps /\ s[i] # s[j]
  <2>1. s \in [1..Cardinality(comps) -> comps]
    BY KahnOrderDef
  <2>2. s[i] = s[j] => i = j
    BY KahnOrderComplete
  <2> QED
    BY <2>1, <2>2
<1>2. s[i] \in Pred(comps, E, s[j])
  BY <1>1 DEF Pred
<1>3. s[i] \in Placed(s, j)
  BY <1>2, KahnOrderDef DEF ReadyAt
<1>4. PICK l \in 1..(j - 1) : s[l] = s[i]
  BY <1>3 DEF Placed
<1>5. Cardinality(comps) \in Nat
  BY FS_CardinalityType
<1>6. l \in 1..Cardinality(comps) /\ l < j
  BY <1>4, <1>5
<1>7. l = i
  BY <1>4, <1>6, KahnOrderComplete
<1> QED
  BY <1>6, <1>7

\* There is only one order: the least ready member decides every choice.
LEMMA KahnOrderUnique ==
    ASSUME NEW nodes \in SUBSET Nat, IsFiniteSet(nodes), NEW E \in SUBSET (nodes \X nodes),
           NEW s \in kahn_order(Components(nodes, E), E),
           NEW t \in kahn_order(Components(nodes, E), E)
    PROVE  s = t
<1> DEFINE comps == Components(nodes, E)
           k == Cardinality(comps)
           Agree == {i \in Nat : \A j \in 1..k : j <= i => s[j] = t[j]}
<1>1. k \in Nat
  BY ComponentsFinite
<1>2. /\ s \in [1..k -> comps] /\ t \in [1..k -> comps]
      /\ \A i \in 1..k :
            /\ s[i] \in ReadyAt(comps, E, s, i) /\ t[i] \in ReadyAt(comps, E, t, i)
            /\ \A d \in ReadyAt(comps, E, s, i) : Least(s[i]) <= Least(d)
            /\ \A d \in ReadyAt(comps, E, t, i) : Least(t[i]) <= Least(d)
  BY KahnOrderDef
<1>3. /\ comps \subseteq SUBSET nodes /\ \A c \in comps : c # {}
      /\ \A c, d \in comps : c \cap d # {} => c = d
  BY ComponentsPartition
<1> HIDE DEF comps, k
<1>4. ASSUME NEW i \in Nat, i \in Agree
      PROVE  i + 1 \in Agree
  <2> SUFFICES ASSUME i + 1 \in 1..k
               PROVE  s[i + 1] = t[i + 1]
    BY <1>1, <1>4
  <2>1. Placed(s, i + 1) = Placed(t, i + 1)
    <3>1. \A j \in 1..((i + 1) - 1) : s[j] = t[j]
      BY <1>1, <1>4
    <3> QED
      BY <3>1 DEF Placed
  <2>2. ReadyAt(comps, E, s, i + 1) = ReadyAt(comps, E, t, i + 1)
    BY <2>1 DEF ReadyAt
  <2> DEFINE c == s[i + 1]
             d == t[i + 1]
  <2>3. c \in comps /\ d \in comps
    BY <1>2
  <2>4. Least(c) <= Least(d) /\ Least(d) <= Least(c)
    BY <1>2, <2>2
  <2>5. /\ c \in SUBSET Nat /\ c # {}
        /\ d \in SUBSET Nat /\ d # {}
    BY <1>3, <2>3
  <2> HIDE DEF c, d
  <2>6. Least(c) \in c /\ Least(d) \in d /\ Least(c) \in Nat /\ Least(d) \in Nat
    BY <2>5, LeastType
  <2>7. Least(c) = Least(d)
    BY <2>4, <2>6
  <2>8. c = d
    BY <1>3, <2>3, <2>6, <2>7
  <2> QED
    BY <2>8 DEF c, d
<1>5. Agree = Nat
  <2>1. 0 \in Agree
    BY <1>1
  <2>2. Agree \in SUBSET Nat
    OBVIOUS
  <2> HIDE DEF Agree
  <2> QED
    BY <1>4, <2>1, <2>2, NatSetInduction
<1>6. \A j \in 1..k : s[j] = t[j]
  BY <1>1, <1>5
<1>7. s = [j \in 1..k |-> s[j]] /\ t = [j \in 1..k |-> t[j]]
  BY <1>2
<1>8. [j \in 1..k |-> s[j]] = [j \in 1..k |-> t[j]]
  BY <1>6
<1> QED
  BY <1>7, <1>8
=============================================================================
