------------------------------- MODULE MCTwins -------------------------------
(***************************************************************************)
(* Two copies of a design of up to two modules, on an instance of Executor. *)
(***************************************************************************)
EXTENDS MCExecutor, Twins

CONSTANTS a2, b2, r2,
          OrderFree   \* the modules explored under the fixpoint scheduler

TwinRegClock == [w \in {r, r2} |-> A]

MCtwin == [w \in Wire |-> CASE w = a -> a2 [] w = b -> b2 [] w = r -> r2
                            [] w = a2 -> a [] w = b2 -> b [] w = r2 -> r
                            [] OTHER -> w]

\* The modules of a copy on wires x, y and the registered z.
Modules(x, y, z) ==
    <<add_one(in, x), buf(x, y), counter(A, x), accum(A, in, z), trailing(A, z, y),
      or_gate(in, z, x), dff(A, x, y), accum(A, x, z), trailing(A, x, y)>>

First == Modules(a, b, r)
Second == Modules(a2, b2, r2)

Copies(K) == {First[k] : k \in K} \cup {Second[k] : k \in K}

\* Every kind of module, and the ones whose reads are deferred, registered or
\* combinational.
TwinBodies == Copies(1..9)
SafeTwinBodies == Copies(1..6)

BodiesIn == {body[t] : t \in Spawned}
Lone == {k \in 1..9 : (First[k] \in BodiesIn) # (Second[k] \in BodiesIn)}

\* Exploration bound: designs that can still be completed to two copies, no tick
\* before they are, and only some modules under the fixpoint scheduler.
TwinDesigns ==
    /\ Cardinality(Lone) <= MaxTasks - n
    /\ stage = "idle" \/ Lone = {}
    /\ scheduler = "Fixpoint" => BodiesIn \subseteq OrderFree
=============================================================================
