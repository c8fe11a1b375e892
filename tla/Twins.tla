-------------------------------- MODULE Twins --------------------------------
(***************************************************************************)
(* Poll-order independence by self-composition.  The testbench spawns two  *)
(* copies of one design, on disjoint wires and in unrelated spawn orders,  *)
(* into one executor and drives both from the same inputs.  Whatever order *)
(* the executor polls its tasks in, the copies must stay equal.            *)
(***************************************************************************)
EXTENDS Executor

CONSTANT twin   \* the wire that takes a wire's place in the other copy

ASSUME TwinAssumption ==
    /\ twin \in [Wire -> Wire]
    /\ \A w \in Wire : twin[twin[w]] = w
    /\ \A w \in Registered : twin[w] \in Registered /\ RegClock[twin[w]] = RegClock[w]
    /\ \A w \in External : twin[w] = w

\* c is the module b, on the other copy's wires.
IsCopy(b, c) ==
    /\ c.dom = b.dom
    /\ Len(c.code) = Len(b.code)
    /\ \A k \in 1..Len(b.code) :
          /\ c.code[k].op = b.code[k].op
          /\ c.code[k].fn = b.code[k].fn
          /\ b.code[k].op \in {"read", "write"} => c.code[k].wire = twin[b.code[k].wire]

\* Both copies of the design have been spawned.
Complete == \A t \in Spawned : \E u \in Spawned : IsCopy(body[t], body[u])

\* A testbench that assembles its design before it starts it.
AssembledFirst == [][n' # n => \A t \in Spawned : birth[t] = None]_vars

\* Both copies show the same value on every wire, between any two calls, whatever
\* the spawn order of their modules and the visit order of each pass
\* (visit_order, compute_scc_plan): the order changes nothing that a testbench sees.
TwinsAgree ==
    stage = "idle" /\ Complete /\ (\A t \in Spawned : birth[t] = 0) /\ WellFormed
        => \A w \in Wire : cell[twin[w]] = cell[w]
=============================================================================
