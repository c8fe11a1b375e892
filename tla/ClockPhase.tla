----------------------------- MODULE ClockPhase ------------------------------
(***************************************************************************)
(* Clocks and the two per-domain phase signals that gate suspended tasks   *)
(* (copper-core/src/types.rs Clock and ClockTick; copper-sim/src/lib.rs    *)
(* PollPhase and PreEdgeBarrier).  Both signals are thread-locals keyed by *)
(* domain with a default used until the domain's first settle.             *)
(***************************************************************************)
EXTENDS Integers

CONSTANT Domain

VARIABLES clk,        \* ClockState::cycle
          phase,      \* POLL_PHASE
          resolving   \* TICK_RESOLVING

clockVars == <<clk, phase, resolving>>

ClockTypeOK == /\ clk \in [Domain -> Nat]
               /\ phase \in [Domain -> {"PreEdge", "PostEdge"}]
               /\ resolving \in [Domain -> BOOLEAN]

ClockInit == /\ clk = [d \in Domain |-> 0]
             /\ phase = [d \in Domain |-> "PreEdge"]
             /\ resolving = [d \in Domain |-> TRUE]

set_poll_phase_global(d, p) == phase' = [e \in Domain |-> p]

set_poll_phase(d, p) == phase' = [phase EXCEPT ![d] = p]

set_tick_resolving(d, b) == resolving' = [resolving EXCEPT ![d] = b]

clock_advance(d) == clk' = [clk EXCEPT ![d] = @ + 1]

tick_target_now(d) == clk[d]
tick_target_late(d) == clk[d] + 2

\* Clock::tick: the future completes at the next edge.
tick_target(d) == clk[d] + 1

\* ClockTick::poll
tick_ready(d, target) == clk[d] >= target /\ resolving[d]

barrier_ready_always(d) == TRUE

\* PreEdgeBarrier::poll
barrier_ready(d) == phase[d] = "PreEdge"
=============================================================================
