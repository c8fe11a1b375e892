------------------------------ MODULE Executor -------------------------------
(***************************************************************************)
(* HardwareExecutor (copper-sim/src/executor.rs): tasks are hardware       *)
(* modules compiled to futures; tick_clock settles all of them before and  *)
(* after a clock edge, under one of two schedulers.                        *)
(*                                                                         *)
(* A task's future is the code the #[hardware] macro generates, run        *)
(* cyclically (its body is a `loop`): reads and writes of ports, local     *)
(* computation on one accumulator, and the three awaits                    *)
(*   "tick"     clk.tick().await                                           *)
(*   "barrier"  pre_edge_barrier::<D>().await   (before a Deferred read)   *)
(*   "yield"    delta_yield().await             (combinational modules)    *)
(* One poll runs it up to an await that is not ready.  The testbench is    *)
(* the caller: it spawns, drives external wires, and ticks clocks.         *)
(***************************************************************************)
EXTENDS Integers, Sequences, FiniteSets, Ports, ClockPhase, CombGraph

CONSTANTS Body,           \* modules that may be spawned: [dom, code, reads, dirties]
          NoBody,         \* an empty slot of the task vector
          MaxTasks,       \* bound on the task vector
          MaxClk,         \* bound on each clock
          Apply(_, _, _), \* Apply(fn, acc, v): the local computation fn
          External,       \* wires the testbench drives
          Calls,          \* which executor calls the testbench makes
          Modes,          \* SchedulerModes the testbench selects from
          PollOrders,     \* PollOrders the testbench selects from
          OSCILLATION_THRESHOLD,
          MAX_DELTA_CYCLES

Task == 1..MaxTasks
Await == {"tick", "barrier", "yield"}
Settling == {"pre", "post", "poll"}

ASSUME ExecutorAssumption ==
    /\ MaxTasks \in Nat
    /\ MaxClk \in Nat
    /\ Domain # {}
    /\ External \subseteq Wire \ Registered
    /\ RegClock \in [Registered -> Domain]
    /\ NoBody \notin Body
    /\ OSCILLATION_THRESHOLD \in Nat \ {0}
    /\ MAX_DELTA_CYCLES \in Nat \ {0}
    /\ Modes \subseteq {"Fixpoint", "Levelized"} /\ Modes # {}
    /\ PollOrders \subseteq {"Insertion", "Reversed", "Seeded"} /\ PollOrders # {}

ASSUME NoneIsNoNumber == None \notin Nat

ASSUME BodyAssumption ==
    \A b \in Body :
        /\ b.dom \in Domain
        /\ b.reads \subseteq Wire
        /\ b.dirties \in Seq(Wire)
        /\ Len(b.code) \in Nat \ {0}
        /\ \A k \in 1..Len(b.code) :
              /\ b.code[k].op \in Await \cup {"read", "write", "let"}
              /\ b.code[k].wire \in Wire

ASSUME ApplyAssumption ==
    \A b \in Body : \A k \in 1..Len(b.code) :
        \A a, v \in Value : Apply(b.code[k].fn, a, v) \in Value

VARIABLES
    n,              \* number of tasks spawned (tasks.len())
    body,           \* the module in each slot
    pc, acc, target, yielded,       \* the suspended future of each task
    consecutive_dirty,
    scheduler, poll_order, levelized_plan, graph_dirty, cycle,
    stage,          \* where the caller is: idle, or inside a settle
    dom,            \* the domain being ticked
    groups,         \* components still to settle; the head one is current
    order,          \* tasks still to poll in this pass
    delta, any_dirty,
    running,        \* the task being polled, or 0
    birth, crossed, \* history: the clock when first polled, ticks crossed since
    seen            \* history: what each task last read in this settle

futVars   == <<pc, acc, target, yielded>>
tableVars == <<n, body, scheduler, poll_order, graph_dirty>>
passVars  == <<groups, order, delta, any_dirty, consecutive_dirty>>
histVars  == <<birth, crossed, seen>>

vars == <<portVars, clockVars, futVars, tableVars, passVars, histVars,
          levelized_plan, cycle, stage, dom, running>>

-----------------------------------------------------------------------------
(* The task table.                                                         *)

Spawned == 1..n
tasks == [t \in Spawned |-> body[t]]
Instr(t) == body[t].code[pc[t]]
WiresOf(b, op) == {b.code[k].wire : k \in {j \in 1..Len(b.code) : b.code[j].op = op}}
Reads(b) == WiresOf(b, "read")
Writes(b) == WiresOf(b, "write")
IsSeq(b) == \E k \in 1..Len(b.code) : b.code[k].op = "tick"

\* What the caller of spawn_wired keeps to: `dirties` are the handles of the module's
\* own Outs (its doc comment), and the Outs of External stay with the testbench.
ASSUME OwnershipAssumption ==
    \A b \in Body : Handles(b) \subseteq Writes(b) /\ Writes(b) \cap External = {}

\* #[hardware] puts delta_yield() only into combinational modules, which have no Clock.
ASSUME ModuleKindAssumption ==
    \A b \in Body : IsSeq(b) => \A k \in 1..Len(b.code) : b.code[k].op # "yield"

\* wrap_combinational puts one delta_yield().await at the end of the loop; the body is
\* not async and has no other await.
ASSUME CombinationalAssumption ==
    \A b \in Body : ~IsSeq(b) =>
        /\ b.code[Len(b.code)].op = "yield"
        /\ \A k \in 1..(Len(b.code) - 1) : b.code[k].op \notin Await

\* "An intra-module combinational self-read is unexpressible in Copper"
\* (comb_dependency_graph skips self-edges for that reason).
ASSUME SelfReadAssumption ==
    \A b \in Body : Reads(b) \cap Writes(b) \subseteq Registered

\* The orders in which one pass may visit a group.  The shuffle of a Seeded order
\* is any permutation; the levelized scheduler visits members in spawn order.
visit_order(S) ==
    LET k  == Cardinality(S)
        up == scheduler = "Levelized" \/ poll_order = "Insertion"
    IN  {s \in [1..k -> S] :
            \A i, j \in 1..k : i < j =>
                /\ s[i] # s[j]
                /\ up => s[i] < s[j]
                /\ ~up /\ poll_order = "Reversed" => s[i] > s[j]}

\* A pass over the head of gs begins (or, with no group left, the settle is over).
BeginPass(gs, d) ==
    /\ groups' = gs
    /\ delta' = d
    /\ any_dirty' = FALSE
    /\ order' \in IF gs = << >> THEN {<< >>} ELSE visit_order(Head(gs))
    /\ running' = 0

ensure_graph_once ==
    /\ levelized_plan' \in IF levelized_plan = << >> THEN compute_scc_plan(tasks, Registered)
                          ELSE {levelized_plan}
    /\ graph_dirty' = FALSE

\* The plan is rebuilt if a task was spawned since the last build.
ensure_graph ==
    /\ levelized_plan' \in IF graph_dirty THEN compute_scc_plan(tasks, Registered)
                          ELSE {levelized_plan}
    /\ graph_dirty' = FALSE

\* poll_tasks, up to its first poll: ensure_graph, then the plan (Levelized) or
\* the one group of all tasks (Fixpoint).
poll_tasks ==
    /\ \/ /\ scheduler = "Levelized"
          /\ ensure_graph
          /\ BeginPass(levelized_plan', 0)
       \/ /\ scheduler = "Fixpoint"
          /\ BeginPass(<<Spawned>>, 0)
          /\ UNCHANGED <<levelized_plan, graph_dirty>>
    /\ seen' = [t \in Task |-> [w \in Wire |-> None]]
    /\ UNCHANGED consecutive_dirty

-----------------------------------------------------------------------------
(* The caller.                                                             *)

\* spawn_wired; spawn_untracked and spawn_child are the bodies with no dirties.
\* An Out is not Clone, so no two modules drive the same wire.
spawn_wired(b) ==
    /\ stage = "idle"
    /\ n < MaxTasks
    /\ \A t \in Spawned : Writes(body[t]) \cap Writes(b) = {}
    /\ n' = n + 1
    /\ body' = [body EXCEPT ![n + 1] = b]
    /\ graph_dirty' = TRUE
    /\ UNCHANGED <<portVars, clockVars, futVars, passVars, histVars, scheduler, poll_order,
                   levelized_plan, cycle, stage, dom, running>>

\* The testbench writes an input through its own Out handle.
Drive(w, v) ==
    /\ stage = "idle"
    /\ cell[w] # v
    /\ out_write(w, v)
    /\ UNCHANGED <<clockVars, futVars, tableVars, passVars, histVars,
                   levelized_plan, cycle, stage, dom, running>>

set_scheduler_mode(m, o) ==
    /\ stage = "idle"
    /\ <<m, o>> # <<scheduler, poll_order>>
    /\ scheduler' = m
    /\ poll_order' = o
    /\ UNCHANGED <<portVars, clockVars, futVars, passVars, histVars, n, body, graph_dirty,
                   levelized_plan, cycle, stage, dom, running>>

\* tick_clock begins with pre_edge_settle.
pre_edge_settle(d) ==
    /\ "tick" \in Calls
    /\ stage = "idle"
    /\ clk[d] < MaxClk
    /\ stage' = "pre"
    /\ dom' = d
    /\ set_poll_phase(d, "PreEdge")
    /\ set_tick_resolving(d, FALSE)
    /\ poll_tasks
    /\ UNCHANGED <<portVars, clk, futVars, n, body, scheduler, poll_order, birth, crossed, cycle>>

\* The edge: every register of the domain commits, then the post-edge settle.
post_edge_settle ==
    /\ stage = "edge"
    /\ stage' = "post"
    /\ clock_advance(dom)
    /\ on_posedge(dom)
    /\ set_poll_phase(dom, "PostEdge")
    /\ set_tick_resolving(dom, TRUE)
    /\ poll_tasks
    /\ UNCHANGED <<futVars, n, body, scheduler, poll_order, birth, crossed, cycle, dom>>

\* advance: the clock edge only, no polling.
advance(d) ==
    /\ "advance" \in Calls
    /\ stage = "idle"
    /\ clk[d] < MaxClk
    /\ clock_advance(d)
    /\ on_posedge(d)
    /\ cycle' = cycle + 1
    /\ UNCHANGED <<phase, resolving, futVars, tableVars, passVars, histVars,
                   levelized_plan, stage, dom, running>>

\* A bare poll_tasks call: settle without touching any clock or phase.
BarePoll ==
    /\ "poll" \in Calls
    /\ stage = "idle"
    /\ stage' = "poll"
    /\ poll_tasks
    /\ UNCHANGED <<portVars, clockVars, futVars, n, body, scheduler, poll_order, birth, crossed,
                   cycle, dom>>
-----------------------------------------------------------------------------
(* One poll of one future.                                                 *)

Poll ==
    /\ stage \in Settling
    /\ running = 0
    /\ order # << >>
    /\ running' = Head(order)
    /\ UNCHANGED <<portVars, clockVars, futVars, tableVars, passVars, histVars,
                   levelized_plan, cycle, stage, dom>>

At(op) == running # 0 /\ Instr(running).op = op
NextPc_past_end(t) == pc[t] + 1
NextPc(t) == (pc[t] % Len(body[t].code)) + 1

ReadPort ==
    /\ At("read")
    /\ LET w == Instr(running).wire
       IN  /\ acc' = [acc EXCEPT ![running] = Apply(Instr(running).fn, @, cell[w])]
           /\ seen' = [seen EXCEPT ![running][w] = cell[w]]
    /\ pc' = [pc EXCEPT ![running] = NextPc(running)]
    /\ UNCHANGED <<portVars, clockVars, target, yielded, tableVars, passVars, birth, crossed,
                   levelized_plan, cycle, stage, dom, running>>

WritePort ==
    /\ At("write")
    /\ Write(Instr(running).wire, acc[running])
    /\ pc' = [pc EXCEPT ![running] = NextPc(running)]
    /\ UNCHANGED <<clockVars, acc, target, yielded, tableVars, passVars, histVars,
                   levelized_plan, cycle, stage, dom, running>>

Compute ==
    /\ At("let")
    /\ acc' = [acc EXCEPT ![running] = Apply(Instr(running).fn, @, @)]
    /\ pc' = [pc EXCEPT ![running] = NextPc(running)]
    /\ UNCHANGED <<portVars, clockVars, target, yielded, tableVars, passVars, histVars,
                   levelized_plan, cycle, stage, dom, running>>

Ready_no_yield(t) ==
    CASE Instr(t).op = "tick"    -> target[t] # None /\ tick_ready(body[t].dom, target[t])
      [] Instr(t).op = "barrier" -> barrier_ready(body[t].dom)
      [] OTHER                   -> TRUE

\* ClockTick, PreEdgeBarrier and DeltaYield: is the await at t's pc ready?
\* A tick or yield future that was just created never is.
Ready(t) ==
    CASE Instr(t).op = "tick"    -> target[t] # None /\ tick_ready(body[t].dom, target[t])
      [] Instr(t).op = "barrier" -> barrier_ready(body[t].dom)
      [] OTHER                   -> yielded[t]

Resume ==
    /\ running # 0
    /\ Instr(running).op \in Await
    /\ Ready(running)
    /\ pc' = [pc EXCEPT ![running] = NextPc(running)]
    /\ target' = [target EXCEPT ![running] = None]
    /\ yielded' = [yielded EXCEPT ![running] = FALSE]
    /\ crossed' = [crossed EXCEPT ![running] = IF At("tick") THEN @ + 1 ELSE @]
    /\ UNCHANGED <<portVars, clockVars, acc, tableVars, passVars, birth, seen,
                   levelized_plan, cycle, stage, dom, running>>

Singleton == scheduler = "Levelized" /\ Cardinality(Head(groups)) = 1

\* The handles a finished poll clears: poll_task_once takes every one, while
\* `port_dirties.iter().any(|h| h.take())` stops at the first that was set.
DirtyHandles(t) == {k \in 1..Len(body[t].dirties) : dirty[body[t].dirties[k]]}

Taken_first_only(t) == IF DirtyHandles(t) = {} THEN {}
                       ELSE {body[t].dirties[Least(DirtyHandles(t))]}

Taken(t) == IF Singleton THEN Handles(body[t])
            ELSE IF DirtyHandles(t) = {} THEN {}
            ELSE {body[t].dirties[Least(DirtyHandles(t))]}

\* The future returns Pending and the executor consumes its dirty flags.
Suspend ==
    /\ running # 0
    /\ Instr(running).op \in Await
    /\ ~Ready(running)
    /\ target' = [target EXCEPT ![running] =
                    IF At("tick") /\ @ = None THEN tick_target(body[running].dom) ELSE @]
    /\ yielded' = [yielded EXCEPT ![running] = At("yield")]
    /\ take(Taken(running))
    /\ \/ /\ Singleton
          /\ UNCHANGED <<consecutive_dirty, any_dirty>>
       \/ /\ ~Singleton
          /\ consecutive_dirty' = [consecutive_dirty EXCEPT ![running] =
                                     IF DirtyHandles(running) # {} THEN @ + 1 ELSE 0]
          /\ any_dirty' = (any_dirty \/ DirtyHandles(running) # {})
    /\ running' = 0
    /\ order' = Tail(order)
    /\ birth' = [birth EXCEPT ![running] = IF @ = None THEN clk[body[running].dom] ELSE @]
    /\ UNCHANGED <<cell, pending, clockVars, pc, acc, tableVars, groups, delta, crossed, seen,
                   levelized_plan, cycle, stage, dom>>
-----------------------------------------------------------------------------
(* The end of a pass: poll_tasks_fixpoint, iterate_scc, poll_tasks_levelized. *)

PassDone == stage \in Settling /\ running = 0 /\ order = << >> /\ groups # << >>

\* The group is settled: a singleton after its one poll, any other group after
\* a pass in which nothing changed.
GroupSettled ==
    /\ PassDone
    /\ Singleton \/ ~any_dirty
    /\ consecutive_dirty' = [t \in Task |-> IF ~Singleton /\ t \in Head(groups) THEN 0
                                            ELSE consecutive_dirty[t]]
    /\ BeginPass(Tail(groups), 0)
    /\ UNCHANGED <<portVars, clockVars, futVars, tableVars, histVars,
                   levelized_plan, cycle, stage, dom>>

Oscillating_early == \E t \in Head(groups) : consecutive_dirty[t] >= OSCILLATION_THRESHOLD - 1

Oscillating == \E t \in Head(groups) : consecutive_dirty[t] >= OSCILLATION_THRESHOLD

\* Something changed: another pass over the same group.
Iterate ==
    /\ PassDone
    /\ ~Singleton /\ any_dirty
    /\ ~Oscillating
    /\ delta + 1 < MAX_DELTA_CYCLES
    /\ BeginPass(groups, delta + 1)
    /\ UNCHANGED <<portVars, clockVars, futVars, tableVars, histVars, consecutive_dirty,
                   levelized_plan, cycle, stage, dom>>

\* "Combinational loop detected", or the delta-cycle limit.  The panic unwinds
\* poll_tasks, which had taken the plan out of the executor.
Panic ==
    /\ PassDone
    /\ ~Singleton /\ any_dirty
    /\ Oscillating \/ delta + 1 >= MAX_DELTA_CYCLES
    /\ stage' = "panic"
    /\ levelized_plan' = IF scheduler = "Levelized" THEN << >> ELSE levelized_plan
    /\ UNCHANGED <<portVars, clockVars, futVars, tableVars, passVars, histVars,
                   cycle, dom, running>>

SettleDone == stage \in Settling /\ running = 0 /\ groups = << >>

\* poll_tasks returns; a post-edge settle also counts the cycle.
Return ==
    /\ SettleDone
    /\ stage' = IF stage = "pre" THEN "edge" ELSE "idle"
    /\ cycle' = IF stage = "post" THEN cycle + 1 ELSE cycle
    /\ UNCHANGED <<portVars, clockVars, futVars, tableVars, passVars, histVars,
                   levelized_plan, dom, running>>
-----------------------------------------------------------------------------
Init ==
    /\ PortsInit
    /\ ClockInit
    /\ n = 0
    /\ body = [t \in Task |-> NoBody]
    /\ pc = [t \in Task |-> 1]
    /\ acc = [t \in Task |-> InitValue]
    /\ target = [t \in Task |-> None]
    /\ yielded = [t \in Task |-> FALSE]
    /\ consecutive_dirty = [t \in Task |-> 0]
    /\ scheduler \in Modes
    /\ poll_order \in PollOrders
    /\ levelized_plan = << >>
    /\ graph_dirty = TRUE
    /\ cycle = 0
    /\ stage = "idle"
    /\ dom = CHOOSE d \in Domain : TRUE
    /\ groups = << >>
    /\ order = << >>
    /\ delta = 0
    /\ any_dirty = FALSE
    /\ running = 0
    /\ birth = [t \in Task |-> None]
    /\ crossed = [t \in Task |-> 0]
    /\ seen = [t \in Task |-> [w \in Wire |-> None]]

Caller ==
    \/ \E b \in Body : spawn_wired(b)
    \/ \E w \in External, v \in Value : Drive(w, v)
    \/ \E m \in Modes, o \in PollOrders : set_scheduler_mode(m, o)
    \/ \E d \in Domain : pre_edge_settle(d) \/ advance(d)
    \/ BarePoll

\* Everything the executor does by itself, between a call and its return.
Settle ==
    \/ post_edge_settle
    \/ Poll \/ ReadPort \/ WritePort \/ Compute \/ Resume \/ Suspend
    \/ GroupSettled \/ Iterate \/ Panic \/ Return

Next == Caller \/ Settle

Spec == Init /\ [][Next]_vars

\* A settle runs on the caller's thread until it returns or panics.
FairSpec == Spec /\ WF_vars(Settle)
-----------------------------------------------------------------------------
(* Properties.                                                             *)

TableTypeOK ==
    /\ n \in 0..MaxTasks
    /\ body \in [Task -> Body \cup {NoBody}]
    /\ \A t \in Spawned : body[t] \in Body
    /\ scheduler \in Modes
    /\ poll_order \in PollOrders
    /\ graph_dirty \in BOOLEAN
    /\ levelized_plan \in Seq(SUBSET Spawned)

FutureTypeOK ==
    /\ pc \in [Task -> Nat \ {0}]
    /\ \A t \in Spawned : pc[t] \in 1..Len(body[t].code)
    /\ acc \in [Task -> Value]
    /\ target \in [Task -> Nat \cup {None}]
    /\ yielded \in [Task -> BOOLEAN]

PassTypeOK ==
    /\ consecutive_dirty \in [Task -> Nat]
    /\ groups \in Seq(SUBSET Spawned)
    /\ order \in Seq(Spawned)
    /\ delta \in Nat
    /\ any_dirty \in BOOLEAN
    /\ running \in 0..n
    /\ stage \in Settling \cup {"idle", "edge", "panic"}
    /\ dom \in Domain
    /\ cycle \in Nat

HistTypeOK ==
    /\ birth \in [Task -> Nat \cup {None}]
    /\ crossed \in [Task -> Nat]
    /\ seen \in [Task -> [Wire -> Value \cup {None}]]

\* Type invariant: every field of the executor, of its tasks and of the pass in
\* progress has the type the Rust declarations give it, and indices stay in range.
TypeOK == PortsTypeOK /\ ClockTypeOK /\ TableTypeOK /\ FutureTypeOK /\ PassTypeOK /\ HistTypeOK

\* A task whose spawn declared what its code really reads and drives.
Honest(b) == b.reads = Reads(b) /\ Handles(b) = Writes(b)

\* No combinational cycle, other than one made of combinational modules only.
WellFormed ==
    /\ \A t \in Spawned : Honest(body[t])
    /\ \A c \in comb_cycles(tasks, Registered) : \A t \in c : ~IsSeq(body[t])

\* When a settle ends, whatever a task read during it is still the value on the
\* wire: nobody acted on a value that changed later in the same phase.  This is
\* why one poll per task in plan order suffices (poll_tasks_levelized).
ReadsSettled ==
    SettleDone /\ WellFormed =>
        \A t \in Spawned, w \in Wire : seen[t][w] \in {None, cell[w]}

\* The same of the combinational modules only, whose delta_yield loop re-reads
\* on every pass: the promise of the fixpoint settle (poll_tasks_fixpoint).
CombReadsSettled ==
    SettleDone /\ WellFormed =>
        \A t \in Spawned, w \in Wire :
            ~IsSeq(body[t]) => seen[t][w] \in {None, cell[w]}

\* Between calls every module has crossed exactly one tick().await per edge of
\* its clock since it was first polled: no edge is missed, none is counted twice,
\* whatever other domains did meanwhile (tick_clock, ClockTick::poll).
LockstepTicks ==
    stage = "idle" =>
        \A t \in Spawned :
            birth[t] # None /\ IsSeq(body[t]) => crossed[t] = clk[body[t].dom] - birth[t]

\* A module never runs through two clock edges on the strength of one: each tick
\* it crosses used up a different edge of its own clock (Clock::tick, ClockTick::poll).
NoTickCompression ==
    \A t \in Spawned :
        birth[t] # None => birth[t] + crossed[t] <= clk[body[t].dom]

\* Ticking one clock moves no module of another: once polled, a sequential task
\* makes progress only in settles of its own domain (per-domain POLL_PHASE and
\* TICK_RESOLVING).
DomainIsolation ==
    [][\A t \in Spawned :
          /\ stage \in {"pre", "post"} /\ body[t].dom # dom
          /\ IsSeq(body[t]) /\ birth[t] # None
          => <<pc[t], acc[t]>>' = <<pc[t], acc[t]>>]_vars

\* A registered wire changes only when its own clock advances, and then only to the
\* value last written to it: it is constant during every settle, which is why
\* comb_dependency_graph may leave its readers unordered (RegOutShared::on_posedge).
RegisteredHeld ==
    [][\A w \in Registered : cell'[w] # cell[w] =>
          clk'[RegClock[w]] = clk[RegClock[w]] + 1 /\ cell'[w] = pending[w]]_vars

\* Only a genuine combinational cycle is reported as one (iterate_scc's panic).
PanicOnlyOnCycle == stage = "panic" => comb_cycles(tasks, Registered) # {}

\* The plan a levelized settle walks lists every spawned task once, and a
\* producer's component never after its consumer's (ensure_graph after late spawns).
PlanCurrent ==
    stage \in {"idle", "edge"} /\ scheduler = "Levelized" /\ ~graph_dirty =>
        LET pos(t) == {i \in 1..Len(levelized_plan) : t \in levelized_plan[i]}
        IN  /\ \A t \in Spawned : Cardinality(pos(t)) = 1
            /\ \A e \in comb_dependency_graph(tasks, Registered) :
                  \A i \in pos(e[1]), j \in pos(e[2]) : i <= j

\* A finished settle has consumed every change it was told of: no handle of any
\* task is still dirty, although `any(|h| h.take())` leaves flags behind
\* (poll_task_once, iterate_scc, poll_tasks_fixpoint).
NoDirtyLeft ==
    SettleDone => \A t \in Spawned : \A w \in Handles(body[t]) : ~dirty[w]

\* A Deferred read samples in the pre-edge settle of its own clock, before the edge
\* moves anything (PreEdgeBarrier, injected by the macro before the read).  Until the
\* clock's first edge it may sample in any settle: a domain without an entry in
\* POLL_PHASE counts as pre-edge.
DeferredReadsAtOwnPreEdge ==
    [][ReadPort /\ pc[running] > 1 /\ body[running].code[pc[running] - 1].op = "barrier"
         => \/ stage = "pre" /\ dom = body[running].dom
            \/ clk[body[running].dom] = 0]_vars

\* Every settle comes to an end: it returns to the caller or panics.
SettleTerminates == (stage \in Settling) ~> (stage \in {"idle", "edge", "panic"})
=============================================================================
