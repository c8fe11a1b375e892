# Copper: specifications, model checking and proofs

Copper (`samdreu/rudl2`) is a hardware description language embedded in Rust. A
hardware module is an `async fn`; `clk.tick().await` is a clock edge. The same source
is simulated, by polling the futures, and transpiled to SystemVerilog. This directory
holds TLA+ specifications of the simulator, of the analyses and the macro that accept or
refuse a module, and of the transpiler, with TLC configurations and TLAPS proofs.

## 1. Inventory of the system

| Component | Source | State | Operations | Modelled by |
|---|---|---|---|---|
| Wires and ports | `copper-core/src/port.rs` | value cell, dirty flag, pending value | `Out::write`, `RegOut::write`, `In::read`, `DirtyHandle::take`, `on_posedge` | `Ports` |
| Clocks, phases | `copper-core/src/types.rs`, `copper-sim/src/lib.rs` | cycle, `POLL_PHASE`, `TICK_RESOLVING` per domain | `advance`, `tick`, the polls of `ClockTick`, `PreEdgeBarrier`, `DeltaYield` | `ClockPhase`, `Executor` |
| Dependency graph and plan | `copper-sim/src/executor.rs` | none (pure) | `comb_dependency_graph`, `tarjan_scc`, `compute_scc_plan`, `comb_cycles` | `CombGraph`, `SccPlan` |
| Executor | `copper-sim/src/executor.rs` | tasks, plan, `graph_dirty`, dirty counters | `spawn_*`, `set_*`, `poll_tasks`, `tick_clock`, `advance` | `Executor` |
| Pipelined memory | `copper-core/src/memory.rs` | array, read and write pipelines, staged addresses | `read`, `write`, `is_ready`, `data`, `on_posedge` | `MemorySpec`, `Memory` |
| CFG analyses | `copper-analysis/src/cfg.rs` | control-flow graph of a module's loop | build, registers, reachability, read timing, output-timing and memory checks | `Cfg` |
| `#[hardware]` macro | `copper-macros/src/lib.rs` | none | checks, barrier insertion, wrapping | `HardwareMacro` |
| Transpiler, control | `copper-codegen/src`: `control_extract`, `chir_lower`, `shir_lower`, `vlir_lower`, `emit` | FIR, CHIR, SHIR, VLIR | state machine, registers and wires, cycle schedule, always blocks | `ControlExtract`, `ChirLower`, `ShirLower`, `VlirLower`, `Hardware` |
| Transpiler, values | `chir_lower.rs`, `vlir_lower.rs`, `emit.rs` | typed expressions | widths, literals, signs, casts, rendering | `TypedExpr`, `ExprLower`, `VerilogExpr` |
| Four-valued logic | `copper-core/src/types.rs` | `Logic`, `Bits<N>` | operators, conversions | `LogicBits`, `BitsRegister` |
| Transpiler driver, testbench | `copper-codegen/src/lib.rs`, `copper-sim/src/verification.rs` | | order of passes; compare cycle by cycle | `Transpile` |
| Clock-domain crossing | `src/sync.rs` | two flops | `sync_2ff` | a program of `MCTranspile` |
| Module hierarchy | `copper-sim/src/executor.rs` | name to parent and children | `spawn_child`, `ensure_module` | not modelled |
| Test drivers, file handling | `testing.rs`, `main.rs`, `build.rs` | | I/O | not modelled |

How they interact. A testbench creates wires and clocks, spawns modules with the wires
they read and the dirty handles of the wires they drive, writes its input wires, and
calls `tick_clock`. That settles all tasks in the pre-edge phase, advances the clock
(every `RegOut` and every `Memory` of that clock commits through its listener), and
settles all tasks again in the post-edge phase. Everything runs on one thread; what
makes it hard is not preemption but *order*: the order of polls inside a settle, of
settles of different clocks, and of spawns relative to settles.

A module also has a second life as hardware. The macro runs the analyses on the source
and refuses what cannot be synthesized faithfully; it then puts a barrier before every
input read that must sample before the edge. The transpiler repeats some checks, turns
loops with edges inside branches into a state machine, decides what is a register, cuts
the loop into clock phases, rewrites sequential assignments into simultaneous ones,
pipelines the memories and emits always blocks. The promise is that simulated and
emitted module agree after every edge; nearly every pass can break it by one cycle.

Hard behaviours, listed with their lines under `hazards` in `PROJECT.json`: an order of
polls that changes what a module sees; a cached plan that a late spawn makes stale; a
dirty flag that survives or gets lost; a clock whose settle resumes another clock's
modules; an edge missed or used twice; an oscillating loop that must end in a panic; a
registered value that shows too early; reads and writes of one edge racing in a
pipelined memory; a value forwarded from the wrong side of an edge; an output written
before the register it shows; a jump that costs a cycle; an arm that falls into a
default; a sign or a carry lost to SystemVerilog's expression rules.

## 2. Modules

### The simulator

`Ports`, `ClockPhase` and `CombGraph` are components; `Executor` composes them.

* **Ports** – the cell, dirty flag and pending value of each wire. `Write` is the handle
  the wire has: plain (`Out`) or registered (`RegOut`). `on_posedge(d)` is the commit of
  all registers of a clock, which is one step because `Clock::advance` calls all
  listeners before it returns and they touch disjoint wires.
* **ClockPhase** – the clocks and the two thread-local signals. Domains start with the
  defaults the code uses for a missing map entry (`PreEdge`, resolving).
* **CombGraph** – the dependency graph, its components and the plan as *sets of
  possible results* of the code's deterministic algorithms; no recursion, so that it can
  be used in proofs. A node reaches what every set that holds it and that no edge leaves
  holds; two nodes are in one component if the same such sets hold them.
* **Executor** – the task table, the two schedulers and the testbench.
  - A task is a body `[dom, code, reads, dirties]`: the clock, the instructions of the
    future the macro generates, and what its spawn declared. Instructions are read,
    write, local computation (`Apply`) and the three awaits. Bodies loop, as the
    executor asserts.
  - One poll is a run of steps (`Poll`, `ReadPort`, `WritePort`, `Compute`, `Resume`)
    that ends with `Suspend`, which also does what the executor does with the dirty
    flags after the poll. `Taken` has the two ways of consuming them: all handles after a
    single poll (`poll_task_once`), up to the first dirty one in a loop (`any`).
  - A settle is a list of groups: the plan's components, or one group of all tasks under
    Fixpoint. `GroupSettled`, `Iterate` and `Panic` are the three ends of a pass.
  - The testbench spawns, drives inputs, selects modes, ticks, advances and polls in any
    order between calls. `pre_edge_settle` and `post_edge_settle` are used as
    `tick_clock` uses them, the second right after the first.
  - `spawn_untracked` and `spawn_child` are `spawn_wired` of a body without dirties.
  - `birth`, `crossed` and `seen` are history variables.
  - Four assumptions say what a `Body` of this macro and this testbench API is.
    `OwnershipAssumption`: a module registers dirty handles of its own outputs only, and
    the outputs the testbench drives are not module outputs (an `Out` is not `Clone`).
    `ModuleKindAssumption`: `delta_yield()` is in combinational modules only.
    `CombinationalAssumption`: there it is the last instruction and the only await
    (`wrap_combinational`, `copper-macros/src/lib.rs:852-858`). `SelfReadAssumption`: a module
    reads none of its own plain outputs (`executor.rs:675`). TLC evaluates them on
    every instance.
* **SccPlan** – `tarjan_scc` and the Kahn loop of `compute_scc_plan` step by step, with
  the DFS stack, lowlinks, in-degrees and heap of the code. It shows that the code's
  algorithm yields what `CombGraph` says, so `Executor` may use the definition.
* **MemorySpec / Memory** – the promise in terms of the calls made, and the pipelines.
  `Memory` carries the call log as history and implements `MemorySpec` with
  `out <- output`. A panic of `data()` while the lock is held poisons the memory; nothing
  happens after that.
* **Twins** – the executor with two copies of one design in it, on disjoint wires
  (`TwinAssumption`: `twin` pairs the wires of equal kind and clock, and inputs are shared).
  `IsCopy` pairs the modules, `Complete` says that every module's copy has been spawned,
  `AssembledFirst` that a testbench spawns all modules before the first settle polls one.
  `TwinsAgree` is the invariant.
* **MCExecutor**, **MCTwins**, **MCMemory** – instances. The module bodies are the kinds
  of module the repository's tests use: `add_one`, an or-gate with feedback, a buffer, a
  fork, a counter, a passthrough flip-flop (Immediate read), an accumulator (Deferred read
  behind a barrier), and a module with a trailing read.
* **MemoryProofs**, **CombGraphProofs**, **SccPlanProofs** – the theorems about the memory and the
  plan; **ExecutorProofs** (types, ticks, the plan and the passes), **ExecutorClockProofs**
  and **ExecutorReadsProofs**, each extending the one before, those about the executor;
  **TwinsProofs**, on top of them, the one about two copies of a design.

### Module bodies, analyses and transpiler

All programs are bodies in the syntax of **Fir**: locals, assignments (of a word of an
array register too), port writes, memory accesses, ticks, `if`, `match`, `loop`, `while`,
`for`, `break`, `continue`. Values are words of `Word` numbers; widths and signs are the
business of `Values`.

* **AsyncBody** – the future rustc makes of a body: `Run` goes from one await to the
  next over an explicit stack of blocks, and is stuck when it runs out of `Fuel`.
* **Cfg** – `build` makes the graph the way `Builder` does (nested loops folded, a ticking
  one with its own graph). On it: liveness and register inference, `check_reachability`,
  `check_definite_assignment`, `classify_reads`, the memory staging checks and the five
  output-timing checks.
* **HardwareMacro** – the checks in their order and with their opt-out, `ReadRewriter`.
* **ControlExtract** – desugaring of `while` and counted `for`, `lower_into`'s states,
  zero-time gotos and their splicing, hoisting of locals that live across states, and the
  cases in which extraction declines and the source goes on as it is.
* **ChirLower** – registers, wires and array registers; what has no hardware form is
  refused. An array register is a memory with write latency 2 and a write-through mux for
  words read after a write of the same segment.
* **ShirLower** – segments and phases, forwarding inside a segment and from the trailing
  segment, the two forms of every drive and condition (continuous and edge-sampled),
  promotion of wires that live across phases.
* **VlirLower** – memory nets and pipelines, hoisted defaults, the split of outputs between
  `always_comb` and `always_ff`, latch check, removal of dead wires.
* **Hardware** – executes what is emitted, two-state, registers powering up at 0, and what
  the linter demands of it.
* **Transpile** – one module goes through all passes, one action each; then `PreEdgeSettle`,
  `ClockEdge` and `PostEdgeSettle` run four copies on the same inputs: the body the macro
  rewrote (`sim`), the captured body (`src`), the extracted one (`fsm`) and the hardware.
  This is the generated testbench with all input sequences.
* **LogicBits** – every operator of `Logic` and `Bits<N>`. **TypedExpr** – Rust's typed
  expressions over `Bits`, integers and `bool`, with overflow panics. **ExprLower** –
  `lower_expr` with its width inference, literal retyping, resizes and sign casts.
  **VerilogExpr** – what the text computes by the sizing and sign rules of IEEE 1800, and
  which text the linter accepts.
* **BitsRegister** – a register whose value is known to the simulator up to unknown bits
  (`acc`) and to the hardware as a number (`hw`). Every `Bits` operation is a step of both:
  `acc` goes through the operator of `LogicBits`, `hw` through what the operation means for
  numbers (`WithBits` gives the number with given bits, `Signed` two's complement).
  `RegisterAssumption` bounds the width by 128, because the code computes through a `u128`.
  **BitsProofs** has its theorems.
* **Values** – adds the step in which a transpiled statement over the register and an
  operand is evaluated by Rust on one side and by the emitted Verilog on the other.
* **MCTranspile**, **MCValues** – the programs.

## 3. What the runs check

| Run | Question | Properties |
|---|---|---|
| `ExecutorLevelized` | Is one poll per task in plan order enough, and do modules follow their own clock only, also when the testbench polls between ticks? | `TypeOK`, `ReadsSettled`, `LockstepTicks`, `DomainIsolation`, `DeferredReadsAtOwnPreEdge`, `RegisteredHeld` |
| `ExecutorFixpoint` | Do both schedulers settle under any order, late spawns, loops and bare clock advances? | `CombReadsSettled`, `NoTickCompression`, `NoDirtyLeft`, `PlanCurrent`, `PanicOnlyOnCycle`, `SettleTerminates` |
| `Twins` | Can a testbench observe the poll order? | `TwinsAgree` |
| `SccPlan` | Do Tarjan and Kahn, as coded, compute the plan? | `ReverseTopological`, `LowlinkReachable`, `StacksAgree`, `PlanCorrect`, `Terminates`, `TypeOK` |
| `Memory` | Do the pipelines keep the memory's promise? | `DataIsHistory`, `ReadsAreHistory`, `KeepsPromise`, `TypeOK` |
| `Transpile` | Does the emitted hardware do what the simulated module does, and are exactly the unsound modules refused? | `HardwareAgrees`, `ExtractionAgrees`, `AcceptedNeverStuck`, `MemoryRequestsAgree`, `EmittedLegal`, `VerdictsHold`, `HardwareRegOutsHold`, `TypeOK` |
| `Values` | Does the emitted expression compute what Rust and `Bits` compute? | `HardwareCovered`, `UnknownHasCause`, `TypeOK` |

Poll-order independence is a statement about two executions. `Twins` turns it into an
invariant of one: the testbench spawns two copies of a design into one executor in
unrelated spawn orders, and the copies must stay equal. `Twins` visits a group in insertion
order; that the reshuffling of Fixpoint's passes does not show is `CombReadsSettled`.

**How the transpiler model was validated.** `MCTranspile` holds 65 modules of the
repository's tests and examples. Those the tests compare with Verilator agree in the
model, both register-file fixtures included. Those the tests expect to be refused are
refused, with the same error (`VerdictsHold`). Where the tests measured a divergence by
switching the macro's alignment checks off, the model diverges on the same eight bodies
and on no other of that family. Undoing the corrections the source's comments report as
measured (write latency 1 for array registers, no forwarding mux, no `MemIndex` through
wires) makes `HardwareAgrees` fail. The rest of the corpus is a sweep over all bodies of
up to two statements and a closing tick, with a registered output; `MemResults` (results
kept in a register that drives a registered output, which the edge samples in another form),
`ArrayWords` and `TwoStores` (two writes to an array register in one cycle, which must be
refused: accepted, the first of them is lost and `HardwareAgrees` fails).

### Disagreements

Five runs show disagreements between the code and what the repository says of it:

* `FixpointFalseLoop` – `port_dirties.iter().any(|h| h.take())` stops at the first dirty
  handle, so a task that changes k outputs at once stays "dirty" for k passes. With as
  many outputs as the oscillation threshold an acyclic design panics as a combinational
  loop; the comment of `poll_tasks` says the counter is always 1 outside a loop.
* `GuardThroughWire` – `let w = r + i.read(); o.write(w); r = w; tick`. The check for
  writes before an update looks at the registers the write itself names (`cfg.rs:876`), not
  at those behind a local; its comment calls such a write generation-free.
* `EmptyArmDropped` – `split_output_reg` drops an arm without registered drives but
  keeps the default, so the arm's selector value runs the default (`vlir_lower.rs:1787`).
* `ReadStageUndeclared` – `m.read(a); tick; if m.is_ready() { q = m.data() } o.write(q)` with
  `o` a `RegOut`. The edge samples `o` from what `q` was just given, `m_rd_q0`, but
  `collect_read_uses` tallies a drive's `value` only (`vlir_lower.rs:2314`), not the
  `edge_value` that is emitted, so nothing declares that stage and the module does not
  compile. With the stage declared the two sides agree.
* `ShiftInSum` – `signed_binop` peels the sign off a right shift that is an operand of a
  sum, so `((a as i32) >> 1) + (b as i32)` shifts in zeros (`chir_lower.rs:4318`). The same
  holds for `arithmetic_shift_right` and signed `%` inside a sum.

Others met while modelling, each seen in the model but without a run of its own:

* Simulator. A clock that has never ticked counts as pre-edge (`copper-sim/src/lib.rs:48`), so its
  modules pass their barrier in another clock's settle, against `lib.rs:96-99`
  (`DeferredReadsAtOwnPreEdge` exempts this case). Under Fixpoint a sequential module with
  an Immediate read of a plain `Out` depends on the visit order (`executor.rs:762`), against
  `executor.rs:219-221`; `Twins` leaves those modules to the levelized scheduler.
  `is_ready` is false again once a pipeline has drained (`memory.rs:304` against
  `memory.rs:300-302`). `HasUnknown`'s comment (`types.rs:774`) says the executor drives X on
  a loop "rather than panicking"; both settles panic.
* Array registers. A word written after the tick and read at the next iteration's head,
  or written before the tick and read after it, is one cycle late in hardware, against
  `chir_lower.rs:3156-3158` ("matching the simulator's next-iteration visibility"). So is a
  write-through whose address register changes in the same trailing segment.
* Plain outputs. `o.write(i.read()); tick; tick` follows the input in the second phase
  instead of holding; a conditional write in a linear trailing segment is exempted
  (`cfg.rs:752-766`) and diverges; so does an output driven at top level and again inside a
  branch. `written_on_all_paths` leaves out the successors of the head.
* Before the loop. Actions there are repeated or lost unless extraction moves them
  (`control_extract.rs:500-508` says they execute once); `let x = a.read()` there is read again every
  cycle; initial values of registers are not emitted (hardware powers up at 0, and the
  programs here start from 0).
* Memory results. `o.write(q); m.read(a); tick; tick; if m.is_ready() { q = m.data() }`: the
  updates after the last tick join the last phase and take the read stage from before its
  edge (`vlir_lower.rs:2206`); the statements follow that edge, when the simulator's pipeline
  has drained (`tests/multiphase_memory_equivalence.rs:21-22`: the word "survives one cycle and
  no longer, in both"). With a latency of two, the hardware misses the word instead.
* Registered outputs after the only tick of a loop take the edge the body has yet to wait
  for (`tests/fixtures/out_phase_dut.rs:35-38`, called broken there and accepted).
* Dropped statements. A wire reassigned in a segment, a trailing reassignment of a
  non-register (`shir_lower.rs:1086-1094`), a register assigned in a tick-free `for`, a
  two-argument memory write as a bare match arm.
* Expressions. `wrapping_*` on signed operands ignores the sign; a signed `let` or `if`
  compared with a literal or shifted loses it; widening casts are stripped, so
  `(a as u16 + b as u16) >> 1` loses the carry; the derived `==` of `Bits` takes X for a value.

### Bounds

* Three tasks (four in `Twins`): enough for a producer, a consumer and a bystander, a
  loop with a module outside it, or two copies of a pair, in every spawn order.
* One-bit values, three or four wires and one registered one; two edges per clock (a
  value can be written, committed and observed). `clk` is bounded by `MaxClk`.
* Calls: `ExecutorLevelized` mixes ticks of two clocks with bare `poll_tasks` calls,
  `ExecutorFixpoint` mixes ticks of one clock with bare `advance` calls. Advances, polls and
  two clocks together are too many states under three tasks; `NoCompression` and
  `RegistersHold` are proved for all of them.
* `OSCILLATION_THRESHOLD = 3` and `MAX_DELTA_CYCLES = 6` for 20 and 1000: the loops of
  three one-bit tasks settle in fewer passes or not at all, and both limits stay in the
  code's order (the threshold is met first).
* `SccPlan`: all 4096 digraphs of four tasks, which include two disjoint cycles, nested
  cycles and cross edges into finished components.
* `Memory`: one address, two values, two write ports, one read port, latencies of two
  and three edges, so that writes race, pipelines fill and drain and reads meet commits.
  The proofs cover all parameters.
* `Transpile`: words of two bits, one-bit inputs changing every cycle, `MaxCycles = 4`
  edges: enough for the longest pipeline of the corpus (a read of latency two behind a
  write of latency two) and for a full iteration of its multi-phase bodies. `Fuel = 60` statements and `MaxBarriers = 10` per poll: the longest
  run of an accepted body between two awaits takes fewer.
* `Values`: all widths to 4, expressions two operators deep, operands at the corners
  (zero, one, all ones, sign bit, unknown bits). `DEFAULT_LIT_WIDTH` is 6 for the code's 64:
  wider than any vector, as there.
* Deadlock is not checked: the clock bound or a rejection ends every behaviour, and a
  panic ends the program.

### Fairness

`FairSpec` assumes weak fairness of `Settle`, the steps between an executor call and its
return. They run on the caller's thread without blocking, so they continue until the
call returns or panics. Nothing is assumed of the testbench. `SccPlan` assumes the same
of its loop. The other specifications state safety only.

## 4. What is proved

All for arbitrary values of the constants: any number of tasks, wires, domains, any
module bodies, any bounds, any graph, under the named assumptions of the modules. These
say that bodies are well-formed programs over the declared wires, that bounds are
numbers and `None` is no value, the four facts about bodies of section 2, that copies of a
design are on disjoint wires (`TwinAssumption`), and that vectors are at most 128 bits wide
(`RegisterAssumption`).

**Memory** (`MemoryProofs`). `TypeCorrect`, `DataCorrect`, `ReadsCorrect`, `Refinement`: the pipelines
implement `MemorySpec`. The contents alone are not inductive: an edge commits what is in
the last stage of a write pipeline, so the invariant `IInv` adds `InFlightIsHistory` (stage s
holds the call of s cycles ago, or nothing) and `CallsAreHistory` (the staged address is
the one logged in this cycle, and nothing is logged for later cycles). `CommitIsHistory` then
shows that an edge turns "due at `now`" into "due at `now + 1`"; `LastPortExists` justifies
the choice of the highest port.

**The plan** (`CombGraphProofs`, `SccPlanProofs`). `SccPlanCorrect`: on every finite graph the code's
explicit-stack Tarjan and heap-driven Kahn loop end with a plan that `CombGraph` defines by
reachability. The argument follows the program:

* `Search`, while Tarjan runs. `StacksAgree` and `Frames`: the open frames are a path of the
  graph, and the component stack holds the discovered nodes without a component, in order
  of discovery. `Explored`: an edge of a discovered node leads to a discovered node or is
  still pending in a frame. `Lows`: the lowlink of an open frame bounds from below what the
  nodes discovered under it reach by one explored edge. `Knit`: a frame's node reaches
  what is stacked after it, and what is stacked before the next frame's node reaches it.
  Together they show, when a frame returns with `low = index`, that what it pops is one
  component (`Labelled`) that no edge leaves but to components popped before (`ReverseTopological`).
* `FoundComponents`: closed under edges downwards, mutually reachable inside, the label
  classes are the strongly connected components by the definition of `CombGraph`.
* `Heap`, while Kahn runs: in-degrees count the unplanned predecessors (so they never
  underflow), the heap holds exactly the unplanned components without any, and the plan
  is a prefix of an order of `kahn_order`. `AllEmitted`: an empty heap means a full plan,
  because among the unplanned components the one with the highest number has no
  unplanned predecessor.

`CombGraphProofs` holds what the executor's proofs use: components partition the nodes, orders
list each component once, and no producer's component comes after its consumer's.

**The executor.** `TypeCorrect` (`ExecutorProofs`) needs `Fresh` (slots not yet spawned are untouched) and
`Polling` (a running task is the head of the pass). On it rest:

* `NoCompression`: no module crosses more ticks than its clock had edges, under any mix
  of `tick_clock`, `advance` and `poll_tasks`. `TickCredit`: the tick a task waits for asks for an
  edge beyond all those it has used up. `RegistersHold`: registered wires change only at
  their own edge.
* `PlanStaysCurrent`, `LevelizedPanicOnlyOnCycle`, from `PlanInv`: the stored plan is one
  `compute_scc_plan` may return unless it is marked dirty, the groups of a settle are
  components, and the pass holds members of the head group. The second is about panics
  under the levelized scheduler: under Fixpoint it is false (`FixpointFalseLoop`).
* `SettleConsumesChanges`: `NoDirtyLeft` under both schedulers. `DirtyCause`: a dirty handle
  belongs to a task still to be polled, or `any_dirty` will ask for another pass over its
  group. It needs `OneDriver` (modules write disjoint wires).
* `OneTickPerEdge`, `DomainsIsolated`, `DeferredReadsSample`, from `ClockInv`. `Signals` ties phase and
  resolving to the caller's stage, `MidRun` says that only the running task stands between
  awaits, `NextEdge` that no task waits for more than the next edge, and `Schedule` says for
  each started sequential module, by stage and by whose clock is ticked, whether it is in
  lockstep or one edge behind and what it waits for. These three assume
  `"advance" \notin Calls`: a testbench that advances a clock without settling does leave
  modules behind, which is what `advance` is for.
* `CombSettled` and `LevelizedSettled` (`ExecutorReadsProofs`): what was read in a settle is the final
  value, for combinational modules under both schedulers and every visit order, and for
  every module in settles of the levelized scheduler. `StaleCause` is the heart: if a task has read
  a value that has changed since, then it is a combinational member of the current group,
  the group is a loop (or Fixpoint's group), and the change is recorded in `any_dirty`, or
  in a dirty handle of the running task, or the task will read the wire again in this
  pass. It is kept because a write can only disturb tasks that the plan has not placed in
  an earlier group (`GroupOrder`) and that have not run if they are in a later one
  (`NotYet`), and because a combinational module rests at the end of its body (`CombRest`)
  and so re-reads everything when polled again. A sequential module in a loop would
  break it; `WellFormed` excludes that, as the properties do.

**Poll order** (`TwinsProofs`). `PollOrderInvisible`: under the levelized scheduler, two copies of
any design without a combinational loop show the same values on all wires whenever no
call is under way, whatever the spawn order, the clocks and the calls. The argument:

* One poll is a `Run` of a deterministic machine over the module's own state, its future and
  what its write instructions hold (`Local`): two copies that start alike and read the same
  values halt alike (`RunsEndAlike`).
* `Progress` says how far a module is in the current settle, and `UnderWay` that all modules
  are that far from a start they share with their copies. `Untouched` (a design not yet
  polled is in its initial state) gives the first start, `Same` the ones after it. It needs
  `OneAtATime`: in an acyclic design every pass polls one module, once.
* When the settle ends every module has run to its end on values that are final (`StaleCause`
  of `ExecutorReadsProofs`, with nothing dirty left). `CopiesMeet` goes along the plan: a module
  reads wires of modules placed before it, whose copies already agree.
* `Rest`: the wires no settle writes (registers and inputs) agree at all times, because
  commits and testbench writes treat both copies alike.

The hypotheses are needed: with a loop, or under Fixpoint with an Immediate read of a plain
output, what a module sees may depend on the visit order, and a module spawned after its
copy was polled may have missed values or ticks. `AssembledFirst` restricts the testbench, not
the executor. TLC also checks `TwinsAgree` under Fixpoint, for modules whose reads are deferred,
registered or combinational.

**Values** (`BitsProofs`). `BitsTypeCorrect`, `BitsCoverHardware` and `UnknownBitsHaveCause`: through any
sequence of `Bits` operations, at any width to 128, the simulated vector covers the number
hardware computes, and an unknown bit has a cause. `BitsInv` says that for some width n in
range the vector *stands for* the number (`Stands`: n bits each, equal where known), and is
inductive as it is; the work is in one lemma per operation (`InvertStands` to `SetBitStands`). They
rest on four groups of lemmas: the recursive `pow2` is well defined (`PowerDef`); division and the
bits of numbers (`DivisionUnique`, `BitsOfRemainder`, `BitsOfQuotient`, `BitsOfJoin`, `LowBits`, `SignedBits`);
`as_uint`'s loop and `from_uint` are inverse (`AsUint`, `FromUint`); the folds of the reductions have
closed forms (`AndReduce`, `OrReduce`, `XorReduce`, by removing one bit at a time, `BitByBit`). The theorems
are about `BitsSpec`. For `Spec` of `Values` the same property is checked by TLC on the programs of
`MCValues`, and cannot be a theorem: `ShiftInSum` refutes it.

**Left to TLC.** Liveness (`SettleTerminates`, `Terminates`). `TwinsAgree` under Fixpoint and for
designs with loops. Everything about bodies, the transpiler and transpiled statements: the
operators recurse over syntax trees, which the prover cannot follow.

## 5. What is not modelled

* Parsing of Rust source (`parser.rs` turns `syn` trees into FIR node by node), file and
  command-line handling, text layout of the emitted Verilog, calls to external tools.
* Language features that are flattened before the modelled passes see them: structs, enum
  encodings, tuples other than a tuple assignment, inlined functions, const generics as
  symbolic widths, arrays of one-bit elements (packed vectors), `IndexAssign`.
* Structural modules and instantiation; `check_cdc`, `check_admissible` and the macro's other
  signature and idiom checks, which only refuse programs; `Bus`.
* The module hierarchy (`spawn_child`'s names): a report nothing acts on.
* Memories have one read and one write port in `Transpile` (any number in `Memory`).
* Within the simulator: the wrap of the cycle counter at 2^64; dropping a listener while
  its clock lives; a memory address out of range (it panics before anything changes);
  continuing after a caught panic; `pre_edge_settle` called without its
  `post_edge_settle`; the exact shuffle of `PollOrder::Seeded`, which is any permutation here.

## 6. Plan

1. Done: the simulator (`Ports` to `Memory`), its twins and theorems; the analyses, the
   macro and the transpiler from bodies to hardware; values and expressions.
2. Done: proofs of every safety property of the executor, the plan and the memory, of
   poll-order independence under the levelized scheduler, and of the operations of `Bits`.
3. Proofs left: `TwinsAgree` under Fixpoint, for modules whose reads are deferred, registered
   or combinational; loops, where both copies would have to be shown to settle alike.
4. Further modelling: arrays of one-bit elements, structs as records, several memory
   ports in `Transpile`, structural modules over `Executor`.
