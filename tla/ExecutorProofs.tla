--------------------------- MODULE ExecutorProofs ----------------------------
(***************************************************************************)
(* Type correctness of the executor and the no-compression property, for   *)
(* every set of modules, every number of tasks and clock domains, every    *)
(* schedule and every sequence of testbench calls; then the plan and the   *)
(* passes: the plan a levelized settle walks is current, a settle visits   *)
(* every task, only a cycle panics, and no change is left unconsumed when  *)
(* a settle ends.                                                          *)
(***************************************************************************)
EXTENDS Executor, CombGraphProofs, SequenceTheorems

\* The slots of tasks not yet spawned are as spawn_wired's TaskEntry will find them.
Fresh ==
    \A t \in Task : t > n => /\ pc[t] = 1
                             /\ target[t] = None
                             /\ birth[t] = None
                             /\ crossed[t] = 0

\* The task being polled is the head of the pass.
Polling == running # 0 => order # << >>

-----------------------------------------------------------------------------
\* The set of spawned tasks is finite.
LEMMA SpawnedFinite ==
    ASSUME n \in Nat, NEW S, S \subseteq Spawned
    PROVE  IsFiniteSet(S) /\ Cardinality(S) \in Nat
<1>1. IsFiniteSet(1..n)
  BY FS_Interval
<1> QED
  BY <1>1, FS_Subset, FS_CardinalityType DEF Spawned

\* A pass visits spawned tasks only.
LEMMA OrderType ==
    ASSUME n \in Nat, NEW S \in SUBSET Spawned, NEW s \in visit_order(S)
    PROVE  s \in Seq(Spawned)
<1>1. Cardinality(S) \in Nat
  BY SpawnedFinite
<1>2. s \in [1..Cardinality(S) -> S]
  BY DEF visit_order
<1> QED
  BY <1>1, <1>2

\* The levelized plan is a sequence of sets of spawned tasks.
LEMMA PlanType ==
    ASSUME n \in Nat, NEW plan \in compute_scc_plan(tasks, Registered)
    PROVE  plan \in Seq(SUBSET Spawned)
<1> DEFINE E == comb_dependency_graph(tasks, Registered)
           comps == Components(DOMAIN tasks, E)
<1>1. DOMAIN tasks = Spawned
  BY DEF tasks
<1>2. comps \subseteq SUBSET Spawned
  BY <1>1 DEF Components
<1>3. IsFiniteSet(SUBSET Spawned)
  BY FS_SUBSET, SpawnedFinite
<1>4. IsFiniteSet(comps) /\ Cardinality(comps) \in Nat
  BY <1>2, <1>3, FS_Subset, FS_CardinalityType
<1>5. plan \in kahn_order(comps, E)
  BY DEF compute_scc_plan
<1> HIDE DEF comps, E
<1>6. plan \in [1..Cardinality(comps) -> comps]
  BY <1>5 DEF kahn_order
<1> QED
  BY <1>2, <1>4, <1>6

-----------------------------------------------------------------------------
\* Starting a pass keeps the pass variables well typed.
LEMMA BeginPassType ==
    ASSUME n \in Nat, n' = n, NEW gs \in Seq(SUBSET Spawned), NEW d \in Nat, BeginPass(gs, d)
    PROVE  /\ groups' \in Seq(SUBSET Spawned')
           /\ order' \in Seq(Spawned')
           /\ delta' \in Nat
           /\ any_dirty' \in BOOLEAN
           /\ running' \in 0..n'
<1>1. Spawned' = Spawned
  BY DEF Spawned
<1>2. order' \in Seq(Spawned)
  <2>1. CASE gs = << >>
    BY <2>1 DEF BeginPass
  <2>2. CASE gs # << >>
    <3>1. Head(gs) \in SUBSET Spawned
      BY <2>2
    <3>2. order' \in visit_order(Head(gs))
      BY <2>2 DEF BeginPass
    <3> QED
      BY <3>1, <3>2, OrderType
  <2> QED
    BY <2>1, <2>2
<1>3. groups' = gs /\ delta' = d /\ running' = 0
  BY DEF BeginPass
<1>4. any_dirty' \in BOOLEAN
  BY Zenon DEF BeginPass
<1> QED
  BY <1>1, <1>2, <1>3, <1>4

\* Entering a settle (poll_tasks) builds a well-typed plan and first pass.
LEMMA PollTasksType ==
    ASSUME TypeOK, n' = n, poll_tasks
    PROVE  /\ groups' \in Seq(SUBSET Spawned')
           /\ order' \in Seq(Spawned')
           /\ delta' \in Nat
           /\ any_dirty' \in BOOLEAN
           /\ running' \in 0..n'
           /\ levelized_plan' \in Seq(SUBSET Spawned')
           /\ graph_dirty' \in BOOLEAN
           /\ consecutive_dirty' \in [Task -> Nat]
           /\ seen' \in [Task -> [Wire -> Value \cup {None}]]
<1>1. n \in Nat /\ Spawned' = Spawned
  BY ExecutorAssumption DEF TypeOK, TableTypeOK, Spawned
<1>2. seen' \in [Task -> [Wire -> Value \cup {None}]] /\ consecutive_dirty' \in [Task -> Nat]
  BY DEF poll_tasks, TypeOK, PassTypeOK
<1>3. CASE scheduler = "Levelized" /\ levelized_plan' \in (IF graph_dirty
                THEN compute_scc_plan(tasks, Registered) ELSE {levelized_plan})
           /\ graph_dirty' = FALSE /\ BeginPass(levelized_plan', 0)
  <2>1. PICK p : p = levelized_plan'
    OBVIOUS
  <2>2. p \in Seq(SUBSET Spawned)
    BY <1>1, <1>3, <2>1, PlanType DEF TypeOK, TableTypeOK
  <2>3. BeginPass(p, 0)
    BY <1>3, <2>1
  <2>4. graph_dirty' \in BOOLEAN
    BY <1>3, Zenon
  <2> HIDE <1>3
  <2> QED
    BY <1>1, <1>2, <2>1, <2>2, <2>3, <2>4, BeginPassType
<1>4. CASE BeginPass(<<Spawned>>, 0) /\ UNCHANGED <<levelized_plan, graph_dirty>>
  <2>1. <<Spawned>> \in Seq(SUBSET Spawned)
    OBVIOUS
  <2>2. levelized_plan' \in Seq(SUBSET Spawned') /\ graph_dirty' \in BOOLEAN
    BY <1>1, <1>4 DEF TypeOK, TableTypeOK
  <2> QED
    BY <1>1, <1>2, <1>4, <2>1, <2>2, BeginPassType
<1> QED
  BY <1>3, <1>4 DEF poll_tasks, ensure_graph

-----------------------------------------------------------------------------
\* The ports a write or an edge touches keep their types.
LEMMA WriteType ==
    ASSUME PortsTypeOK, NEW w \in Wire, NEW v \in Value, Write(w, v)
    PROVE  PortsTypeOK'
<1>1. CASE w \in Registered
  BY <1>1 DEF Write, regout_write, PortsTypeOK
<1>2. CASE w \notin Registered
  <2>1. out_write(w, v)
    BY <1>2 DEF Write
  <2>2. cell' \in [Wire -> Value] /\ pending' = pending
    BY <2>1 DEF out_write, PortsTypeOK
  <2>3. dirty' \in [Wire -> BOOLEAN]
    BY <2>1 DEF out_write, PortsTypeOK
  <2> QED
    BY <2>2, <2>3 DEF PortsTypeOK
<1> QED
  BY <1>1, <1>2

\* A clock edge commits well-typed values to the registered wires (on_posedge).
LEMMA EdgeType ==
    ASSUME PortsTypeOK, NEW d \in Domain, on_posedge(d)
    PROVE  PortsTypeOK'
<1>1. cell' \in [Wire -> Value]
  BY DEF on_posedge, Committing, PortsTypeOK
<1>2. dirty' \in [Wire -> BOOLEAN]
  BY DEF on_posedge, PortsTypeOK
<1>3. pending' \in [Registered -> Value \cup {None}]
  BY DEF on_posedge, PortsTypeOK
<1> QED
  BY <1>1, <1>2, <1>3 DEF PortsTypeOK

\* The instruction a polled task is at, and the program counter after it.
LEMMA InstrType ==
    ASSUME TypeOK, running # 0
    PROVE  /\ running \in Spawned /\ running \in Task
           /\ body[running] \in Body
           /\ body[running].dom \in Domain
           /\ Instr(running).wire \in Wire
           /\ NextPc(running) \in 1..Len(body[running].code)
           /\ \A a, v \in Value : Apply(Instr(running).fn, a, v) \in Value
<1>1. running \in Spawned /\ running \in Task
  BY ExecutorAssumption DEF TypeOK, TableTypeOK, PassTypeOK, Spawned, Task
<1>2. body[running] \in Body /\ pc[running] \in 1..Len(body[running].code)
  BY <1>1 DEF TypeOK, TableTypeOK, FutureTypeOK
<1>3. Len(body[running].code) \in Nat \ {0} /\ body[running].dom \in Domain
  BY <1>2, BodyAssumption
<1>4. Instr(running).wire \in Wire
  BY <1>2, BodyAssumption DEF Instr
<1>5. NextPc(running) \in 1..Len(body[running].code)
  BY <1>2, <1>3 DEF NextPc
<1>6. \A a, v \in Value : Apply(Instr(running).fn, a, v) \in Value
  BY <1>2, ApplyAssumption DEF Instr
<1> QED
  BY <1>1, <1>2, <1>3, <1>4, <1>5, <1>6

-----------------------------------------------------------------------------
\* A new executor is well typed and all its slots are fresh.
LEMMA InitType == Init => TypeOK /\ Fresh
<1> SUFFICES ASSUME Init PROVE TypeOK /\ Fresh
  OBVIOUS
<1> USE ExecutorAssumption, PortsAssumption DEF Init
<1>1. PortsTypeOK
  BY DEF PortsInit, PortsTypeOK
<1>2. ClockTypeOK
  BY DEF ClockInit, ClockTypeOK
<1>3. TableTypeOK
  <2>1. graph_dirty \in BOOLEAN
    BY Zenon
  <2>2. n \in 0..MaxTasks /\ (\A t \in Spawned : body[t] \in Body)
        /\ levelized_plan \in Seq(SUBSET Spawned)
    BY DEF Spawned
  <2> QED
    BY <2>1, <2>2 DEF TableTypeOK
<1>4. FutureTypeOK
  <2>1. yielded \in [Task -> BOOLEAN]
    BY Zenon
  <2> QED
    BY <2>1 DEF FutureTypeOK, Spawned
<1>5. PassTypeOK
  <2>1. any_dirty \in BOOLEAN
    BY Zenon
  <2> QED
    BY <2>1 DEF PassTypeOK, Spawned
<1>6. HistTypeOK
  BY DEF HistTypeOK
<1>7. Fresh
  BY DEF Fresh
<1> QED
  BY <1>1, <1>2, <1>3, <1>4, <1>5, <1>6, <1>7 DEF TypeOK

\* spawn_wired: the new slot is fresh, and the old plan and pass still make sense.
LEMMA SpawnType ==
    ASSUME TypeOK, Fresh, NEW b \in Body, spawn_wired(b)
    PROVE  TypeOK' /\ Fresh'
<1> USE ExecutorAssumption
<1>1. /\ n \in Nat /\ n < MaxTasks /\ n' = n + 1 /\ body' = [body EXCEPT ![n + 1] = b]
      /\ Spawned' = Spawned \cup {n + 1} /\ n + 1 \in Task
  BY DEF TypeOK, TableTypeOK, spawn_wired, Spawned, Task
<1>2. PortsTypeOK' /\ ClockTypeOK' /\ HistTypeOK'
  BY DEF TypeOK, PortsTypeOK, ClockTypeOK, HistTypeOK, spawn_wired, portVars, clockVars, histVars
<1>3. TableTypeOK'
  <2>1. graph_dirty' \in BOOLEAN
    BY Zenon DEF spawn_wired
  <2>2. levelized_plan' \in Seq(SUBSET Spawned')
    BY <1>1 DEF TypeOK, TableTypeOK, spawn_wired
  <2>3. body' \in [Task -> Body \cup {NoBody}] /\ \A t \in Spawned' : body'[t] \in Body
    BY <1>1 DEF TypeOK, TableTypeOK, Spawned, Task
  <2> QED
    BY <1>1, <2>1, <2>2, <2>3 DEF TypeOK, TableTypeOK, spawn_wired
<1>4. FutureTypeOK'
  <2>1. \A t \in Spawned' : pc[t] \in 1..Len(body'[t].code)
    <3>1. pc[n + 1] = 1 /\ Len(b.code) \in Nat \ {0}
      BY <1>1, BodyAssumption DEF Fresh
    <3> QED
      BY <1>1, <3>1 DEF TypeOK, FutureTypeOK, TableTypeOK, Spawned, Task
  <2> QED
    BY <2>1 DEF TypeOK, FutureTypeOK, spawn_wired, futVars
<1>5. PassTypeOK'
  BY <1>1 DEF TypeOK, PassTypeOK, spawn_wired, passVars
<1>6. Fresh'
  BY <1>1 DEF Fresh, spawn_wired, futVars, histVars, Task
<1> QED
  BY <1>2, <1>3, <1>4, <1>5, <1>6 DEF TypeOK

\* The other calls of the testbench.
LEMMA CallType ==
    ASSUME TypeOK, Fresh,
           \/ \E w \in External, v \in Value : Drive(w, v)
           \/ \E m \in Modes, o \in PollOrders : set_scheduler_mode(m, o)
           \/ \E d \in Domain : pre_edge_settle(d) \/ advance(d)
           \/ BarePoll
           \/ post_edge_settle
    PROVE  TypeOK' /\ Fresh'
<1> USE ExecutorAssumption
<1>1. ASSUME NEW w \in External, NEW v \in Value, Drive(w, v)
      PROVE  TypeOK' /\ Fresh'
  <2>1. PortsTypeOK'
    <3>1. w \in Wire /\ Write(w, v)
      BY <1>1 DEF Drive, Write
    <3> QED
      BY <3>1, WriteType DEF TypeOK
  <2> QED
    BY <1>1, <2>1 DEF Drive, TypeOK, ClockTypeOK, TableTypeOK, FutureTypeOK, PassTypeOK, HistTypeOK,
                      Fresh, Spawned, clockVars, futVars, tableVars, passVars, histVars
<1>2. ASSUME NEW m \in Modes, NEW o \in PollOrders, set_scheduler_mode(m, o)
      PROVE  TypeOK' /\ Fresh'
  BY <1>2 DEF set_scheduler_mode, TypeOK, PortsTypeOK, ClockTypeOK, TableTypeOK, FutureTypeOK,
              PassTypeOK, HistTypeOK, Fresh, Spawned, portVars, clockVars, futVars, passVars, histVars
<1>3. ASSUME NEW d \in Domain, advance(d)
      PROVE  TypeOK' /\ Fresh'
  <2>1. PortsTypeOK'
    BY <1>3, EdgeType DEF advance, TypeOK
  <2>2. ClockTypeOK'
    BY <1>3 DEF advance, clock_advance, TypeOK, ClockTypeOK
  <2>3. cycle' \in Nat
    BY <1>3 DEF advance, TypeOK, PassTypeOK
  <2> QED
    BY <1>3, <2>1, <2>2, <2>3 DEF advance, TypeOK, TableTypeOK, FutureTypeOK, PassTypeOK, HistTypeOK,
                             Fresh, Spawned, futVars, tableVars, passVars, histVars
<1>4. ASSUME poll_tasks, PortsTypeOK', ClockTypeOK', stage' \in Settling, dom' \in Domain,
             UNCHANGED <<futVars, n, body, scheduler, poll_order, birth, crossed, cycle>>
      PROVE  TypeOK' /\ Fresh'
  <2>1. n' = n /\ Spawned' = Spawned
    BY <1>4 DEF Spawned
  <2>2. PassTypeOK'
    BY <1>4, <2>1, PollTasksType DEF TypeOK, PassTypeOK
  <2>3. TableTypeOK'
    BY <1>4, <2>1, PollTasksType DEF TypeOK, TableTypeOK
  <2>4. HistTypeOK'
    BY <1>4, <2>1, PollTasksType DEF TypeOK, HistTypeOK
  <2>5. FutureTypeOK' /\ Fresh'
    BY <1>4, <2>1 DEF TypeOK, FutureTypeOK, Fresh, futVars
  <2> QED
    BY <1>4, <2>2, <2>3, <2>4, <2>5 DEF TypeOK
<1>5. ASSUME NEW d \in Domain, pre_edge_settle(d)
      PROVE  TypeOK' /\ Fresh'
  <2>1. PortsTypeOK'
    BY <1>5 DEF pre_edge_settle, TypeOK, PortsTypeOK, portVars
  <2>2. ClockTypeOK'
    BY <1>5 DEF pre_edge_settle, set_poll_phase, set_tick_resolving, TypeOK, ClockTypeOK
  <2> QED
    BY <1>4, <1>5, <2>1, <2>2 DEF pre_edge_settle, Settling
<1>6. CASE BarePoll
  <2>1. PortsTypeOK' /\ ClockTypeOK' /\ dom' \in Domain
    BY <1>6 DEF BarePoll, TypeOK, PortsTypeOK, ClockTypeOK, PassTypeOK, portVars, clockVars
  <2> QED
    BY <1>4, <1>6, <2>1 DEF BarePoll, Settling
<1>7. CASE post_edge_settle
  <2>1. PortsTypeOK' /\ dom' \in Domain
    BY <1>7, EdgeType DEF post_edge_settle, TypeOK, PassTypeOK
  <2>2. ClockTypeOK'
    BY <1>7 DEF post_edge_settle, set_poll_phase, set_tick_resolving, clock_advance,
                TypeOK, ClockTypeOK, PassTypeOK
  <2> QED
    BY <1>4, <1>7, <2>1, <2>2 DEF post_edge_settle, Settling
<1> QED
  BY <1>1, <1>2, <1>3, <1>5, <1>6, <1>7

\* The steps of a poll.
LEMMA StepType ==
    ASSUME TypeOK, Fresh, Polling, Poll \/ ReadPort \/ WritePort \/ Compute \/ Resume \/ Suspend
    PROVE  TypeOK' /\ Fresh'
<1> USE ExecutorAssumption
<1>1. CASE Poll
  <2>1. Head(order) \in 0..n
    BY <1>1 DEF Poll, TypeOK, PassTypeOK, TableTypeOK, Spawned
  <2> QED
    BY <1>1, <2>1 DEF Poll, TypeOK, PortsTypeOK, ClockTypeOK, TableTypeOK, FutureTypeOK, PassTypeOK,
              HistTypeOK, Fresh, Spawned, portVars, clockVars, futVars, tableVars, passVars, histVars
<1>2. CASE ReadPort
  <2>1. running # 0
    BY <1>2 DEF ReadPort, At
  <2> DEFINE w == Instr(running).wire
             x == Apply(Instr(running).fn, acc[running], cell[w])
             npc == NextPc(running)
  <2>2. /\ acc' = [acc EXCEPT ![running] = x]
        /\ seen' = [seen EXCEPT ![running][w] = cell[w]]
        /\ pc' = [pc EXCEPT ![running] = npc]
    BY <1>2 DEF ReadPort
  <2>3. w \in Wire /\ cell[w] \in Value /\ x \in Value
        /\ npc \in 1..Len(body[running].code) /\ npc \in Nat \ {0}
    BY <2>1, InstrType DEF TypeOK, PortsTypeOK, FutureTypeOK
  <2> HIDE DEF w, x, npc
  <2>4. running \in Task /\ running <= n
    BY <2>1, InstrType DEF TypeOK, PassTypeOK, TableTypeOK
  <2>5. UNCHANGED <<portVars, clockVars, target, yielded, tableVars, passVars, birth, crossed,
                    levelized_plan, cycle, stage, dom, running>>
    BY <1>2 DEF ReadPort
  <2>6. PortsTypeOK' /\ ClockTypeOK' /\ TableTypeOK' /\ PassTypeOK'
    BY <2>5 DEF TypeOK, PortsTypeOK, ClockTypeOK, TableTypeOK, PassTypeOK, Spawned,
                portVars, clockVars, tableVars, passVars
  <2>7. FutureTypeOK'
    BY <2>2, <2>3, <2>4, <2>5 DEF TypeOK, FutureTypeOK, Spawned, tableVars
  <2>8. HistTypeOK' /\ Fresh'
    BY <2>2, <2>3, <2>4, <2>5 DEF TypeOK, HistTypeOK, Fresh, FutureTypeOK, tableVars, Task, TableTypeOK
  <2> QED
    BY <2>6, <2>7, <2>8 DEF TypeOK
<1>3. CASE WritePort
  <2>1. running # 0
    BY <1>3 DEF WritePort, At
  <2> DEFINE npc == NextPc(running)
  <2>2. npc \in 1..Len(body[running].code) /\ npc \in Nat \ {0} /\ running \in Task /\ running <= n
    BY <2>1, InstrType DEF TypeOK, PassTypeOK, TableTypeOK
  <2>3. pc' = [pc EXCEPT ![running] = npc]
        /\ UNCHANGED <<clockVars, acc, target, yielded, tableVars, passVars, histVars,
                       levelized_plan, cycle, stage, dom, running>>
    BY <1>3 DEF WritePort
  <2>4. PortsTypeOK'
    <3>1. Instr(running).wire \in Wire /\ acc[running] \in Value
      BY <2>1, InstrType DEF TypeOK, FutureTypeOK
    <3> QED
      BY <1>3, <3>1, WriteType DEF WritePort, TypeOK
  <2> HIDE DEF npc
  <2>5. FutureTypeOK' /\ Fresh'
    BY <2>2, <2>3 DEF TypeOK, FutureTypeOK, Fresh, Spawned, tableVars, histVars, Task, TableTypeOK
  <2>6. ClockTypeOK' /\ TableTypeOK' /\ PassTypeOK' /\ HistTypeOK'
    BY <2>3 DEF TypeOK, ClockTypeOK, TableTypeOK, PassTypeOK, HistTypeOK, Spawned,
                clockVars, tableVars, passVars, histVars
  <2> QED
    BY <2>4, <2>5, <2>6 DEF TypeOK
<1>4. CASE Compute
  <2>1. running # 0
    BY <1>4 DEF Compute, At
  <2> DEFINE npc == NextPc(running)
             x == Apply(Instr(running).fn, acc[running], acc[running])
  <2>2. /\ npc \in 1..Len(body[running].code) /\ npc \in Nat \ {0}
        /\ running \in Task /\ running <= n /\ x \in Value
    BY <2>1, InstrType DEF TypeOK, PassTypeOK, TableTypeOK, FutureTypeOK
  <2>3. /\ pc' = [pc EXCEPT ![running] = npc]
        /\ acc' = [acc EXCEPT ![running] = x]
        /\ UNCHANGED <<portVars, clockVars, target, yielded, tableVars, passVars, histVars,
                       levelized_plan, cycle, stage, dom, running>>
    BY <1>4 DEF Compute
  <2> HIDE DEF npc, x
  <2>4. FutureTypeOK' /\ Fresh'
    BY <2>2, <2>3 DEF TypeOK, FutureTypeOK, Fresh, Spawned, tableVars, histVars, Task, TableTypeOK
  <2>5. PortsTypeOK' /\ ClockTypeOK' /\ TableTypeOK' /\ PassTypeOK' /\ HistTypeOK'
    BY <2>3 DEF TypeOK, PortsTypeOK, ClockTypeOK, TableTypeOK, PassTypeOK, HistTypeOK, Spawned,
                portVars, clockVars, tableVars, passVars, histVars
  <2> QED
    BY <2>4, <2>5 DEF TypeOK
<1>5. CASE Resume
  <2>1. running # 0
    BY <1>5 DEF Resume
  <2> DEFINE npc == NextPc(running)
  <2>2. /\ npc \in 1..Len(body[running].code) /\ npc \in Nat \ {0}
        /\ running \in Task /\ running <= n
    BY <2>1, InstrType DEF TypeOK, PassTypeOK, TableTypeOK
  <2>3. /\ pc' = [pc EXCEPT ![running] = npc]
        /\ target' = [target EXCEPT ![running] = None]
        /\ yielded' = [yielded EXCEPT ![running] = FALSE]
        /\ crossed' = [crossed EXCEPT ![running] = IF At("tick") THEN @ + 1 ELSE @]
        /\ UNCHANGED <<portVars, clockVars, acc, tableVars, passVars, birth, seen,
                       levelized_plan, cycle, stage, dom, running>>
    BY <1>5 DEF Resume
  <2> HIDE DEF npc
  <2>4. FutureTypeOK' /\ Fresh'
    BY <2>2, <2>3 DEF TypeOK, FutureTypeOK, Fresh, Spawned, tableVars, Task, TableTypeOK
  <2>5. HistTypeOK'
    BY <2>2, <2>3 DEF TypeOK, HistTypeOK
  <2>6. PortsTypeOK' /\ ClockTypeOK' /\ TableTypeOK' /\ PassTypeOK'
    BY <2>3 DEF TypeOK, PortsTypeOK, ClockTypeOK, TableTypeOK, PassTypeOK, Spawned,
                portVars, clockVars, tableVars, passVars
  <2> QED
    BY <2>4, <2>5, <2>6 DEF TypeOK
<1>6. CASE Suspend
  <2>1. running # 0 /\ running \in Task /\ running <= n /\ body[running].dom \in Domain
    BY <1>6, InstrType DEF Suspend, TypeOK, PassTypeOK, TableTypeOK
  <2> DEFINE x == IF At("tick") /\ target[running] = None
                  THEN tick_target(body[running].dom) ELSE target[running]
             y == IF birth[running] = None THEN clk[body[running].dom] ELSE birth[running]
  <2>2. /\ target' = [target EXCEPT ![running] = x]
        /\ yielded' = [yielded EXCEPT ![running] = At("yield")]
        /\ birth' = [birth EXCEPT ![running] = y]
        /\ running' = 0 /\ order' = Tail(order)
        /\ UNCHANGED <<cell, pending, clockVars, pc, acc, tableVars, groups, delta, crossed, seen,
                       levelized_plan, cycle, stage, dom>>
    BY <1>6 DEF Suspend
  <2>3. x \in Nat \cup {None} /\ y \in Nat \cup {None}
    BY <2>1 DEF tick_target, TypeOK, ClockTypeOK, FutureTypeOK, HistTypeOK
  <2> HIDE DEF x, y
  <2>4. PortsTypeOK'
    BY <1>6, <2>2 DEF Suspend, take, TypeOK, PortsTypeOK
  <2>5. FutureTypeOK' /\ Fresh'
    <3>1. yielded' \in [Task -> BOOLEAN]
      BY <2>2 DEF At, TypeOK, FutureTypeOK
    <3> QED
      BY <2>1, <2>2, <2>3, <3>1 DEF TypeOK, FutureTypeOK, Fresh, Spawned, tableVars, Task, TableTypeOK
  <2>6. consecutive_dirty' \in [Task -> Nat] /\ any_dirty' \in BOOLEAN
    <3>1. CASE UNCHANGED <<consecutive_dirty, any_dirty>>
      BY <3>1 DEF TypeOK, PassTypeOK
    <3>2. CASE /\ consecutive_dirty' = [consecutive_dirty EXCEPT ![running] =
                                          IF DirtyHandles(running) # {} THEN @ + 1 ELSE 0]
               /\ any_dirty' = (any_dirty \/ DirtyHandles(running) # {})
      <4>1. consecutive_dirty' \in [Task -> Nat]
        BY <2>1, <3>2 DEF TypeOK, PassTypeOK
      <4>2. any_dirty' \in BOOLEAN
        BY <3>2 DEF TypeOK, PassTypeOK
      <4> QED
        BY <4>1, <4>2
    <3> QED
      BY <1>6, <3>1, <3>2 DEF Suspend
  <2>7. PassTypeOK'
    <3>1. order # << >>
      BY <2>1 DEF Polling
    <3>2. order' \in Seq(Spawned) /\ Spawned' = Spawned /\ 0 \in 0..n
      BY <2>2, <3>1 DEF TypeOK, PassTypeOK, TableTypeOK, Spawned, tableVars
    <3> QED
      BY <2>2, <2>6, <3>2 DEF TypeOK, PassTypeOK, tableVars
  <2>8. TableTypeOK' /\ ClockTypeOK' /\ HistTypeOK'
    BY <2>1, <2>2, <2>3 DEF TypeOK, TableTypeOK, ClockTypeOK, HistTypeOK, Spawned, clockVars, tableVars
  <2> QED
    BY <2>4, <2>5, <2>7, <2>8 DEF TypeOK
<1> QED
  BY <1>1, <1>2, <1>3, <1>4, <1>5, <1>6

\* The end of a pass or of a settle.
LEMMA PassType ==
    ASSUME TypeOK, Fresh, GroupSettled \/ Iterate \/ Panic \/ Return
    PROVE  TypeOK' /\ Fresh'
<1> USE ExecutorAssumption
<1>1. ASSUME NEW gs \in Seq(SUBSET Spawned), NEW d \in Nat, BeginPass(gs, d),
             consecutive_dirty' \in [Task -> Nat],
             UNCHANGED <<portVars, clockVars, futVars, tableVars, histVars,
                         levelized_plan, cycle, stage, dom>>
      PROVE  TypeOK' /\ Fresh'
  <2>1. n' = n /\ n \in Nat /\ Spawned' = Spawned
    BY <1>1 DEF TypeOK, TableTypeOK, tableVars, Spawned
  <2>2. PassTypeOK'
    BY <1>1, <2>1, BeginPassType DEF TypeOK, PassTypeOK
  <2>3. PortsTypeOK' /\ ClockTypeOK' /\ TableTypeOK' /\ FutureTypeOK' /\ HistTypeOK' /\ Fresh'
    BY <1>1, <2>1 DEF TypeOK, PortsTypeOK, ClockTypeOK, TableTypeOK, FutureTypeOK, HistTypeOK, Fresh,
                      portVars, clockVars, futVars, tableVars, histVars
  <2> QED
    BY <2>2, <2>3 DEF TypeOK
<1>2. CASE GroupSettled
  <2>1. Tail(groups) \in Seq(SUBSET Spawned)
    BY <1>2 DEF GroupSettled, PassDone, TypeOK, PassTypeOK
  <2>2. consecutive_dirty' \in [Task -> Nat]
    BY <1>2 DEF GroupSettled, TypeOK, PassTypeOK
  <2> QED
    BY <1>1, <1>2, <2>1, <2>2 DEF GroupSettled
<1>3. CASE Iterate
  <2>1. groups \in Seq(SUBSET Spawned) /\ delta + 1 \in Nat /\ consecutive_dirty' \in [Task -> Nat]
    BY <1>3 DEF Iterate, TypeOK, PassTypeOK
  <2> QED
    BY <1>1, <1>3, <2>1 DEF Iterate
<1>4. CASE Panic
  <2>1. levelized_plan' \in Seq(SUBSET Spawned)
    BY <1>4 DEF Panic, TypeOK, TableTypeOK
  <2> QED
    BY <1>4, <2>1 DEF Panic, TypeOK, PortsTypeOK, ClockTypeOK, TableTypeOK, FutureTypeOK, PassTypeOK,
              HistTypeOK, Fresh, Spawned, portVars, clockVars, futVars, tableVars, passVars, histVars
<1>5. CASE Return
  <2>1. cycle' \in Nat /\ stage' \in {"edge", "idle"}
    BY <1>5 DEF Return, TypeOK, PassTypeOK
  <2> QED
    BY <1>5, <2>1 DEF Return, TypeOK, PortsTypeOK, ClockTypeOK, TableTypeOK, FutureTypeOK, PassTypeOK,
              HistTypeOK, Fresh, Spawned, portVars, clockVars, futVars, tableVars, passVars, histVars
<1> QED
  BY <1>2, <1>3, <1>4, <1>5

\* The task being polled is the head of the pass, until it suspends.
LEMMA PollingKept ==
    ASSUME Polling, [Next]_vars
    PROVE  Polling'
<1>1. ASSUME running' = 0
      PROVE  Polling'
  BY <1>1 DEF Polling
<1>2. ASSUME running' = running, order' = order
      PROVE  Polling'
  BY <1>2 DEF Polling
<1>3. CASE Poll
  BY <1>3 DEF Poll, Polling, passVars
<1>4. CASE (\E b \in Body : spawn_wired(b)) \/ (\E w \in External, v \in Value : Drive(w, v))
           \/ (\E m \in Modes, o \in PollOrders : set_scheduler_mode(m, o))
           \/ (\E d \in Domain : advance(d))
  BY <1>2, <1>4 DEF spawn_wired, Drive, set_scheduler_mode, advance, passVars
<1>5. CASE (\E d \in Domain : pre_edge_settle(d)) \/ BarePoll \/ post_edge_settle
  BY <1>1, <1>5 DEF pre_edge_settle, BarePoll, post_edge_settle, poll_tasks, BeginPass
<1>6. CASE ReadPort \/ WritePort \/ Compute \/ Resume \/ Panic \/ Return \/ UNCHANGED vars
  BY <1>2, <1>6 DEF ReadPort, WritePort, Compute, Resume, Panic, Return, vars, passVars
<1>7. CASE Suspend \/ GroupSettled \/ Iterate
  BY <1>1, <1>7 DEF Suspend, GroupSettled, Iterate, BeginPass
<1> QED
  BY <1>3, <1>4, <1>5, <1>6, <1>7 DEF Next, Caller, Settle

-----------------------------------------------------------------------------
\* Everything the executor indexes stays in range, and every field keeps its type,
\* whatever modules are spawned and however the testbench interleaves its calls.
THEOREM TypeCorrect == Spec => [](TypeOK /\ Fresh /\ Polling)
<1>1. Init => TypeOK /\ Fresh /\ Polling
  BY InitType DEF Init, Polling
<1>2. ASSUME TypeOK, Fresh, Polling, [Next]_vars
      PROVE  TypeOK' /\ Fresh'
  <2>1. CASE UNCHANGED vars
    BY <1>2, <2>1 DEF vars, TypeOK, PortsTypeOK, ClockTypeOK, TableTypeOK, FutureTypeOK, PassTypeOK,
              HistTypeOK, Fresh, Spawned, portVars, clockVars, futVars, tableVars, passVars, histVars
  <2>2. CASE Next
    BY <1>2, <2>2, SpawnType, CallType, StepType, PassType DEF Next, Caller, Settle
  <2> QED
    BY <1>2, <2>1, <2>2
<1> QED
  BY <1>1, <1>2, PollingKept, PTL DEF Spec

-----------------------------------------------------------------------------
\* Each tick future a task waits on asks for an edge beyond all those the task has
\* used up: the strengthening that makes NoTickCompression inductive.
TickCredit ==
    \A t \in Spawned :
        /\ birth[t] = None => crossed[t] = 0 /\ target[t] = None
        /\ target[t] # None => birth[t] + crossed[t] < target[t]
        /\ birth[t] # None => birth[t] + crossed[t] <= clk[body[t].dom]

\* Steps that leave the futures and their history alone keep the credit, as long
\* as no clock runs backwards.
LEMMA CreditFrame ==
    ASSUME TypeOK, TickCredit, n' = n, body' = body,
           target' = target, birth' = birth, crossed' = crossed,
           \A d \in Domain : clk'[d] \in Nat /\ clk'[d] >= clk[d]
    PROVE  TickCredit'
<1>1. Spawned' = Spawned
  BY DEF Spawned
<1>2. \A t \in Spawned : /\ t \in Task /\ body[t].dom \in Domain
                         /\ crossed[t] \in Nat /\ birth[t] \in Nat \cup {None}
                         /\ clk[body[t].dom] \in Nat
  BY ExecutorAssumption, BodyAssumption DEF TypeOK, TableTypeOK, HistTypeOK, ClockTypeOK, Spawned, Task
<1> QED
  BY <1>1, <1>2 DEF TickCredit

\* Every step leaves a module with an edge for each tick it has crossed.
LEMMA CreditKept ==
    ASSUME TypeOK, Fresh, TickCredit, [Next]_vars
    PROVE  TickCredit'
<1> USE ExecutorAssumption
<1>1. ASSUME clk' = clk, n' = n, body' = body, target' = target, birth' = birth, crossed' = crossed
      PROVE  TickCredit'
  <2>1. \A d \in Domain : clk[d] \in Nat
    BY DEF TypeOK, ClockTypeOK
  <2> QED
    BY <1>1, <2>1, CreditFrame
<1>2. ASSUME NEW d \in Domain, clock_advance(d), n' = n, body' = body,
             target' = target, birth' = birth, crossed' = crossed
      PROVE  TickCredit'
  <2>1. \A e \in Domain : clk'[e] \in Nat /\ clk'[e] >= clk[e]
    BY <1>2 DEF clock_advance, TypeOK, ClockTypeOK
  <2> QED
    BY <1>2, <2>1, CreditFrame
<1>3. ASSUME NEW b \in Body, spawn_wired(b)
      PROVE  TickCredit'
  <2>1. /\ n \in Nat /\ Spawned' = Spawned \cup {n + 1} /\ n + 1 \in Task /\ n + 1 \notin Spawned
        /\ body' = [body EXCEPT ![n + 1] = b] /\ Spawned \subseteq Task
    BY <1>3 DEF spawn_wired, Spawned, Task, TypeOK, TableTypeOK
  <2>2. /\ target' = target /\ birth' = birth /\ crossed' = crossed /\ clk' = clk
        /\ target[n + 1] = None /\ birth[n + 1] = None /\ crossed[n + 1] = 0
    BY <1>3, <2>1 DEF spawn_wired, Fresh, futVars, histVars, clockVars
  <2>3. \A t \in Spawned : body'[t] = body[t]
    BY <2>1 DEF TypeOK, TableTypeOK
  <2> QED
    BY <2>1, <2>2, <2>3 DEF TickCredit
<1>4. CASE Resume
  <2>1. running # 0 /\ running \in Spawned /\ running \in Task /\ body[running].dom \in Domain
    BY <1>4, InstrType DEF Resume
  <2>2. /\ target' = [target EXCEPT ![running] = None]
        /\ crossed' = [crossed EXCEPT ![running] = IF At("tick") THEN @ + 1 ELSE @]
        /\ birth' = birth /\ clk' = clk /\ body' = body /\ Spawned' = Spawned
    BY <1>4 DEF Resume, clockVars, tableVars, Spawned
  <2>3. At("tick") => target[running] # None /\ clk[body[running].dom] >= target[running]
    BY <1>4 DEF Resume, At, Ready, tick_ready
  <2>4. \A t \in Spawned : /\ t \in Task /\ crossed[t] \in Nat /\ birth[t] \in Nat \cup {None}
                           /\ target[t] \in Nat \cup {None}
    BY DEF TypeOK, TableTypeOK, HistTypeOK, FutureTypeOK, Spawned, Task
  <2>5. clk[body[running].dom] \in Nat
    BY <2>1 DEF TypeOK, ClockTypeOK
  <2>6. ASSUME NEW t \in Spawned, t # running
        PROVE  target'[t] = target[t] /\ crossed'[t] = crossed[t]
    BY <2>2, <2>6
  <2>7. target'[running] = None /\ crossed'[running] = IF At("tick") THEN crossed[running] + 1
                                                       ELSE crossed[running]
    BY <2>1, <2>2 DEF TypeOK, FutureTypeOK, HistTypeOK
  <2>8. CASE At("tick")
    BY <2>1, <2>2, <2>3, <2>4, <2>5, <2>6, <2>7, <2>8, NoneIsNoNumber DEF TickCredit
  <2>9. CASE ~At("tick")
    BY <2>1, <2>2, <2>4, <2>6, <2>7, <2>9 DEF TickCredit
  <2> QED
    BY <2>8, <2>9
<1>5. CASE Suspend
  <2>1. running # 0 /\ running \in Spawned /\ running \in Task /\ body[running].dom \in Domain
    BY <1>5, InstrType DEF Suspend
  <2> DEFINE now == clk[body[running].dom]
  <2>2. /\ target' = [target EXCEPT ![running] =
                        IF At("tick") /\ @ = None THEN now + 1 ELSE @]
        /\ birth' = [birth EXCEPT ![running] = IF @ = None THEN now ELSE @]
        /\ crossed' = crossed /\ clk' = clk /\ body' = body /\ Spawned' = Spawned
    BY <1>5 DEF Suspend, tick_target, clockVars, tableVars, Spawned
  <2>3. now \in Nat
    BY <2>1 DEF TypeOK, ClockTypeOK
  <2>4. \A t \in Spawned : /\ t \in Task /\ crossed[t] \in Nat /\ birth[t] \in Nat \cup {None}
                           /\ target[t] \in Nat \cup {None}
    BY DEF TypeOK, TableTypeOK, HistTypeOK, FutureTypeOK, Spawned, Task
  <2>5. ASSUME NEW t \in Spawned, t # running
        PROVE  target'[t] = target[t] /\ birth'[t] = birth[t]
    BY <2>2, <2>5
  <2>6. /\ target'[running] = IF At("tick") /\ target[running] = None THEN now + 1 ELSE target[running]
        /\ birth'[running] = IF birth[running] = None THEN now ELSE birth[running]
    BY <2>1, <2>2 DEF TypeOK, FutureTypeOK, HistTypeOK
  <2> HIDE DEF now
  <2>7. /\ birth'[running] # None
        /\ target'[running] # None => birth'[running] + crossed[running] < target'[running]
        /\ birth'[running] + crossed[running] <= now
    BY <2>1, <2>3, <2>4, <2>6, NoneIsNoNumber DEF TickCredit, now
  <2> QED
    BY <2>1, <2>2, <2>4, <2>5, <2>7 DEF TickCredit, now
<1>6. CASE (\E w \in External, v \in Value : Drive(w, v))
           \/ (\E m \in Modes, o \in PollOrders : set_scheduler_mode(m, o))
           \/ (\E d \in Domain : pre_edge_settle(d)) \/ BarePoll
           \/ Poll \/ ReadPort \/ WritePort \/ Compute
           \/ GroupSettled \/ Iterate \/ Panic \/ Return \/ UNCHANGED vars
  BY <1>1, <1>6 DEF Drive, set_scheduler_mode, pre_edge_settle, BarePoll, Poll, ReadPort, WritePort,
              Compute, GroupSettled, Iterate, Panic, Return, vars, clockVars, tableVars, futVars, histVars
<1>7. CASE (\E d \in Domain : advance(d)) \/ post_edge_settle
  BY <1>2, <1>7 DEF advance, post_edge_settle, tableVars, futVars, histVars, TypeOK, PassTypeOK
<1> QED
  BY <1>3, <1>4, <1>5, <1>6, <1>7 DEF Next, Caller, Settle

\* No module ever runs through more clock edges than its clock has had since the
\* module started: one edge resolves at most one tick().await (ClockTick::poll),
\* under any mix of tick_clock, advance and bare poll_tasks calls.
THEOREM NoCompression == Spec => []NoTickCompression
<1>1. Init => TickCredit
  BY DEF Init, TickCredit, Spawned
<1>2. TickCredit => NoTickCompression
  BY DEF TickCredit, NoTickCompression
<1> QED
  BY <1>1, <1>2, TypeCorrect, CreditKept, PTL DEF Spec

-----------------------------------------------------------------------------
\* Registered outputs are constant during a settle and change only on an edge of
\* their own clock, whoever writes them and however often (RegOut::write).
THEOREM RegistersHold == Spec => RegisteredHeld
<1> DEFINE Held == \A w \in Registered : cell'[w] # cell[w] =>
                     clk'[RegClock[w]] = clk[RegClock[w]] + 1 /\ cell'[w] = pending[w]
<1>1. ASSUME TypeOK, [Next]_vars
      PROVE  Held
  <2> USE ExecutorAssumption, PortsAssumption
  <2>1. ASSUME cell' = cell
        PROVE  Held
    BY <2>1
  <2>2. ASSUME NEW d \in Domain, clock_advance(d), on_posedge(d)
        PROVE  Held
    <3> SUFFICES ASSUME NEW w \in Registered, cell'[w] # cell[w]
                 PROVE  clk'[RegClock[w]] = clk[RegClock[w]] + 1 /\ cell'[w] = pending[w]
      OBVIOUS
    <3>1. w \in Wire /\ RegClock[w] \in Domain
      OBVIOUS
    <3>2. w \in Committing(d)
      BY <2>2, <3>1 DEF on_posedge
    <3>3. RegClock[w] = d /\ cell'[w] = pending[w]
      BY <2>2, <3>1, <3>2 DEF Committing, on_posedge
    <3>4. clk'[d] = clk[d] + 1
      BY <1>1, <2>2 DEF clock_advance, TypeOK, ClockTypeOK
    <3> QED
      BY <3>3, <3>4
  <2>3. ASSUME NEW w \in Wire, NEW v, Write(w, v)
        PROVE  Held
    <3>1. \A u \in Registered : cell'[u] = cell[u]
      BY <1>1, <2>3 DEF Write, out_write, regout_write, TypeOK, PortsTypeOK
    <3> QED
      BY <3>1
  <2>4. CASE \E w \in External, v \in Value : Drive(w, v)
    BY <2>3, <2>4 DEF Drive, Write
  <2>5. CASE WritePort
    <3>1. Instr(running).wire \in Wire
      BY <1>1, <2>5, InstrType DEF WritePort, At
    <3> QED
      BY <2>3, <2>5, <3>1 DEF WritePort
  <2>6. CASE (\E d \in Domain : advance(d)) \/ post_edge_settle
    BY <1>1, <2>2, <2>6 DEF advance, post_edge_settle, TypeOK, PassTypeOK
  <2>7. CASE (\E b \in Body : spawn_wired(b))
             \/ (\E m \in Modes, o \in PollOrders : set_scheduler_mode(m, o))
             \/ (\E d \in Domain : pre_edge_settle(d)) \/ BarePoll
             \/ Poll \/ ReadPort \/ Compute \/ Resume \/ Suspend
             \/ GroupSettled \/ Iterate \/ Panic \/ Return \/ UNCHANGED vars
    BY <2>1, <2>7 DEF spawn_wired, set_scheduler_mode, pre_edge_settle, BarePoll, Poll, ReadPort,
                Compute, Resume, Suspend, GroupSettled, Iterate, Panic, Return, vars, portVars
  <2> QED
    BY <1>1, <2>4, <2>5, <2>6, <2>7 DEF Next, Caller, Settle
<1> QED
  BY <1>1, TypeCorrect, PTL DEF Spec, RegisteredHeld

-----------------------------------------------------------------------------
(***************************************************************************)
(* The plan and the passes: the inductive invariants.                      *)
(***************************************************************************)

\* The dependency graph of the spawned tasks.
Edges == comb_dependency_graph(tasks, Registered)

\* A plan that is not marked stale is the plan of the tasks there are.
PlanValid ==
    ~graph_dirty /\ stage # "panic" => levelized_plan \in compute_scc_plan(tasks, Registered)

\* A levelized settle walks components.
GroupsValid ==
    stage \in Settling /\ scheduler = "Levelized" =>
        \A i \in 1..Len(groups) : groups[i] \in Components(Spawned, Edges)

\* A pass visits members of the current group, and the task being polled is the head.
Pass ==
    /\ groups = << >> => order = << >>
    /\ \A k \in 1..Len(order) : order[k] \in Head(groups)
    /\ running # 0 => order # << >> /\ running = Head(order)

\* A settle that panicked under the levelized scheduler was iterating a cycle.
PanicCause == stage = "panic" /\ scheduler = "Levelized" => comb_cycles(tasks, Registered) # {}

\* The settle has still to poll t, for the first or the last time.
Todo(t) ==
    \/ \E k \in 1..Len(order) : order[k] = t
    \/ \E i \in 2..Len(groups) : t \in groups[i]

\* No handle of t is dirty.
Clean(t) == \A w \in Handles(body[t]) : ~dirty[w]

\* A change that is not consumed is one of a task still to be polled, in this pass, in
\* a later group, or in the next pass over this group.
DirtyCause ==
    stage \in Settling =>
        \A t \in Spawned :
            \/ Clean(t)
            \/ Todo(t)
            \/ any_dirty /\ groups # << >> /\ ~Singleton /\ t \in Head(groups)

\* Each wire has one driver: an Out is not Clone.
OneDriver == \A t, u \in Spawned : t # u => Writes(body[t]) \cap Writes(body[u]) = {}

-----------------------------------------------------------------------------
\* A pass visits every member of its group, and nobody else.
LEMMA VisitAll ==
    ASSUME n \in Nat, NEW S \in SUBSET Spawned, NEW s \in visit_order(S)
    PROVE  /\ s \in Seq(Spawned)
           /\ \A k \in 1..Len(s) : s[k] \in S
           /\ \A x \in S : \E k \in 1..Len(s) : s[k] = x
<1> DEFINE k == Cardinality(S)
<1>1. IsFiniteSet(S) /\ k \in Nat
  BY SpawnedFinite
<1>2. s \in [1..k -> S] /\ \A i, j \in 1..k : i < j => s[i] # s[j]
  BY DEF visit_order
<1> HIDE DEF k
<1>3. s \in Seq(Spawned) /\ Len(s) = k
  BY <1>1, <1>2
<1>4. s \in Injection(1..k, S)
  <2>1. \A i, j \in 1..k : s[i] = s[j] => i = j
    BY <1>1, <1>2
  <2> QED
    BY <1>2, <2>1 DEF Injection, IsInjective
<1>5. Cardinality(1..k) = Cardinality(S)
  BY <1>1, FS_Interval DEF k
<1>6. s \in Surjection(1..k, S)
  BY <1>1, <1>4, <1>5, FS_Injection
<1> QED
  BY <1>2, <1>3, <1>6 DEF Surjection

\* When a pass begins, everyone in the current and the later groups is still to be polled.
LEMMA BeginPassCovers ==
    ASSUME n \in Nat, NEW gs \in Seq(SUBSET Spawned), NEW d, BeginPass(gs, d)
    PROVE  /\ groups' = gs /\ running' = 0 /\ any_dirty' = FALSE
           /\ gs = << >> => order' = << >>
           /\ \A k \in 1..Len(order') : order'[k] \in Head(gs)
           /\ \A t : (\E i \in 1..Len(gs) : t \in gs[i]) => Todo(t)'
<1>1. groups' = gs /\ running' = 0 /\ any_dirty' = FALSE
  BY DEF BeginPass
<1>2. CASE gs = << >>
  <2>1. order' = << >>
    BY <1>2 DEF BeginPass
  <2> QED
    BY <1>1, <1>2, <2>1
<1>3. CASE gs # << >>
  <2>1. order' \in visit_order(Head(gs)) /\ Head(gs) \in SUBSET Spawned /\ Head(gs) = gs[1]
    BY <1>3 DEF BeginPass
  <2>2. /\ \A k \in 1..Len(order') : order'[k] \in Head(gs)
        /\ \A x \in Head(gs) : \E k \in 1..Len(order') : order'[k] = x
    BY <2>1, VisitAll
  <2>3. ASSUME NEW t, NEW i \in 1..Len(gs), t \in gs[i]
        PROVE  Todo(t)'
    <3>1. i = 1 \/ i \in 2..Len(gs)
      OBVIOUS
    <3> QED
      BY <1>1, <2>1, <2>2, <2>3, <3>1 DEF Todo
  <2> QED
    BY <1>1, <1>3, <2>2, <2>3
<1> QED
  BY <1>2, <1>3

\* The plan has every task in it, and consists of components.
LEMMA PlanCovers ==
    ASSUME n \in Nat, NEW p \in compute_scc_plan(tasks, Registered)
    PROVE  /\ p \in Seq(SUBSET Spawned)
           /\ Len(p) = Cardinality(Components(Spawned, Edges))
           /\ p \in kahn_order(Components(Spawned, Edges), Edges)
           /\ \A i \in 1..Len(p) : p[i] \in Components(Spawned, Edges)
           /\ \A t \in Spawned : \E i \in 1..Len(p) : t \in p[i]
<1> DEFINE comps == Components(Spawned, Edges)
<1>1. DOMAIN tasks = Spawned /\ Edges \in SUBSET (Spawned \X Spawned)
  BY DEF tasks, Edges, comb_dependency_graph
<1>2. IsFiniteSet(Spawned)
  BY SpawnedFinite
<1>3. IsFiniteSet(comps) /\ Cardinality(comps) \in Nat
  BY <1>1, <1>2, ComponentsFinite
<1>4. p \in kahn_order(comps, Edges)
  BY <1>1 DEF compute_scc_plan, Edges
<1>5. \A t \in Spawned : \E c \in comps : t \in c
  BY <1>1, ComponentsPartition
<1> HIDE DEF comps
<1>6. p \in [1..Cardinality(comps) -> comps]
  BY <1>4, KahnOrderDef
<1>7. Len(p) = Cardinality(comps)
  BY <1>3, <1>6
<1>8. \A c \in comps : \E i \in 1..Cardinality(comps) : p[i] = c
  BY <1>3, <1>4, KahnOrderComplete
<1> QED
  BY <1>4, <1>5, <1>6, <1>7, <1>8, PlanType DEF comps

\* A settle starts with every task still to be polled, and with a current plan.
LEMMA PollTasksCovers ==
    ASSUME TypeOK, PlanValid, stage # "panic", n' = n, body' = body, poll_tasks
    PROVE  /\ \A t \in Spawned : Todo(t)'
           /\ Pass' /\ running' = 0
           /\ scheduler = "Levelized" =>
                 \A i \in 1..Len(groups') : groups'[i] \in Components(Spawned, Edges)
           /\ ~graph_dirty' => levelized_plan' \in compute_scc_plan(tasks, Registered)
<1>1. n \in Nat /\ Spawned' = Spawned
  BY ExecutorAssumption DEF TypeOK, TableTypeOK, Spawned
<1>2. ASSUME NEW gs \in Seq(SUBSET Spawned), BeginPass(gs, 0),
             \A t \in Spawned : \E i \in 1..Len(gs) : t \in gs[i]
      PROVE  (\A t \in Spawned : Todo(t)') /\ Pass' /\ running' = 0 /\ groups' = gs
  <2>1. /\ groups' = gs /\ running' = 0
        /\ gs = << >> => order' = << >>
        /\ \A k \in 1..Len(order') : order'[k] \in Head(gs)
        /\ \A t : (\E i \in 1..Len(gs) : t \in gs[i]) => Todo(t)'
    BY <1>1, <1>2, BeginPassCovers
  <2> QED
    BY <1>2, <2>1 DEF Pass
<1>3. CASE scheduler = "Levelized" /\ levelized_plan' \in (IF graph_dirty
                THEN compute_scc_plan(tasks, Registered) ELSE {levelized_plan})
           /\ graph_dirty' = FALSE /\ BeginPass(levelized_plan', 0)
  <2>1. PICK p : p = levelized_plan'
    OBVIOUS
  <2>2. p \in compute_scc_plan(tasks, Registered)
    BY <1>3, <2>1 DEF PlanValid
  <2>3. /\ p \in Seq(SUBSET Spawned) /\ \A t \in Spawned : \E i \in 1..Len(p) : t \in p[i]
        /\ \A i \in 1..Len(p) : p[i] \in Components(Spawned, Edges)
    BY <1>1, <2>2, PlanCovers
  <2>4. BeginPass(p, 0)
    BY <1>3, <2>1
  <2>5. (\A t \in Spawned : Todo(t)') /\ Pass' /\ running' = 0 /\ groups' = p
    BY <1>2, <2>3, <2>4
  <2> HIDE <1>3
  <2> QED
    BY <2>1, <2>2, <2>3, <2>5
<1>4. CASE scheduler = "Fixpoint" /\ BeginPass(<<Spawned>>, 0)
           /\ UNCHANGED <<levelized_plan, graph_dirty>>
  <2>1. <<Spawned>> \in Seq(SUBSET Spawned) /\ \A t \in Spawned : \E i \in 1..Len(<<Spawned>>) : t \in <<Spawned>>[i]
    OBVIOUS
  <2> QED
    BY <1>2, <1>4, <2>1 DEF PlanValid
<1> QED
  BY <1>3, <1>4 DEF poll_tasks, ensure_graph

-----------------------------------------------------------------------------
\* What ties the plan, the groups and the pass together.
PlanInv == PlanValid /\ GroupsValid /\ Pass /\ PanicCause

\* The table decides the graph.
LEMMA SameTable ==
    ASSUME n' = n, body' = body
    PROVE  Spawned' = Spawned /\ tasks' = tasks /\ Edges' = Edges
BY DEF Spawned, tasks, Edges

\* The current group is one of the groups, and the head of the pass one of its members.
LEMMA PassFacts ==
    ASSUME TypeOK, Pass, order # << >>
    PROVE  /\ groups # << >> /\ Head(order) \in Head(groups) /\ Head(order) \in Spawned
           /\ Tail(order) \in Seq(Spawned)
           /\ \A k \in 1..Len(Tail(order)) : k + 1 \in 1..Len(order) /\ Tail(order)[k] = order[k + 1]
           /\ \A k \in 1..Len(order) : k = 1 \/ k - 1 \in 1..Len(Tail(order))
<1>1. order \in Seq(Spawned)
  BY DEF TypeOK, PassTypeOK
<1>2. Len(order) \in Nat \ {0} /\ Head(order) = order[1] /\ 1 \in 1..Len(order)
  BY <1>1
<1>3. Tail(order) \in Seq(Spawned) /\ Len(Tail(order)) = Len(order) - 1
      /\ \A k \in 1..Len(Tail(order)) : Tail(order)[k] = order[k + 1]
  BY <1>1
<1> QED
  BY <1>1, <1>2, <1>3 DEF Pass

\* The groups after the current one.
LEMMA LaterGroups ==
    ASSUME TypeOK, groups # << >>
    PROVE  /\ Tail(groups) \in Seq(SUBSET Spawned) /\ Head(groups) \in SUBSET Spawned
           /\ Head(groups) = groups[1] /\ 1 \in 1..Len(groups)
           /\ \A i \in 1..Len(Tail(groups)) : i + 1 \in 1..Len(groups) /\ Tail(groups)[i] = groups[i + 1]
           /\ \A t : (\E i \in 2..Len(groups) : t \in groups[i])
                        => \E i \in 1..Len(Tail(groups)) : t \in Tail(groups)[i]
<1>1. groups \in Seq(SUBSET Spawned)
  BY DEF TypeOK, PassTypeOK
<1>2. Len(groups) \in Nat \ {0} /\ Head(groups) = groups[1] /\ Head(groups) \in SUBSET Spawned
  BY <1>1
<1>3. Tail(groups) \in Seq(SUBSET Spawned) /\ Len(Tail(groups)) = Len(groups) - 1
      /\ \A i \in 1..Len(Tail(groups)) : Tail(groups)[i] = groups[i + 1]
  BY <1>1
<1>4. ASSUME NEW t, NEW i \in 2..Len(groups), t \in groups[i]
      PROVE  \E j \in 1..Len(Tail(groups)) : t \in Tail(groups)[j]
  <2>1. i - 1 \in 1..Len(Tail(groups)) /\ (i - 1) + 1 = i
    BY <1>2, <1>3
  <2> QED
    BY <1>3, <1>4, <2>1
<1> QED
  BY <1>2, <1>3, <1>4

\* Starting the next pass keeps the invariant.
LEMMA NextPassKeeps ==
    ASSUME TypeOK, PlanInv, PassDone, NEW gs, gs \in {groups, Tail(groups)}, NEW d, BeginPass(gs, d),
           UNCHANGED <<tableVars, levelized_plan, stage>>
    PROVE  PlanInv'
<1>1. n \in Nat /\ n' = n /\ body' = body /\ stage' = stage /\ stage \in Settling /\ groups # << >>
      /\ scheduler' = scheduler /\ graph_dirty' = graph_dirty /\ levelized_plan' = levelized_plan
  BY ExecutorAssumption DEF PassDone, tableVars, TypeOK, TableTypeOK
<1>2. Spawned' = Spawned /\ tasks' = tasks /\ Edges' = Edges
  BY <1>1, SameTable
<1>3. gs \in Seq(SUBSET Spawned)
  BY <1>1, LaterGroups DEF TypeOK, PassTypeOK
<1>4. Pass' /\ groups' = gs
  BY <1>1, <1>3, BeginPassCovers DEF Pass
<1>5. GroupsValid'
  <2>1. \A i \in 1..Len(gs) : \E j \in 1..Len(groups) : gs[i] = groups[j]
    BY <1>1, LaterGroups
  <2> QED
    BY <1>1, <1>2, <1>4, <2>1 DEF PlanInv, GroupsValid
<1>6. PlanValid' /\ PanicCause'
  BY <1>1, <1>2 DEF PlanInv, PlanValid, PanicCause, Settling
<1> QED
  BY <1>4, <1>5, <1>6 DEF PlanInv

\* A component that is walked more than once is a cycle of the graph.
LEMMA PanicHasCause ==
    ASSUME TypeOK, GroupsValid, Panic, scheduler = "Levelized"
    PROVE  comb_cycles(tasks, Registered) # {}
<1> DEFINE c == Head(groups)
<1>1. groups # << >> /\ stage \in Settling /\ ~Singleton
  BY DEF Panic, PassDone
<1>2. c \in Components(Spawned, Edges) /\ c \in SUBSET Spawned
  BY <1>1, LaterGroups DEF GroupsValid
<1>3. Cardinality(c) # 1
  BY <1>1 DEF Singleton
<1>4. n \in Nat /\ Edges \in SUBSET (Spawned \X Spawned) /\ DOMAIN tasks = Spawned
  BY ExecutorAssumption DEF TypeOK, TableTypeOK, Edges, comb_dependency_graph, tasks
<1> HIDE DEF c
<1>5. IsFiniteSet(c) /\ Cardinality(c) \in Nat
  BY <1>2, <1>4, SpawnedFinite
<1>6. c # {}
  BY <1>2, <1>4, ComponentsPartition
<1>7. Cardinality(c) > 1
  BY <1>3, <1>5, <1>6, FS_EmptySet
<1> QED
  BY <1>2, <1>4, <1>7 DEF comb_cycles, Edges

\* Every step keeps the plan, the groups and the pass consistent.
LEMMA PlanStep == TypeOK /\ PlanInv /\ [Next]_vars => PlanInv'
<1> SUFFICES ASSUME TypeOK, PlanInv, [Next]_vars PROVE PlanInv'
  OBVIOUS
<1> USE DEF PlanInv
<1>1. ASSUME UNCHANGED <<n, body, scheduler, graph_dirty, levelized_plan, stage, groups, order, running>>
      PROVE  PlanInv'
  <2>1. Spawned' = Spawned /\ tasks' = tasks /\ Edges' = Edges
    BY <1>1, SameTable
  <2> QED
    BY <1>1, <2>1 DEF PlanValid, GroupsValid, Pass, PanicCause
<1>2. CASE (\E w \in External, v \in Value : Drive(w, v)) \/ (\E d \in Domain : advance(d))
           \/ ReadPort \/ WritePort \/ Compute \/ Resume \/ UNCHANGED vars
  BY <1>1, <1>2 DEF Drive, advance, ReadPort, WritePort, Compute, Resume, vars, tableVars, passVars
<1>3. CASE \E b \in Body : spawn_wired(b)
  BY <1>3 DEF spawn_wired, PlanValid, GroupsValid, Pass, PanicCause, passVars, Settling
<1>4. CASE \E m \in Modes, o \in PollOrders : set_scheduler_mode(m, o)
  <2>1. /\ UNCHANGED <<n, body, graph_dirty, levelized_plan, stage, groups, order, running>>
        /\ stage = "idle"
    BY <1>4 DEF set_scheduler_mode, passVars
  <2>2. tasks' = tasks
    BY <2>1, SameTable
  <2> QED
    BY <2>1, <2>2 DEF PlanValid, GroupsValid, Pass, PanicCause, Settling
<1>5. CASE (\E d \in Domain : pre_edge_settle(d)) \/ BarePoll \/ post_edge_settle
  <2>1. /\ poll_tasks /\ n' = n /\ body' = body /\ scheduler' = scheduler
        /\ stage # "panic" /\ stage' # "panic"
    BY <1>5 DEF pre_edge_settle, BarePoll, post_edge_settle
  <2>2. Spawned' = Spawned /\ tasks' = tasks /\ Edges' = Edges
    BY <2>1, SameTable
  <2>3. /\ Pass'
        /\ scheduler = "Levelized" =>
              \A i \in 1..Len(groups') : groups'[i] \in Components(Spawned, Edges)
        /\ ~graph_dirty' => levelized_plan' \in compute_scc_plan(tasks, Registered)
    BY <2>1, PollTasksCovers
  <2> QED
    BY <2>1, <2>2, <2>3 DEF PlanValid, GroupsValid, PanicCause
<1>6. CASE Poll
  <2>1. /\ UNCHANGED <<n, body, scheduler, graph_dirty, levelized_plan, stage, groups, order>>
        /\ order # << >> /\ running' = Head(order)
    BY <1>6 DEF Poll, tableVars, passVars
  <2>2. Spawned' = Spawned /\ tasks' = tasks /\ Edges' = Edges
    BY <2>1, SameTable
  <2> QED
    BY <2>1, <2>2 DEF PlanValid, GroupsValid, Pass, PanicCause
<1>7. CASE Suspend
  <2>1. /\ UNCHANGED <<n, body, scheduler, graph_dirty, levelized_plan, stage, groups>>
        /\ order # << >> /\ running' = 0 /\ order' = Tail(order)
    BY <1>7 DEF Suspend, tableVars, Pass
  <2>2. Spawned' = Spawned /\ tasks' = tasks /\ Edges' = Edges
    BY <2>1, SameTable
  <2>3. /\ groups # << >>
        /\ \A k \in 1..Len(Tail(order)) : k + 1 \in 1..Len(order) /\ Tail(order)[k] = order[k + 1]
    BY <2>1, PassFacts
  <2>4. Pass'
    BY <2>1, <2>3 DEF Pass
  <2> QED
    BY <2>1, <2>2, <2>4 DEF PlanValid, GroupsValid, PanicCause
<1>8. CASE GroupSettled
  <2>1. PassDone /\ BeginPass(Tail(groups), 0) /\ UNCHANGED <<tableVars, levelized_plan, stage>>
    BY <1>8 DEF GroupSettled
  <2> QED
    BY <2>1, NextPassKeeps
<1>9. CASE Iterate
  <2>1. PassDone /\ BeginPass(groups, delta + 1) /\ UNCHANGED <<tableVars, levelized_plan, stage>>
    BY <1>9 DEF Iterate
  <2> QED
    BY <2>1, NextPassKeeps
<1>10. CASE Panic
  <2>1. /\ UNCHANGED <<n, body, scheduler, groups, order, running>> /\ stage' = "panic"
    BY <1>10 DEF Panic, tableVars, passVars
  <2>2. tasks' = tasks
    BY <2>1, SameTable
  <2>3. scheduler = "Levelized" => comb_cycles(tasks, Registered) # {}
    BY <1>10, PanicHasCause
  <2> QED
    BY <2>1, <2>2, <2>3 DEF PlanValid, GroupsValid, Pass, PanicCause, Settling
<1>11. CASE Return
  <2>1. /\ UNCHANGED <<n, body, scheduler, graph_dirty, levelized_plan, groups, order, running>>
        /\ stage # "panic" /\ stage' \in {"edge", "idle"}
    BY <1>11 DEF Return, tableVars, passVars, SettleDone, Settling
  <2>2. tasks' = tasks
    BY <2>1, SameTable
  <2> QED
    BY <2>1, <2>2 DEF PlanValid, GroupsValid, Pass, PanicCause, Settling
<1> QED
  BY <1>2, <1>3, <1>4, <1>5, <1>6, <1>7, <1>8, <1>9, <1>10, <1>11 DEF Next, Caller, Settle

\* A new executor has no plan and no pass.
LEMMA PlanInit == Init => PlanInv
BY DEF Init, PlanInv, PlanValid, GroupsValid, Pass, PanicCause, Settling

\* A plan that lists components in a Kahn order is current.
LEMMA ValidIsCurrent == TypeOK /\ PlanValid => PlanCurrent
<1> SUFFICES ASSUME TypeOK, levelized_plan \in compute_scc_plan(tasks, Registered)
             PROVE  LET pos(t) == {i \in 1..Len(levelized_plan) : t \in levelized_plan[i]}
                    IN  /\ \A t \in Spawned : Cardinality(pos(t)) = 1
                        /\ \A e \in comb_dependency_graph(tasks, Registered) :
                              \A i \in pos(e[1]), j \in pos(e[2]) : i <= j
  BY DEF PlanCurrent, PlanValid
<1> DEFINE p == levelized_plan
           comps == Components(Spawned, Edges)
           pos(t) == {i \in 1..Len(p) : t \in p[i]}
<1>1. n \in Nat /\ IsFiniteSet(Spawned) /\ Edges \in SUBSET (Spawned \X Spawned)
  BY ExecutorAssumption, SpawnedFinite DEF TypeOK, TableTypeOK, Edges, comb_dependency_graph, tasks
<1>2. /\ p \in Seq(SUBSET Spawned)
      /\ Len(p) = Cardinality(comps) /\ p \in kahn_order(comps, Edges)
      /\ \A i \in 1..Len(p) : p[i] \in comps
      /\ \A t \in Spawned : \E i \in 1..Len(p) : t \in p[i]
  BY <1>1, PlanCovers
<1>3. IsFiniteSet(comps)
  BY <1>1, ComponentsFinite
<1>4. \A c, d \in comps : c \cap d # {} => c = d
  BY <1>1, ComponentsPartition
<1> HIDE DEF p, comps
<1>5. \A i, j \in 1..Len(p) : p[i] = p[j] => i = j
  BY <1>2, <1>3, KahnOrderComplete
<1>6. \A t \in Spawned : Cardinality(pos(t)) = 1
  <2> SUFFICES ASSUME NEW t \in Spawned PROVE Cardinality(pos(t)) = 1
    OBVIOUS
  <2>1. PICK i \in 1..Len(p) : t \in p[i]
    BY <1>2
  <2>2. \A j \in pos(t) : j = i
    BY <1>2, <1>4, <1>5, <2>1
  <2>3. pos(t) = {i}
    BY <2>1, <2>2
  <2> QED
    BY <2>3, FS_Singleton
<1>7. ASSUME NEW e \in Edges, NEW i \in pos(e[1]), NEW j \in pos(e[2])
      PROVE  i <= j
  <2>1. e = <<e[1], e[2]>> /\ i \in 1..Cardinality(comps) /\ j \in 1..Cardinality(comps)
        /\ e[1] \in p[i] /\ e[2] \in p[j]
    BY <1>1, <1>2
  <2> QED
    BY <1>2, <1>3, <2>1, KahnOrderSorted
<1> QED
  BY <1>6, <1>7 DEF Edges, p

\* The plan a levelized settle walks is never stale, whenever tasks are spawned and the
\* scheduler is switched: every task once, producers first (ensure_graph).
THEOREM PlanStaysCurrent == Spec => []PlanCurrent
<1>1. PlanInv => PlanValid
  BY DEF PlanInv
<1> QED
  BY <1>1, TypeCorrect, PlanInit, PlanStep, ValidIsCurrent, PTL DEF Spec

\* The levelized scheduler reports a combinational loop only if there is one: it never
\* polls the members of an acyclic graph twice (poll_tasks_levelized, iterate_scc).
THEOREM LevelizedPanicOnlyOnCycle == Spec => [](scheduler = "Levelized" => PanicOnlyOnCycle)
<1>1. PlanInv => (scheduler = "Levelized" => PanicOnlyOnCycle)
  BY DEF PlanInv, PanicCause, PanicOnlyOnCycle
<1> QED
  BY <1>1, TypeCorrect, PlanInit, PlanStep, PTL DEF Spec

-----------------------------------------------------------------------------
\* Who is still to be polled, from one step of a settle to the next.
LEMMA TodoRunning ==
    ASSUME TypeOK, Pass, running # 0
    PROVE  Todo(running) /\ groups # << >> /\ running \in Head(groups)
<1>1. order # << >> /\ running = Head(order)
  BY DEF Pass
<1>2. order[1] = running /\ 1 \in 1..Len(order)
  BY <1>1 DEF TypeOK, PassTypeOK
<1> QED
  BY <1>1, <1>2, PassFacts DEF Todo

\* A suspension takes only the task that ran off the list of those to be polled.
LEMMA TodoSuspend ==
    ASSUME TypeOK, Pass, running # 0, order' = Tail(order), groups' = groups,
           NEW t, Todo(t), t # running
    PROVE  Todo(t)'
<1>1. order # << >> /\ running = Head(order) /\ Head(order) = order[1]
  BY DEF Pass, TypeOK, PassTypeOK
<1>2. ASSUME NEW k \in 1..Len(order), order[k] = t
      PROVE  \E j \in 1..Len(Tail(order)) : Tail(order)[j] = t
  <2>1. k # 1
    BY <1>1, <1>2
  <2>2. k - 1 \in 1..Len(Tail(order)) /\ (k - 1) + 1 = k
    BY <1>1, <2>1, PassFacts
  <2> QED
    BY <1>1, <1>2, <2>2, PassFacts
<1> QED
  BY <1>2 DEF Todo

\* The next pass forgets nobody of the groups it starts from.
LEMMA TodoNextPass ==
    ASSUME TypeOK, PassDone, NEW gs, gs \in {groups, Tail(groups)}, NEW d, BeginPass(gs, d), NEW t,
           Todo(t) \/ (gs = groups /\ t \in Head(groups))
    PROVE  Todo(t)'
<1>1. n \in Nat /\ groups # << >> /\ order = << >>
  BY ExecutorAssumption DEF PassDone, TypeOK, TableTypeOK
<1>2. gs \in Seq(SUBSET Spawned)
  BY <1>1, LaterGroups DEF TypeOK, PassTypeOK
<1>3. Todo(t) => \E i \in 2..Len(groups) : t \in groups[i]
  BY <1>1 DEF Todo
<1>4. groups \in Seq(SUBSET Spawned)
  BY DEF TypeOK, PassTypeOK
<1>5. \E i \in 1..Len(gs) : t \in gs[i]
  <2>1. CASE gs = groups
    <3>1. \A i \in 2..Len(groups) : i \in 1..Len(groups)
      BY <1>4
    <3> QED
      BY <1>1, <1>3, <2>1, <3>1, LaterGroups
  <2>2. CASE gs = Tail(groups) /\ Todo(t)
    BY <1>1, <1>3, <2>2, LaterGroups
  <2> QED
    BY <2>1, <2>2
<1> QED
  BY <1>1, <1>2, <1>5, BeginPassCovers

-----------------------------------------------------------------------------
\* No wire ever gets a second driver.
LEMMA OneDriverStep == TypeOK /\ OneDriver /\ [Next]_vars => OneDriver'
<1> SUFFICES ASSUME TypeOK, OneDriver, [Next]_vars PROVE OneDriver'
  OBVIOUS
<1>1. ASSUME n' = n, body' = body
      PROVE  OneDriver'
  BY <1>1, SameTable DEF OneDriver
<1>2. ASSUME NEW b \in Body, spawn_wired(b)
      PROVE  OneDriver'
  <2>1. /\ n \in Nat /\ n + 1 \in Task /\ n + 1 \notin Spawned /\ Spawned \subseteq Task
        /\ Spawned' = Spawned \cup {n + 1} /\ body' = [body EXCEPT ![n + 1] = b]
        /\ \A t \in Spawned : Writes(body[t]) \cap Writes(b) = {}
    BY <1>2, ExecutorAssumption DEF spawn_wired, TypeOK, TableTypeOK, Spawned, Task
  <2>2. (\A t \in Spawned : body'[t] = body[t]) /\ body'[n + 1] = b
    BY <2>1 DEF TypeOK, TableTypeOK
  <2> QED
    BY <2>1, <2>2 DEF OneDriver
<1>3. CASE UNCHANGED <<n, body>>
  BY <1>1, <1>3
<1>4. [Next]_vars => (\E b \in Body : spawn_wired(b)) \/ UNCHANGED <<n, body>>
  <2>1. CASE Caller
    BY <2>1 DEF Caller, Drive, set_scheduler_mode, pre_edge_settle, advance, BarePoll, tableVars
  <2>2. CASE Settle
    BY <2>2 DEF Settle, post_edge_settle, Poll, ReadPort, WritePort, Compute, Resume, Suspend,
                GroupSettled, Iterate, Panic, Return, tableVars
  <2>3. CASE UNCHANGED vars
    BY <2>3 DEF vars, tableVars
  <2> QED
    BY <2>1, <2>2, <2>3 DEF Next
<1> QED
  BY <1>2, <1>3, <1>4

\* Only a task's own writes make it dirty again.
LEMMA WriteDirties ==
    ASSUME TypeOK, OneDriver, WritePort, NEW t \in Spawned, t # running, Clean(t)
    PROVE  Clean(t)'
<1> DEFINE r == running
           w == Instr(running).wire
<1>1. r # 0 /\ Instr(r).op = "write" /\ Write(w, acc[r]) /\ body' = body
  BY DEF WritePort, At, tableVars
<1>2. r \in Spawned /\ body[r] \in Body /\ body[t] \in Body /\ w \in Wire
  BY <1>1, InstrType DEF TypeOK, TableTypeOK
<1>3. w \in Writes(body[r])
  <2>1. pc[r] \in 1..Len(body[r].code) /\ Instr(r) = body[r].code[pc[r]]
    BY <1>2 DEF TypeOK, FutureTypeOK, Instr
  <2> QED
    BY <1>1, <2>1 DEF Writes, WiresOf
<1>4. w \notin Handles(body[t])
  BY <1>2, <1>3, OwnershipAssumption DEF OneDriver
<1> HIDE DEF r, w
<1>5. \A u \in Handles(body[t]) : u # w /\ u \in Wire
  <2>1. Writes(body[t]) \subseteq Wire
    BY <1>2, BodyAssumption DEF Writes, WiresOf
  <2> QED
    BY <1>2, <1>4, <2>1, OwnershipAssumption
<1>6. \A u \in Wire : u # w => dirty'[u] = dirty[u]
  BY <1>1, <1>2 DEF Write, out_write, regout_write, TypeOK, PortsTypeOK
<1> QED
  BY <1>1, <1>5, <1>6 DEF Clean

\* What a suspended task leaves dirty makes the executor run another pass.
LEMMA SuspendConsumes ==
    ASSUME TypeOK, Pass, Suspend
    PROVE  /\ \A t \in Spawned : Clean(t) => Clean(t)'
           /\ \A t \in Spawned : t = running => Clean(t)' \/ (any_dirty' /\ ~Singleton)
           /\ any_dirty => any_dirty'
<1>1. /\ running # 0 /\ body' = body /\ take(Taken(running))
  BY DEF Suspend, tableVars
<1>2. running \in Spawned /\ running \in Task /\ body[running] \in Body
  BY <1>1, InstrType
<1>3. \A t \in Spawned : \A u \in Handles(body[t]) : u \in Wire
  <2>1. \A t \in Spawned : body[t] \in Body
    BY DEF TypeOK, TableTypeOK
  <2>2. \A b \in Body : b.dirties \in Seq(Wire)
    BY BodyAssumption
  <2>3. \A b \in Body : \A k \in 1..Len(b.dirties) : b.dirties[k] \in Wire
    BY <2>2, ElementOfSeq
  <2> QED
    BY <2>1, <2>3 DEF Handles
<1>4. \A u \in Wire : dirty'[u] = (dirty[u] /\ u \notin Taken(running))
  BY <1>1 DEF take
<1>5. \A t \in Spawned : Clean(t) => Clean(t)'
  BY <1>1, <1>3, <1>4 DEF Clean
<1>6. CASE Singleton
  <2>1. Taken(running) = Handles(body[running])
    BY <1>6 DEF Taken
  <2>2. \A t \in Spawned : t = running => Clean(t)'
    BY <1>1, <1>2, <1>3, <1>4, <2>1 DEF Clean
  <2>3. any_dirty' = any_dirty
    BY <1>6 DEF Suspend
  <2> QED
    BY <1>5, <2>2, <2>3
<1>7. CASE ~Singleton
  <2>1. any_dirty' = (any_dirty \/ DirtyHandles(running) # {})
    BY <1>7 DEF Suspend
  <2>2. DirtyHandles(running) = {} => Clean(running)
    BY DEF DirtyHandles, Clean, Handles
  <2>3. DirtyHandles(running) = {} => \A t \in Spawned : t = running => Clean(t)'
    BY <1>5, <2>2
  <2> QED
    BY <1>5, <1>7, <2>1, <2>3, Zenon
<1> QED
  BY <1>6, <1>7

\* Every step keeps a reason for what is dirty.
LEMMA DirtyStep == TypeOK /\ PlanInv /\ OneDriver /\ DirtyCause /\ [Next]_vars => DirtyCause'
<1> SUFFICES ASSUME TypeOK, PlanInv, OneDriver, DirtyCause, [Next]_vars PROVE DirtyCause'
  OBVIOUS
<1>0. Pass /\ PlanValid
  BY DEF PlanInv
<1>1. ASSUME stage' \notin Settling
      PROVE  DirtyCause'
  BY <1>1 DEF DirtyCause
<1>2. ASSUME UNCHANGED <<n, body, scheduler, stage, groups, order, any_dirty>>,
             \A t \in Spawned : Clean(t) => Clean(t)' \/ Todo(t)
      PROVE  DirtyCause'
  <2>1. Spawned' = Spawned
    BY <1>2, SameTable
  <2> QED
    BY <1>2, <2>1 DEF DirtyCause, Todo, Singleton
<1>3. CASE Caller \/ post_edge_settle
  <2>1. CASE (\E d \in Domain : pre_edge_settle(d)) \/ BarePoll \/ post_edge_settle
    <3>1. poll_tasks /\ n' = n /\ body' = body /\ stage # "panic"
      BY <2>1 DEF pre_edge_settle, BarePoll, post_edge_settle
    <3>2. Spawned' = Spawned
      BY <3>1, SameTable
    <3>3. \A t \in Spawned : Todo(t)'
      BY <1>0, <3>1, PollTasksCovers
    <3> QED
      BY <3>2, <3>3 DEF DirtyCause
  <2>2. CASE (\E b \in Body : spawn_wired(b)) \/ (\E w \in External, v \in Value : Drive(w, v))
             \/ (\E m \in Modes, o \in PollOrders : set_scheduler_mode(m, o))
             \/ (\E d \in Domain : advance(d))
    <3>1. stage' = "idle"
      BY <2>2 DEF spawn_wired, Drive, set_scheduler_mode, advance
    <3> QED
      BY <1>1, <3>1 DEF Settling
  <2> QED
    BY <1>3, <2>1, <2>2 DEF Caller
<1>4. CASE Panic \/ Return
  <2>1. stage' \in {"panic", "edge", "idle"}
    BY <1>4 DEF Panic, Return
  <2> QED
    BY <1>1, <2>1 DEF Settling
<1>5. CASE Poll \/ ReadPort \/ Compute \/ Resume \/ UNCHANGED vars
  <2>1. UNCHANGED <<n, body, scheduler, stage, groups, order, any_dirty, dirty>>
    BY <1>5 DEF Poll, ReadPort, Compute, Resume, vars, tableVars, passVars, portVars
  <2>2. \A t \in Spawned : Clean(t) => Clean(t)'
    BY <2>1 DEF Clean
  <2> QED
    BY <1>2, <2>1, <2>2
<1>6. CASE WritePort
  <2>1. /\ UNCHANGED <<n, body, scheduler, stage, groups, order, any_dirty>> /\ running # 0
    BY <1>6 DEF WritePort, At, tableVars, passVars
  <2>2. \A t \in Spawned : Clean(t) => Clean(t)' \/ Todo(t)
    BY <1>0, <1>6, <2>1, WriteDirties, TodoRunning
  <2> QED
    BY <1>2, <2>1, <2>2
<1>7. CASE Suspend
  <2>1. /\ UNCHANGED <<n, body, scheduler, stage, groups>> /\ running # 0 /\ order' = Tail(order)
    BY <1>7 DEF Suspend, tableVars
  <2>2. Spawned' = Spawned /\ (Singleton' <=> Singleton)
    BY <2>1, SameTable DEF Singleton
  <2>3. groups # << >> /\ running \in Head(groups)
    BY <1>0, <2>1, TodoRunning
  <2>4. /\ \A t \in Spawned : Clean(t) => Clean(t)'
        /\ \A u \in Spawned : u = running => Clean(u)' \/ (any_dirty' /\ ~Singleton)
        /\ any_dirty => any_dirty'
    BY <1>0, <1>7, SuspendConsumes
  <2> SUFFICES ASSUME stage \in Settling, NEW t \in Spawned
               PROVE  \/ Clean(t)' \/ Todo(t)'
                      \/ any_dirty' /\ groups # << >> /\ ~Singleton /\ t \in Head(groups)
    BY <2>1, <2>2, Zenon DEF DirtyCause
  <2>5. CASE t = running
    BY <2>3, <2>4, <2>5, Zenon
  <2>6. CASE t # running
    <3>1. Todo(t) => Todo(t)'
      BY <1>0, <2>1, <2>6, TodoSuspend
    <3> QED
      BY <2>4, <3>1, Zenon DEF DirtyCause
  <2> QED
    BY <2>5, <2>6
<1>8. CASE GroupSettled \/ Iterate
  <2> DEFINE gs == IF GroupSettled THEN Tail(groups) ELSE groups
  <2>1. /\ PassDone /\ UNCHANGED <<n, body, dirty>>
        /\ \E d : BeginPass(gs, d)
        /\ GroupSettled => Singleton \/ ~any_dirty
    BY <1>8 DEF GroupSettled, Iterate, tableVars, portVars
  <2>2. Spawned' = Spawned /\ \A t \in Spawned : Clean(t) => Clean(t)'
    BY <2>1, SameTable DEF Clean
  <2>3. ASSUME NEW t, Todo(t) \/ (~GroupSettled /\ t \in Head(groups))
        PROVE  Todo(t)'
    <3>1. gs \in {groups, Tail(groups)} /\ (~GroupSettled => gs = groups)
      OBVIOUS
    <3> HIDE DEF gs
    <3> QED
      BY <2>1, <2>3, <3>1, TodoNextPass
  <2>4. ASSUME NEW t \in Spawned
        PROVE  Clean(t) \/ Todo(t) \/ (~GroupSettled /\ t \in Head(groups))
    BY <2>1, Zenon DEF DirtyCause, PassDone
  <2> QED
    BY <2>2, <2>3, <2>4 DEF DirtyCause
<1> QED
  BY <1>3, <1>4, <1>5, <1>6, <1>7, <1>8 DEF Next, Settle

\* A settle never ends on an unconsumed change, under either scheduler: the flags that
\* any(|h| h.take()) leaves behind are seen by the next pass.
THEOREM SettleConsumesChanges == Spec => []NoDirtyLeft
<1>1. Init => OneDriver /\ DirtyCause
  BY DEF Init, OneDriver, Spawned, DirtyCause, Settling
<1>2. Pass /\ DirtyCause => NoDirtyLeft
  <2> SUFFICES ASSUME Pass, DirtyCause, SettleDone, NEW t \in Spawned PROVE Clean(t)
    BY DEF NoDirtyLeft, Clean
  <2>1. groups = << >> /\ order = << >> /\ stage \in Settling
    BY DEF SettleDone, Pass
  <2>2. ~Todo(t)
    BY <2>1 DEF Todo
  <2> QED
    BY <2>1, <2>2, Zenon DEF DirtyCause
<1>3. PlanInv => Pass
  BY DEF PlanInv
<1> QED
  BY <1>1, <1>2, <1>3, TypeCorrect, PlanInit, PlanStep, OneDriverStep, DirtyStep, PTL DEF Spec
=============================================================================
