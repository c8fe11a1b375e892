------------------------- MODULE ExecutorReadsProofs -------------------------
(***************************************************************************)
(* Every settle ends with every task having acted on the final values: one *)
(* poll per task in plan order suffices, and the iteration of a            *)
(* combinational cycle, or of all tasks, does not stop too early.          *)
(***************************************************************************)
EXTENDS ExecutorClockProofs

(***************************************************************************)
(* The inductive invariants.                                               *)
(***************************************************************************)

\* What t read from w in this settle is no longer the value of w.
Stale(t, w) == seen[t][w] \notin {None, cell[w]}

\* t will read w before the end of this pass.
WillRead(t, w) ==
    /\ \E k \in 1..Len(order) : order[k] = t
    /\ \/ yielded[t]
       \/ \E k \in pc[t]..Len(body[t].code) :
             body[t].code[k].op = "read" /\ body[t].code[k].wire = w

\* The task being polled has made a change that it has not been asked about yet.
Changing == running # 0 /\ DirtyHandles(running) # {}

\* Tasks read what their code reads.
SeenByReaders ==
    \A t \in Task, w \in Wire : seen[t][w] # None => t \in Spawned /\ w \in Reads(body[t])

\* A combinational module rests at its delta_yield, or has never run.
CombRest ==
    /\ \A t \in Task : t > n => ~yielded[t]
    /\ \A t \in Spawned : ~IsSeq(body[t]) =>
          /\ yielded[t] => pc[t] = Len(body[t].code)
          /\ t # running => yielded[t] \/ pc[t] = 1

\* The groups still to settle are disjoint, and hold every consumer of what they hold.
GroupOrder ==
    stage \in Settling =>
        /\ scheduler = "Levelized" =>
              /\ \A i, j \in 1..Len(groups) : i # j => groups[i] \cap groups[j] = {}
              /\ \A e \in Edges : \A i \in 1..Len(groups) :
                    e[1] \in groups[i] => \E j \in i..Len(groups) : e[2] \in groups[j]
        /\ scheduler = "Fixpoint" => groups \in {<< >>, <<Spawned>>}

\* Tasks of later groups have not run in this settle.
NotYet ==
    stage \in Settling =>
        \A i \in 2..Len(groups) : \A t \in Spawned, w \in Wire :
            t \in groups[i] => seen[t][w] = None

\* The current group is settled again if t read a value that has changed since.
Again(t, w) ==
    /\ groups # << >> /\ ~Singleton /\ t \in Head(groups) /\ ~IsSeq(body[t])
    /\ any_dirty \/ Changing \/ WillRead(t, w)

StaleCause ==
    stage \in Settling /\ WellFormed =>
        \A t \in Spawned, w \in Wire :
            (scheduler = "Levelized" \/ ~IsSeq(body[t])) /\ Stale(t, w) => Again(t, w)

-----------------------------------------------------------------------------
\* The wires a body reads, instruction by instruction.
LEMMA ReadsDef ==
    ASSUME NEW b, NEW w
    PROVE  w \in Reads(b) <=>
              \E k \in 1..Len(b.code) : b.code[k].op = "read" /\ b.code[k].wire = w
BY DEF Reads, WiresOf

\* The shape of a combinational module: its only await is the last instruction.
LEMMA CombCode ==
    ASSUME TypeOK, NEW t \in Spawned, ~IsSeq(body[t])
    PROVE  /\ pc[t] \in 1..Len(body[t].code) /\ Len(body[t].code) \in Nat \ {0}
           /\ Instr(t).op \in Await <=> pc[t] = Len(body[t].code)
           /\ pc[t] = Len(body[t].code) => Instr(t).op = "yield" /\ NextPc(t) = 1
           /\ pc[t] # Len(body[t].code) => NextPc(t) = pc[t] + 1
<1> DEFINE k == Len(body[t].code)
           p == pc[t]
<1>1. body[t] \in Body /\ p \in 1..k /\ k \in Nat \ {0}
  BY BodyAssumption DEF TypeOK, TableTypeOK, FutureTypeOK
<1>2. Instr(t) = body[t].code[p] /\ NextPc(t) = (p % k) + 1
  BY DEF Instr, NextPc
<1>3. body[t].code[k].op = "yield" /\ \A i \in 1..(k - 1) : body[t].code[i].op \notin Await
  BY <1>1, CombinationalAssumption
<1> HIDE DEF k, p
<1>4. CASE p = k
  <2>1. p % k = 0
    BY <1>1, <1>4
  <2>2. Instr(t).op = "yield" /\ NextPc(t) = 1
    BY <1>1, <1>2, <1>3, <1>4, <2>1
  <2> QED
    BY <1>1, <1>4, <2>2 DEF k, p, Await
<1>5. CASE p # k
  <2>1. p % k = p /\ p \in 1..(k - 1)
    BY <1>1, <1>5
  <2> QED
    BY <1>1, <1>2, <1>3, <1>5, <2>1 DEF k, p
<1> QED
  BY <1>4, <1>5

\* What changes the record of what was read.
LEMMA SeenChanges ==
    ASSUME [Next]_vars
    PROVE  \/ poll_tasks /\ n' = n /\ body' = body
           \/ ReadPort
           \/ UNCHANGED seen
<1>1. CASE Caller
  BY <1>1 DEF Caller, spawn_wired, Drive, set_scheduler_mode, pre_edge_settle, advance, BarePoll, histVars
<1>2. CASE Settle
  BY <1>2 DEF Settle, post_edge_settle, Poll, WritePort, Compute, Resume, Suspend,
              GroupSettled, Iterate, Panic, Return, histVars
<1>3. CASE UNCHANGED vars
  BY <1>3 DEF vars, histVars
<1> QED
  BY <1>1, <1>2, <1>3 DEF Next

\* A read is recorded for the task being polled, with the value it got.
LEMMA ReadSeen ==
    ASSUME TypeOK, ReadPort
    PROVE  /\ running # 0 /\ running \in Spawned
           /\ Instr(running).wire \in Wire /\ Instr(running).wire \in Reads(body[running])
           /\ \A t \in Task, w \in Wire :
                 seen'[t][w] = IF t = running /\ w = Instr(running).wire THEN cell[w] ELSE seen[t][w]
<1> DEFINE u == Instr(running).wire
<1>1. /\ running # 0 /\ Instr(running).op = "read" /\ seen' = [seen EXCEPT ![running][u] = cell[u]]
  BY DEF ReadPort, At
<1>2. running \in Spawned /\ running \in Task /\ u \in Wire
  BY <1>1, InstrType
<1>3. u \in Reads(body[running])
  BY <1>1, <1>2, ReadsDef DEF TypeOK, FutureTypeOK, Instr
<1> HIDE DEF u
<1> QED
  BY <1>1, <1>2, <1>3 DEF u, TypeOK, HistTypeOK

\* Tasks are only ever recorded to read what their code reads.
LEMMA SeenStep ==
    ASSUME TypeOK, SeenByReaders, [Next]_vars
    PROVE  SeenByReaders'
<1>0. n \in Nat /\ Spawned \subseteq Task
  BY ExecutorAssumption DEF TypeOK, TableTypeOK, Spawned, Task
<1>1. CASE poll_tasks
  BY <1>1 DEF poll_tasks, SeenByReaders
<1>2. ASSUME n' = n, body' = body, seen' = seen
      PROVE  SeenByReaders'
  BY <1>2, SameTable DEF SeenByReaders
<1>3. CASE ReadPort
  <2>1. n' = n /\ body' = body
    BY <1>3 DEF ReadPort, tableVars
  <2> QED
    BY <1>3, <2>1, SameTable, ReadSeen DEF SeenByReaders
<1>4. ASSUME NEW b \in Body, spawn_wired(b)
      PROVE  SeenByReaders'
  <2>1. n' = n + 1 /\ body' = [body EXCEPT ![n + 1] = b] /\ seen' = seen
    BY <1>4 DEF spawn_wired, histVars
  <2>2. \A t \in Spawned : t \in Spawned' /\ body'[t] = body[t]
    BY <1>0, <2>1 DEF TypeOK, TableTypeOK, Spawned
  <2> QED
    BY <2>1, <2>2 DEF SeenByReaders
<1>5. CASE ~(\E b \in Body : spawn_wired(b)) /\ UNCHANGED seen
  <2>1. n' = n /\ body' = body
    BY <1>5, StepKinds DEF ReadPort, WritePort, Compute, Resume, Suspend, tableVars
  <2> QED
    BY <1>2, <1>5, <2>1
<1> QED
  BY <1>1, <1>3, <1>4, <1>5, SeenChanges

\* Combinational modules rest where their polls end.
LEMMA CombRestStep ==
    ASSUME TypeOK, Fresh, MidRun, CombRest, [Next]_vars
    PROVE  CombRest'
<1>0. /\ n \in Nat /\ Spawned \subseteq Task /\ 0 \notin Spawned
      /\ pc \in [Task -> Nat \ {0}] /\ yielded \in [Task -> BOOLEAN]
      /\ \A t \in Task : t \notin Spawned => t > n
  BY ExecutorAssumption DEF TypeOK, TableTypeOK, FutureTypeOK, Spawned, Task
<1>1. ASSUME UNCHANGED <<n, body, pc, yielded>>, running' = running \/ running = 0
      PROVE  CombRest'
  BY <1>0, <1>1, SameTable DEF CombRest, IsSeq
<1>2. CASE \E b \in Body : spawn_wired(b)
  <2>1. PICK b \in Body : spawn_wired(b)
    BY <1>2
  <2>2. /\ n + 1 \in Task /\ n' = n + 1 /\ Spawned' = Spawned \cup {n + 1}
        /\ body' = [body EXCEPT ![n + 1] = b]
        /\ pc' = pc /\ yielded' = yielded /\ running' = running
    BY <1>0, <2>1, ExecutorAssumption DEF spawn_wired, futVars, TypeOK, TableTypeOK, Spawned, Task
  <2>3. n + 1 \notin Spawned /\ \A t \in Spawned : body'[t] = body[t]
    BY <1>0, <2>2 DEF TypeOK, TableTypeOK, Spawned
  <2>4. pc[n + 1] = 1 /\ ~yielded[n + 1]
    BY <1>0, <2>2 DEF Fresh, CombRest
  <2>5. \A t \in Task : t > n' => t > n
    BY <1>0, <2>2 DEF Task
  <2> QED
    BY <1>0, <2>2, <2>3, <2>4, <2>5 DEF CombRest, IsSeq
<1>3. CASE (\E d \in Domain : pre_edge_settle(d) \/ advance(d)) \/ BarePoll \/ post_edge_settle
           \/ (\E w \in External, v \in Value : Drive(w, v))
           \/ (\E m \in Modes, o \in PollOrders : set_scheduler_mode(m, o))
  <2>1. UNCHANGED <<n, body, pc, yielded>> /\ stage \in {"idle", "edge"}
    BY <1>3 DEF pre_edge_settle, advance, BarePoll, post_edge_settle, Drive, set_scheduler_mode,
                tableVars, futVars
  <2>2. running = 0
    BY <2>1 DEF MidRun, Settling
  <2> QED
    BY <1>1, <2>1, <2>2
<1>4. CASE Poll \/ GroupSettled \/ Iterate \/ Panic \/ Return \/ UNCHANGED vars
  BY <1>1, <1>4 DEF Poll, GroupSettled, Iterate, Panic, Return, PassDone, SettleDone, vars,
                    tableVars, futVars
<1>5. CASE ReadPort \/ WritePort \/ Compute
  <2>1. /\ running # 0 /\ Instr(running).op \in {"read", "write", "let"}
        /\ UNCHANGED <<n, body, yielded, running>>
        /\ pc' = [pc EXCEPT ![running] = NextPc(running)]
    BY <1>5 DEF ReadPort, WritePort, Compute, At, tableVars
  <2>2. ~IsSeq(body[running]) => ~yielded[running]
    <3>1. ASSUME ~IsSeq(body[running])
          PROVE  pc[running] # Len(body[running].code)
      BY <2>1, <3>1, InstrType, CombCode DEF Await
    <3> QED
      BY <2>1, <3>1, InstrType DEF CombRest
  <2>3. \A t \in Spawned : t # running => pc'[t] = pc[t]
    BY <1>0, <2>1
  <2> QED
    BY <2>1, <2>2, <2>3, SameTable DEF CombRest, IsSeq
<1>6. CASE Resume
  <2>1. /\ running # 0 /\ UNCHANGED <<n, body, running>>
        /\ pc' = [pc EXCEPT ![running] = NextPc(running)]
        /\ yielded' = [yielded EXCEPT ![running] = FALSE]
    BY <1>6 DEF Resume, tableVars
  <2>2. running \in Spawned
    BY <2>1, InstrType
  <2>3. /\ ~yielded'[running]
        /\ \A t \in Task : t # running => pc'[t] = pc[t] /\ yielded'[t] = yielded[t]
    BY <1>0, <2>1, <2>2
  <2>4. \A t \in Task : ~yielded[t] => ~yielded'[t]
    BY <2>3
  <2> QED
    BY <1>0, <2>1, <2>3, <2>4, SameTable DEF CombRest, IsSeq
<1>7. CASE Suspend
  <2>1. /\ running # 0 /\ Instr(running).op \in Await /\ UNCHANGED <<n, body, pc>>
        /\ yielded' = [yielded EXCEPT ![running] = At("yield")]
    BY <1>7 DEF Suspend, tableVars
  <2>2. running \in Spawned /\ running <= n
    BY <1>0, <2>1, InstrType DEF Spawned
  <2>3. /\ yielded'[running] = At("yield")
        /\ \A t \in Task : t # running => yielded'[t] = yielded[t]
    BY <1>0, <2>1, <2>2
  <2>4. ~IsSeq(body[running]) => yielded'[running] /\ pc[running] = Len(body[running].code)
    BY <2>1, <2>2, <2>3, CombCode DEF At
  <2>5. \A t \in Task : t > n => t # running
    BY <1>0, <2>2 DEF Task
  <2> QED
    BY <1>0, <2>1, <2>3, <2>4, <2>5, SameTable DEF CombRest, IsSeq
<1> QED
  BY <1>2, <1>3, <1>4, <1>5, <1>6, <1>7 DEF Next, Caller, Settle

-----------------------------------------------------------------------------
\* A plan lists disjoint groups, and every consumer no earlier than its producer.
LEMMA PlanGroups ==
    ASSUME n \in Nat, NEW p \in compute_scc_plan(tasks, Registered)
    PROVE  /\ \A i, j \in 1..Len(p) : i # j => p[i] \cap p[j] = {}
           /\ \A e \in Edges : \A i \in 1..Len(p) :
                 e[1] \in p[i] => \E j \in i..Len(p) : e[2] \in p[j]
<1> DEFINE comps == Components(Spawned, Edges)
<1>1. IsFiniteSet(Spawned) /\ Edges \in SUBSET (Spawned \X Spawned)
  BY SpawnedFinite DEF Edges, comb_dependency_graph, tasks
<1>2. /\ p \in Seq(SUBSET Spawned)
      /\ Len(p) = Cardinality(comps) /\ p \in kahn_order(comps, Edges)
      /\ \A i \in 1..Len(p) : p[i] \in comps
      /\ \A t \in Spawned : \E i \in 1..Len(p) : t \in p[i]
  BY <1>1, PlanCovers
<1>3. IsFiniteSet(comps)
  BY <1>1, ComponentsFinite
<1>4. \A c, d \in comps : c \cap d # {} => c = d
  BY <1>1, ComponentsPartition
<1> HIDE DEF comps
<1>5. \A i, j \in 1..Len(p) : p[i] = p[j] => i = j
  BY <1>2, <1>3, KahnOrderComplete
<1>6. \A i, j \in 1..Len(p) : i # j => p[i] \cap p[j] = {}
  BY <1>2, <1>4, <1>5
<1>7. ASSUME NEW e \in Edges, NEW i \in 1..Len(p), e[1] \in p[i]
      PROVE  \E j \in i..Len(p) : e[2] \in p[j]
  <2>1. e = <<e[1], e[2]>> /\ e[2] \in Spawned
    BY <1>1
  <2>2. PICK j \in 1..Len(p) : e[2] \in p[j]
    BY <1>2, <2>1
  <2>3. i <= j
    BY <1>2, <1>3, <1>7, <2>1, <2>2, KahnOrderSorted
  <2> QED
    BY <2>2, <2>3
<1> QED
  BY <1>6, <1>7

\* What poll_tasks walks.
LEMMA PollTasksGroups ==
    ASSUME TypeOK, PlanValid, stage # "panic", poll_tasks
    PROVE  /\ scheduler = "Levelized" =>
                 groups' = levelized_plan' /\ levelized_plan' \in compute_scc_plan(tasks, Registered)
           /\ scheduler = "Fixpoint" => groups' = <<Spawned>>
           /\ \A t \in Task, w \in Wire : seen'[t][w] = None
<1>1. scheduler = "Levelized" =>
         groups' = levelized_plan' /\ levelized_plan' \in compute_scc_plan(tasks, Registered)
  BY DEF poll_tasks, ensure_graph, BeginPass, PlanValid
<1>2. scheduler = "Fixpoint" => groups' = <<Spawned>>
  BY DEF poll_tasks, BeginPass
<1>3. seen' = [t \in Task |-> [w \in Wire |-> None]]
  BY DEF poll_tasks
<1> QED
  BY <1>1, <1>2, <1>3

\* The steps that start a settle, end one, or go on to the next group.
LEMMA SettleSteps ==
    ASSUME [Next]_vars
    PROVE  \/ /\ poll_tasks /\ stage # "panic"
              /\ UNCHANGED <<n, body, scheduler>>
           \/ stage' \notin Settling
           \/ GroupSettled
           \/ UNCHANGED <<n, body, scheduler, stage, groups>>
<1>1. CASE (\E d \in Domain : pre_edge_settle(d)) \/ BarePoll \/ post_edge_settle
  BY <1>1 DEF pre_edge_settle, BarePoll, post_edge_settle
<1>2. CASE (\E b \in Body : spawn_wired(b)) \/ (\E w \in External, v \in Value : Drive(w, v))
           \/ (\E m \in Modes, o \in PollOrders : set_scheduler_mode(m, o))
           \/ (\E d \in Domain : advance(d)) \/ Panic \/ Return
  <2>1. stage' \in {"idle", "panic", "edge"}
    BY <1>2 DEF spawn_wired, Drive, set_scheduler_mode, advance, Panic, Return
  <2> QED
    BY <2>1 DEF Settling
<1>3. CASE Poll \/ ReadPort \/ WritePort \/ Compute \/ Resume \/ Suspend \/ Iterate \/ UNCHANGED vars
  BY <1>3 DEF Poll, ReadPort, WritePort, Compute, Resume, Suspend, Iterate, BeginPass, vars,
              tableVars, passVars
<1> QED
  BY <1>1, <1>2, <1>3 DEF Next, Caller, Settle

\* The groups keep their order.
LEMMA GroupOrderStep ==
    ASSUME TypeOK, PlanValid, GroupOrder, [Next]_vars
    PROVE  GroupOrder'
<1>0. n \in Nat
  BY ExecutorAssumption DEF TypeOK, TableTypeOK
<1>1. CASE stage' \notin Settling
  BY <1>1 DEF GroupOrder
<1>2. CASE UNCHANGED <<n, body, scheduler, stage, groups>>
  BY <1>2, SameTable DEF GroupOrder
<1>3. CASE poll_tasks /\ stage # "panic" /\ UNCHANGED <<n, body, scheduler>>
  <2>1. Spawned' = Spawned /\ Edges' = Edges /\ scheduler' = scheduler
    BY <1>3, SameTable
  <2>2. CASE scheduler = "Fixpoint"
    <3>1. groups' = <<Spawned>>
      BY <1>3, <2>2, PollTasksGroups
    <3> QED
      BY <2>1, <2>2, <3>1 DEF GroupOrder
  <2>3. CASE scheduler # "Fixpoint"
    <3>1. scheduler = "Levelized"
      BY <2>3, ExecutorAssumption DEF TypeOK, TableTypeOK
    <3>2. PICK p : p = groups'
      OBVIOUS
    <3>3. p \in compute_scc_plan(tasks, Registered)
      BY <1>3, <3>1, <3>2, PollTasksGroups
    <3>4. /\ \A i, j \in 1..Len(p) : i # j => p[i] \cap p[j] = {}
          /\ \A e \in Edges : \A i \in 1..Len(p) :
                e[1] \in p[i] => \E j \in i..Len(p) : e[2] \in p[j]
      BY <1>0, <3>3, PlanGroups
    <3> QED
      BY <2>1, <2>3, <3>2, <3>4 DEF GroupOrder
  <2> QED
    BY <2>2, <2>3
<1>4. CASE GroupSettled
  <2>1. /\ UNCHANGED <<n, body, scheduler, stage>> /\ groups' = Tail(groups) /\ groups # << >>
        /\ stage \in Settling
    BY <1>4 DEF GroupSettled, PassDone, BeginPass, tableVars
  <2>2. Spawned' = Spawned /\ Edges' = Edges
    BY <2>1, SameTable
  <2> DEFINE g == groups
             h == Tail(groups)
  <2>3. /\ g \in Seq(SUBSET Spawned) /\ h \in Seq(SUBSET Spawned) /\ Len(g) = Len(h) + 1
        /\ \A i \in 1..Len(h) : i + 1 \in 1..Len(g) /\ h[i] = g[i + 1]
    BY <2>1, LaterGroups DEF TypeOK, PassTypeOK
  <2>4. CASE scheduler = "Levelized"
    <3>1. /\ \A i, j \in 1..Len(g) : i # j => g[i] \cap g[j] = {}
          /\ \A e \in Edges : \A i \in 1..Len(g) :
                e[1] \in g[i] => \E j \in i..Len(g) : e[2] \in g[j]
      BY <2>1, <2>4 DEF GroupOrder
    <3> HIDE DEF g, h
    <3>2. ASSUME NEW i \in 1..Len(h), NEW j \in 1..Len(h), i # j
          PROVE  h[i] \cap h[j] = {}
      <4>1. i + 1 \in 1..Len(g) /\ j + 1 \in 1..Len(g) /\ i + 1 # j + 1
        BY <2>3, <3>2
      <4> QED
        BY <2>3, <3>1, <4>1
    <3>3. ASSUME NEW e \in Edges, NEW i \in 1..Len(h), e[1] \in h[i]
          PROVE  \E j \in i..Len(h) : e[2] \in h[j]
      <4>1. PICK j \in (i + 1)..Len(g) : e[2] \in g[j]
        BY <2>3, <3>1, <3>3
      <4>2. j - 1 \in i..Len(h) /\ j - 1 \in 1..Len(h) /\ (j - 1) + 1 = j
        BY <2>3
      <4> QED
        BY <2>3, <4>1, <4>2
    <3>4. /\ \A i, j \in 1..Len(groups') : i # j => groups'[i] \cap groups'[j] = {}
          /\ \A e \in Edges' : \A i \in 1..Len(groups') :
                e[1] \in groups'[i] => \E j \in i..Len(groups') : e[2] \in groups'[j]
      BY <2>1, <2>2, <3>2, <3>3 DEF h
    <3> QED
      BY <2>1, <2>4, <3>4 DEF GroupOrder
  <2>5. CASE scheduler = "Fixpoint"
    <3>1. groups = <<Spawned>>
      BY <2>1, <2>5 DEF GroupOrder
    <3>2. Tail(<<Spawned>>) = << >>
      OBVIOUS
    <3> QED
      BY <2>1, <2>5, <3>1, <3>2 DEF GroupOrder
  <2> QED
    BY <2>1, <2>4, <2>5, ExecutorAssumption DEF TypeOK, TableTypeOK
<1> QED
  BY <1>1, <1>2, <1>3, <1>4, SettleSteps

\* Later groups wait.
LEMMA NotYetStep ==
    ASSUME TypeOK, Pass, GroupOrder, NotYet, [Next]_vars
    PROVE  NotYet'
<1>0. Spawned \subseteq Task
  BY ExecutorAssumption DEF TypeOK, TableTypeOK, Spawned, Task
<1>1. CASE stage' \notin Settling
  BY <1>1 DEF NotYet
<1>2. CASE poll_tasks /\ UNCHANGED <<n, body>>
  <2>1. seen' = [t \in Task |-> [w \in Wire |-> None]] /\ Spawned' = Spawned
    BY <1>2, SameTable DEF poll_tasks
  <2> QED
    BY <1>0, <2>1 DEF NotYet
<1>3. CASE ReadPort
  <2>1. /\ UNCHANGED <<n, body, stage, groups, scheduler>> /\ Spawned' = Spawned
    BY <1>3, SameTable DEF ReadPort, tableVars, passVars
  <2>2. running # 0 /\ groups # << >> /\ running \in Head(groups)
    BY <1>3, ReadSeen, TodoRunning
  <2>3. /\ \A t \in Spawned, w \in Wire : t # running => seen'[t][w] = seen[t][w]
    BY <1>0, <1>3, ReadSeen
  <2>4. ASSUME stage \in Settling, NEW i \in 2..Len(groups)
        PROVE  running \notin groups[i]
    <3>1. Head(groups) = groups[1] /\ 1 \in 1..Len(groups) /\ i \in 1..Len(groups) /\ i # 1
      BY <2>2, <2>4, LaterGroups
    <3>2. scheduler # "Fixpoint"
      <4> SUFFICES ASSUME scheduler = "Fixpoint" PROVE FALSE
        OBVIOUS
      <4>1. groups = <<Spawned>>
        BY <2>2, <2>4 DEF GroupOrder
      <4> QED
        BY <3>1, <4>1
    <3>3. scheduler = "Levelized"
      BY <3>2, ExecutorAssumption DEF TypeOK, TableTypeOK
    <3> QED
      BY <2>2, <2>4, <3>1, <3>3 DEF GroupOrder
  <2> QED
    BY <2>1, <2>3, <2>4 DEF NotYet
<1>4. CASE UNCHANGED <<n, body, stage, groups, seen>>
  BY <1>4, SameTable DEF NotYet
<1>5. CASE GroupSettled /\ UNCHANGED seen
  <2>1. /\ UNCHANGED <<n, body, stage>> /\ groups' = Tail(groups) /\ groups # << >>
        /\ Spawned' = Spawned
    BY <1>5, SameTable DEF GroupSettled, PassDone, BeginPass, tableVars
  <2>2. ASSUME NEW i \in 2..Len(Tail(groups))
        PROVE  i + 1 \in 2..Len(groups) /\ Tail(groups)[i] = groups[i + 1]
    <3>1. groups \in Seq(SUBSET Spawned)
      BY DEF TypeOK, PassTypeOK
    <3>2. i \in 1..Len(Tail(groups)) /\ Len(Tail(groups)) \in Nat /\ Len(groups) \in Nat
      BY <2>1, <3>1
    <3>3. i + 1 \in 1..Len(groups) /\ Tail(groups)[i] = groups[i + 1]
      BY <2>1, <3>2, LaterGroups
    <3> QED
      BY <3>2, <3>3
  <2> QED
    BY <1>5, <2>1, <2>2 DEF NotYet
<1>6. (poll_tasks /\ UNCHANGED <<n, body>>) \/ ReadPort \/ UNCHANGED seen
  BY SeenChanges
<1>7. \/ stage' \notin Settling \/ GroupSettled \/ UNCHANGED <<n, body, stage, groups>>
      \/ (poll_tasks /\ UNCHANGED <<n, body>>)
  BY SettleSteps
<1> QED
  BY <1>1, <1>2, <1>3, <1>4, <1>5, <1>6, <1>7

-----------------------------------------------------------------------------
(***************************************************************************)
(* Stale reads, step by step.                                              *)
(***************************************************************************)

\* An instruction that does not read w brings the read of w closer.
LEMMA WillReadOn ==
    ASSUME TypeOK, running # 0, ~IsSeq(body[running]), NEW w,
           Instr(running).op \notin Await, ~(Instr(running).op = "read" /\ Instr(running).wire = w),
           pc' = [pc EXCEPT ![running] = NextPc(running)],
           UNCHANGED <<yielded, body, order>>,
           WillRead(running, w)
    PROVE  \A t : t = running => WillRead(t, w)'
<1> DEFINE r == running
           code == body[r].code
<1>1. r \in Spawned /\ r \in Task
  BY InstrType
<1>2. pc[r] \in 1..Len(code) /\ Len(code) \in Nat /\ NextPc(r) = pc[r] + 1 /\ Instr(r) = code[pc[r]]
  BY <1>1, CombCode DEF Instr
<1>3. pc'[r] = pc[r] + 1
  BY <1>1, <1>2 DEF TypeOK, FutureTypeOK
<1>4. ASSUME NEW k \in pc[r]..Len(code), code[k].op = "read" /\ code[k].wire = w
      PROVE  k \in (pc[r] + 1)..Len(code)
  <2>1. k # pc[r]
    BY <1>2, <1>4
  <2> QED
    BY <1>2, <2>1
<1> QED
  BY <1>3, <1>4 DEF WillRead

\* The futures of the other tasks wait.
LEMMA WillReadOther ==
    ASSUME NEW t, NEW w, pc'[t] = pc[t], yielded'[t] = yielded[t], body' = body,
           (\E k \in 1..Len(order) : order[k] = t) => (\E k \in 1..Len(order') : order'[k] = t),
           WillRead(t, w)
    PROVE  WillRead(t, w)'
BY DEF WillRead

\* Several tasks in a group of the levelized scheduler form a combinational cycle.
LEMMA GroupOfMany ==
    ASSUME TypeOK, GroupsValid, WellFormed, scheduler = "Levelized", stage \in Settling,
           groups # << >>, NEW t \in Head(groups), NEW u \in Head(groups), t # u
    PROVE  ~Singleton /\ ~IsSeq(body[t])
<1> DEFINE c == Head(groups)
<1>1. c \in Components(Spawned, Edges) /\ c \in SUBSET Spawned
  BY LaterGroups DEF GroupsValid
<1>2. n \in Nat /\ DOMAIN tasks = Spawned
  BY ExecutorAssumption DEF TypeOK, TableTypeOK, tasks
<1>3. IsFiniteSet(c) /\ Cardinality(c) \in Nat
  BY <1>1, <1>2, SpawnedFinite
<1> HIDE DEF c
<1>4. t \in c /\ u \in c
  BY DEF c
<1>5. Cardinality(c) > 1
  <2>1. c \ {t} # {} /\ IsFiniteSet(c \ {t}) /\ Cardinality(c \ {t}) = Cardinality(c) - 1
    BY <1>3, <1>4, FS_RemoveElement
  <2>2. Cardinality(c \ {t}) \in Nat /\ Cardinality(c \ {t}) # 0
    BY <2>1, FS_CardinalityType, FS_EmptySet
  <2> QED
    BY <1>3, <2>1, <2>2
<1>6. c \in comb_cycles(tasks, Registered)
  BY <1>1, <1>2, <1>5 DEF comb_cycles, Edges
<1>7. ~IsSeq(body[t])
  BY <1>4, <1>6 DEF WellFormed
<1>8. Cardinality(c) # 1
  BY <1>3, <1>5
<1> QED
  BY <1>7, <1>8 DEF Singleton, c

\* Whoever has read a wire that the task being polled now changes is polled again.
LEMMA ReaderInGroup ==
    ASSUME TypeOK, PlanInv, OneDriver, GroupOrder, NotYet, SeenByReaders, WellFormed,
           stage \in Settling, running # 0, NEW u \in Writes(body[running]) \ Registered,
           NEW t \in Spawned, seen[t][u] # None, scheduler = "Levelized" \/ ~IsSeq(body[t])
    PROVE  groups # << >> /\ ~Singleton /\ t \in Head(groups) /\ ~IsSeq(body[t])
<1> DEFINE r == running
<1>0. Pass /\ GroupsValid
  BY DEF PlanInv
<1>1. r \in Spawned /\ groups # << >> /\ r \in Head(groups)
  BY <1>0, InstrType, TodoRunning
<1>2. /\ body[r] \in Body /\ body[t] \in Body /\ Writes(body[r]) \subseteq Wire
      /\ Spawned \subseteq Task /\ Spawned \subseteq Nat
  BY <1>1, BodyAssumption, ExecutorAssumption
     DEF TypeOK, TableTypeOK, Writes, WiresOf, Spawned, Task
<1>3. u \in Reads(body[t])
  BY <1>2 DEF SeenByReaders
<1>4. t # r
  BY <1>2, <1>3, SelfReadAssumption
<1>5. CASE scheduler = "Fixpoint"
  <2>1. groups = <<Spawned>>
    BY <1>1, <1>5 DEF GroupOrder
  <2> QED
    BY <1>1, <1>5, <2>1 DEF Singleton
<1>6. CASE scheduler = "Levelized"
  <2>1. Handles(body[r]) = Writes(body[r]) /\ body[t].reads = Reads(body[t])
    BY <1>1 DEF WellFormed, Honest
  <2>2. \A q \in Spawned : u \in Handles(body[q]) => q = r
    BY <1>1, OwnershipAssumption DEF OneDriver, TypeOK, TableTypeOK
  <2>3. \A q \in DOMAIN tasks : tasks[q] = body[q] /\ q \in Spawned
    BY DEF tasks
  <2>4. r \in comb_producer(tasks, Registered, u) /\ \A q \in comb_producer(tasks, Registered, u) : q <= r
    BY <1>1, <1>2, <2>1, <2>2, <2>3 DEF comb_producer, tasks
  <2>5. <<r, t>> \in Edges
    BY <1>1, <1>3, <1>4, <2>1, <2>4 DEF Edges, comb_dependency_graph, tasks
  <2>6. Head(groups) = groups[1] /\ 1 \in 1..Len(groups)
    BY <1>1, LaterGroups
  <2>7. PICK j \in 1..Len(groups) : t \in groups[j]
    BY <1>1, <1>6, <2>5, <2>6 DEF GroupOrder
  <2>8. j = 1
    <3>1. j \in 2..Len(groups) => seen[t][u] = None
      BY <1>2, <2>7 DEF NotYet
    <3> QED
      BY <3>1
  <2>9. t \in Head(groups)
    BY <2>6, <2>7, <2>8
  <2> QED
    BY <1>0, <1>1, <1>4, <1>6, <2>9, GroupOfMany
<1> QED
  BY <1>5, <1>6, ExecutorAssumption DEF TypeOK, TableTypeOK

\* A stale read stays excused as long as the group and the reason stay.
LEMMA AgainOn ==
    ASSUME UNCHANGED <<body, scheduler, groups>>, NEW t, NEW w, Again(t, w),
           any_dirty \/ Changing \/ WillRead(t, w) => any_dirty' \/ Changing' \/ WillRead(t, w)'
    PROVE  Again(t, w)'
<1>1. IsSeq(body[t])' <=> IsSeq(body[t])
  BY DEF IsSeq
<1>2. Singleton' <=> Singleton
  BY DEF Singleton
<1> QED
  BY <1>1, <1>2 DEF Again

\* What a step inside a group owes.
LEMMA StaleFrame ==
    ASSUME StaleCause, UNCHANGED <<n, body, stage, scheduler, groups>>,
           stage \in Settling /\ WellFormed =>
              \A t \in Spawned, w \in Wire :
                 /\ scheduler = "Levelized" \/ ~IsSeq(body[t])
                 /\ Stale(t, w)'
                 /\ Stale(t, w) => Again(t, w)
                 => Again(t, w)'
    PROVE  StaleCause'
<1>1. Spawned' = Spawned /\ tasks' = tasks
  BY SameTable
<1>2. WellFormed' => WellFormed
  BY <1>1 DEF WellFormed, IsSeq
<1>3. \A t : IsSeq(body[t])' <=> IsSeq(body[t])
  BY DEF IsSeq
<1> QED
  BY <1>1, <1>2, <1>3 DEF StaleCause

\* The next instruction of a poll that changes no wire.
LEMMA StaleRun ==
    ASSUME TypeOK, StaleCause, running # 0, Instr(running).op \notin Await,
           pc' = [pc EXCEPT ![running] = NextPc(running)],
           UNCHANGED <<n, body, stage, scheduler, groups, order, any_dirty, dirty, running, yielded, cell>>,
           \A t \in Spawned, w \in Wire :
              Stale(t, w)' => Stale(t, w)
                 /\ ~(t = running /\ Instr(running).op = "read" /\ Instr(running).wire = w)
    PROVE  StaleCause'
<1>0. Spawned \subseteq Task
  BY ExecutorAssumption DEF TypeOK, TableTypeOK, Spawned, Task
<1>1. Changing => Changing'
  BY DEF Changing, DirtyHandles
<1>2. ASSUME NEW t \in Spawned, NEW w \in Wire, Stale(t, w)', Again(t, w)
      PROVE  Again(t, w)'
  <2>1. WillRead(t, w) => WillRead(t, w)'
    <3>1. CASE t = running
      <4>1. ~IsSeq(body[running]) /\ ~(Instr(running).op = "read" /\ Instr(running).wire = w)
        BY <1>2, <3>1 DEF Again
      <4>2. WillRead(running, w) => \A x : x = running => WillRead(x, w)'
        BY <4>1, WillReadOn
      <4> QED
        BY <3>1, <4>2
    <3>2. CASE t # running
      <4>1. pc'[t] = pc[t]
        BY <1>0, <3>2 DEF TypeOK, FutureTypeOK
      <4> QED
        BY <4>1, WillReadOther
    <3> QED
      BY <3>1, <3>2
  <2> QED
    BY <1>1, <1>2, <2>1, AgainOn
<1> QED
  BY <1>2, StaleFrame

\* A read brings what was read up to date.
LEMMA ReadStale == TypeOK /\ StaleCause /\ ReadPort => StaleCause'
<1> SUFFICES ASSUME TypeOK, StaleCause, ReadPort PROVE StaleCause'
  OBVIOUS
<1>0. Spawned \subseteq Task
  BY ExecutorAssumption DEF TypeOK, TableTypeOK, Spawned, Task
<1>1. /\ running # 0 /\ Instr(running).op = "read" /\ Instr(running).op \notin Await
      /\ pc' = [pc EXCEPT ![running] = NextPc(running)]
      /\ UNCHANGED <<n, body, stage, scheduler, groups, order, any_dirty, dirty, running, yielded, cell>>
  BY DEF ReadPort, At, Await, tableVars, passVars, portVars
<1>2. ASSUME NEW t \in Spawned, NEW w \in Wire, Stale(t, w)'
      PROVE  Stale(t, w) /\ ~(t = running /\ Instr(running).wire = w)
  <2>1. seen'[t][w] = IF t = running /\ w = Instr(running).wire THEN cell[w] ELSE seen[t][w]
    BY <1>0, ReadSeen
  <2> QED
    BY <1>1, <1>2, <2>1 DEF Stale
<1> QED
  BY <1>1, <1>2, StaleRun

\* Nor does local computation disturb anyone.
LEMMA ComputeStale == TypeOK /\ StaleCause /\ Compute => StaleCause'
<1> SUFFICES ASSUME TypeOK, StaleCause, Compute PROVE StaleCause'
  OBVIOUS
<1>1. /\ running # 0 /\ Instr(running).op = "let" /\ Instr(running).op \notin Await
      /\ pc' = [pc EXCEPT ![running] = NextPc(running)]
      /\ UNCHANGED <<n, body, stage, scheduler, groups, order, any_dirty, dirty, running, yielded, cell, seen>>
  BY DEF Compute, At, Await, tableVars, passVars, portVars, histVars
<1> QED
  BY <1>1, StaleRun DEF Stale

\* A write makes stale only what was read by members of a group that will be polled
\* again, because the writer has now changed one of its own handles.
LEMMA WriteStale ==
    ASSUME TypeOK, PlanInv, OneDriver, GroupOrder, NotYet, SeenByReaders, StaleCause, WritePort
    PROVE  StaleCause'
<1> DEFINE u == Instr(running).wire
           v == acc[running]
<1>0. Spawned \subseteq Task
  BY ExecutorAssumption DEF TypeOK, TableTypeOK, Spawned, Task
<1>1. /\ running # 0 /\ Instr(running).op = "write" /\ Instr(running).op \notin Await
      /\ pc' = [pc EXCEPT ![running] = NextPc(running)]
      /\ Write(u, v)
      /\ UNCHANGED <<n, body, stage, scheduler, groups, order, any_dirty, running, yielded, seen>>
  BY DEF WritePort, At, Await, tableVars, passVars, histVars
<1>2. running \in Spawned /\ u \in Wire /\ cell \in [Wire -> Value] /\ dirty \in [Wire -> BOOLEAN]
  BY <1>1, InstrType DEF TypeOK, PortsTypeOK
<1>3. u \in Writes(body[running])
  <2>1. pc[running] \in 1..Len(body[running].code)
    BY <1>2 DEF TypeOK, FutureTypeOK
  <2> QED
    BY <1>1, <2>1 DEF Writes, WiresOf, Instr
<1> HIDE DEF u, v
<1>4. CASE cell' = cell /\ dirty' = dirty
  BY <1>1, <1>4, StaleRun DEF Stale
<1>5. CASE u \notin Registered /\ cell' = [cell EXCEPT ![u] = v]
           /\ dirty' = [dirty EXCEPT ![u] = TRUE]
  <2>1. \A w \in Wire : dirty[w] => dirty'[w]
    BY <1>2, <1>5
  <2>2. \A w \in Wire : w # u => cell'[w] = cell[w]
    BY <1>2, <1>5
  <2>3. dirty'[u]
    BY <1>2, <1>5
  <2>4. ASSUME WellFormed
        PROVE  Changing'
    <3>1. u \in Handles(body[running])
      BY <1>2, <1>3, <2>4 DEF WellFormed, Honest
    <3>2. PICK k \in 1..Len(body[running].dirties) : body[running].dirties[k] = u
      BY <3>1 DEF Handles
    <3>3. k \in DirtyHandles(running)'
      BY <1>1, <2>3, <3>2 DEF DirtyHandles
    <3> QED
      BY <1>1, <3>3 DEF Changing
  <2>5. ASSUME stage \in Settling, WellFormed, NEW t \in Spawned, NEW w \in Wire,
               scheduler = "Levelized" \/ ~IsSeq(body[t]), Stale(t, w)', Stale(t, w) => Again(t, w)
        PROVE  Again(t, w)'
    <3>1. groups # << >> /\ ~Singleton /\ t \in Head(groups) /\ ~IsSeq(body[t])
      <4>1. CASE w = u
        <5>1. seen[t][u] # None
          BY <1>1, <2>5, <4>1 DEF Stale
        <5> QED
          BY <1>1, <1>3, <1>5, <2>5, <5>1, ReaderInGroup
      <4>2. CASE w # u
        <5>1. Stale(t, w)
          BY <1>1, <2>2, <2>5, <4>2 DEF Stale
        <5> QED
          BY <2>5, <5>1 DEF Again
      <4> QED
        BY <4>1, <4>2
    <3>2. Changing'
      BY <2>4, <2>5
    <3>3. ~Singleton' /\ ~IsSeq(body[t])'
      BY <1>1, <3>1 DEF Singleton, IsSeq
    <3> QED
      BY <1>1, <3>1, <3>2, <3>3 DEF Again
  <2> QED
    BY <1>1, <2>5, StaleFrame
<1>6. u \in Registered => cell' = cell /\ dirty' = dirty
  BY <1>1 DEF Write, regout_write
<1>7. u \notin Registered /\ cell[u] = v => cell' = cell /\ dirty' = dirty
  <2> SUFFICES ASSUME u \notin Registered, cell[u] = v PROVE cell' = cell /\ dirty' = dirty
    OBVIOUS
  <2>1. cell' = [cell EXCEPT ![u] = cell[u]] /\ dirty' = [dirty EXCEPT ![u] = dirty[u] \/ FALSE]
    BY <1>1 DEF Write, out_write
  <2> QED
    BY <1>2, <2>1
<1>8. u \notin Registered /\ cell[u] # v =>
         cell' = [cell EXCEPT ![u] = v] /\ dirty' = [dirty EXCEPT ![u] = TRUE]
  BY <1>1 DEF Write, out_write
<1> QED
  BY <1>4, <1>5, <1>6, <1>7, <1>8

\* A combinational module that resumes goes back to its start, before all its reads.
LEMMA ResumeStale ==
    ASSUME TypeOK, Pass, SeenByReaders, StaleCause, Resume
    PROVE  StaleCause'
<1>0. Spawned \subseteq Task
  BY ExecutorAssumption DEF TypeOK, TableTypeOK, Spawned, Task
<1>1. /\ running # 0 /\ Instr(running).op \in Await
      /\ pc' = [pc EXCEPT ![running] = NextPc(running)]
      /\ yielded' = [yielded EXCEPT ![running] = FALSE]
      /\ UNCHANGED <<n, body, stage, scheduler, groups, order, any_dirty, dirty, running, cell, seen>>
  BY DEF Resume, tableVars, passVars, portVars
<1>2. Changing => Changing'
  BY <1>1 DEF Changing, DirtyHandles
<1>3. ASSUME NEW t \in Spawned, NEW w \in Wire, Stale(t, w)', Stale(t, w) => Again(t, w)
      PROVE  Again(t, w)'
  <2>1. Stale(t, w) /\ Again(t, w)
    BY <1>1, <1>3 DEF Stale
  <2>2. CASE t = running
    <3>1. ~IsSeq(body[t])
      BY <2>1 DEF Again
    <3>2. pc'[t] = 1
      BY <1>0, <1>1, <2>2, <3>1, CombCode DEF TypeOK, FutureTypeOK
    <3>3. PICK j \in 1..Len(body[t].code) : body[t].code[j].op = "read" /\ body[t].code[j].wire = w
      BY <1>0, <2>1, ReadsDef DEF SeenByReaders, Stale
    <3>4. \E k \in 1..Len(order) : order[k] = t
      <4>1. order # << >> /\ t = order[1] /\ 1 \in 1..Len(order)
        BY <1>1, <2>2 DEF Pass, TypeOK, PassTypeOK
      <4> QED
        BY <4>1
    <3>5. WillRead(t, w)'
      BY <1>1, <3>2, <3>3, <3>4 DEF WillRead
    <3> QED
      BY <1>1, <2>1, <3>5, AgainOn
  <2>3. CASE t # running
    <3>1. pc'[t] = pc[t] /\ yielded'[t] = yielded[t]
      BY <1>0, <1>1, <2>3 DEF TypeOK, FutureTypeOK
    <3>2. WillRead(t, w) => WillRead(t, w)'
      BY <1>1, <3>1, WillReadOther
    <3> QED
      BY <1>1, <1>2, <2>1, <3>2, AgainOn
  <2> QED
    BY <2>2, <2>3
<1> QED
  BY <1>1, <1>3, StaleFrame

\* A poll that ends reports its changes; the others keep their turn.
LEMMA SuspendStale ==
    ASSUME TypeOK, Pass, StaleCause, Suspend
    PROVE  StaleCause'
<1>0. Spawned \subseteq Task
  BY ExecutorAssumption DEF TypeOK, TableTypeOK, Spawned, Task
<1>1. /\ running # 0 /\ Instr(running).op \in Await /\ ~Ready(running)
      /\ yielded' = [yielded EXCEPT ![running] = At("yield")]
      /\ order' = Tail(order)
      /\ UNCHANGED <<n, body, pc, stage, scheduler, groups, cell, seen>>
      /\ Singleton \/ any_dirty' = (any_dirty \/ DirtyHandles(running) # {})
  BY DEF Suspend, tableVars
<1>2. ASSUME NEW t \in Spawned, NEW w \in Wire, Stale(t, w)', Stale(t, w) => Again(t, w)
      PROVE  Again(t, w)'
  <2>1. Stale(t, w) /\ Again(t, w)
    BY <1>1, <1>2 DEF Stale
  <2>2. ~Singleton
    BY <2>1 DEF Again
  <2>3. any_dirty \/ Changing => any_dirty'
    BY <1>1, <2>2 DEF Changing
  <2>4. CASE t = running
    <3>1. pc[t] = Len(body[t].code) /\ Instr(t).op = "yield" /\ Len(body[t].code) \in Nat
      BY <1>1, <2>1, <2>4, CombCode DEF Again
    <3>2. ~yielded[t]
      BY <1>1, <2>4, <3>1 DEF Ready
    <3>3. ~WillRead(t, w)
      <4>1. body[t].code[pc[t]].op # "read"
        BY <3>1 DEF Instr
      <4>2. \A k \in pc[t]..Len(body[t].code) : k = pc[t]
        BY <3>1
      <4> QED
        BY <3>2, <4>1, <4>2 DEF WillRead
    <3> QED
      BY <1>1, <2>1, <2>3, <3>3, AgainOn
  <2>5. CASE t # running
    <3>1. pc'[t] = pc[t] /\ yielded'[t] = yielded[t]
      BY <1>0, <1>1, <2>5 DEF TypeOK, FutureTypeOK
    <3>2. ASSUME NEW k \in 1..Len(order), order[k] = t
          PROVE  \E j \in 1..Len(order') : order'[j] = t
      <4>1. order # << >> /\ running = order[1]
        BY <1>1 DEF Pass, TypeOK, PassTypeOK
      <4>2. k # 1
        BY <2>5, <3>2, <4>1
      <4>3. k - 1 \in 1..Len(Tail(order)) /\ (k - 1) + 1 = k
        BY <4>1, <4>2, PassFacts
      <4> QED
        BY <1>1, <3>2, <4>1, <4>3, PassFacts
    <3>3. WillRead(t, w) => WillRead(t, w)'
      BY <1>1, <3>1, <3>2, WillReadOther
    <3> QED
      BY <1>1, <2>1, <2>3, <3>3, AgainOn
  <2> QED
    BY <2>4, <2>5
<1> QED
  BY <1>1, <1>2, StaleFrame

\* A group is left only when nobody in it is stale.
LEMMA GroupSettledStale ==
    ASSUME TypeOK, StaleCause, GroupSettled
    PROVE  StaleCause'
<1>1. /\ UNCHANGED <<n, body, stage, scheduler, cell, seen>>
      /\ running = 0 /\ order = << >> /\ (Singleton \/ ~any_dirty)
      /\ stage \in Settling
  BY DEF GroupSettled, PassDone, tableVars, portVars, histVars
<1>2. \A t, w : ~Again(t, w)
  BY <1>1 DEF Again, Changing, WillRead
<1>3. Spawned' = Spawned /\ tasks' = tasks
  BY <1>1, SameTable
<1>4. WellFormed' => WellFormed
  BY <1>1, <1>3 DEF WellFormed, IsSeq
<1>5. \A t, w : (Stale(t, w)' => Stale(t, w)) /\ (IsSeq(body[t])' <=> IsSeq(body[t]))
  BY <1>1 DEF Stale, IsSeq
<1> QED
  BY <1>1, <1>2, <1>3, <1>4, <1>5 DEF StaleCause

\* The next pass over the group polls all its members.
LEMMA IterateStale ==
    ASSUME TypeOK, CombRest, SeenByReaders, StaleCause, Iterate
    PROVE  StaleCause'
<1>0. n \in Nat /\ Spawned \subseteq Task
  BY ExecutorAssumption DEF TypeOK, TableTypeOK, Spawned, Task
<1>1. /\ UNCHANGED <<n, body, pc, yielded, stage, scheduler, groups, cell, seen>>
      /\ running = 0 /\ groups # << >>
      /\ BeginPass(groups, delta + 1)
  BY DEF Iterate, PassDone, BeginPass, tableVars, portVars, histVars, futVars
<1>2. \A t \in Head(groups) : \E k \in 1..Len(order') : order'[k] = t
  <2>1. Head(groups) \in SUBSET Spawned /\ order' \in visit_order(Head(groups))
    BY <1>1, LaterGroups DEF BeginPass
  <2> QED
    BY <1>0, <2>1, VisitAll
<1>3. ASSUME NEW t \in Spawned, NEW w \in Wire, Stale(t, w)', Stale(t, w) => Again(t, w)
      PROVE  Again(t, w)'
  <2>1. Stale(t, w) /\ Again(t, w)
    BY <1>1, <1>3 DEF Stale
  <2>2. ~IsSeq(body[t]) /\ t \in Head(groups)
    BY <2>1 DEF Again
  <2>3. yielded[t] \/ pc[t] = 1
    BY <1>0, <1>1, <2>2 DEF CombRest, Spawned
  <2>4. PICK k \in 1..Len(body[t].code) : body[t].code[k].op = "read" /\ body[t].code[k].wire = w
    BY <1>0, <2>1, ReadsDef DEF SeenByReaders, Stale
  <2>5. WillRead(t, w)'
    BY <1>1, <1>2, <2>2, <2>3, <2>4 DEF WillRead
  <2> QED
    BY <1>1, <2>1, <2>5, AgainOn
<1> QED
  BY <1>1, <1>3, StaleFrame

\* A settle starts with nothing read.
LEMMA StartStale ==
    ASSUME TypeOK, poll_tasks, n' = n
    PROVE  StaleCause'
<1>1. Spawned' \subseteq Task /\ seen' = [t \in Task |-> [w \in Wire |-> None]]
  BY ExecutorAssumption DEF TypeOK, TableTypeOK, Spawned, Task, poll_tasks
<1>2. \A t \in Spawned', w \in Wire : seen'[t][w] = None
  BY <1>1
<1> QED
  BY <1>2 DEF StaleCause, Stale

\* Stale reads have their cause in every step.
LEMMA StaleStep ==
    ASSUME TypeOK, PlanInv, OneDriver, SeenByReaders, CombRest, GroupOrder, NotYet, StaleCause,
           [Next]_vars
    PROVE  StaleCause'
<1>0. Pass
  BY DEF PlanInv
<1>1. CASE stage' \notin Settling
  BY <1>1 DEF StaleCause
<1>2. CASE (\E d \in Domain : pre_edge_settle(d)) \/ BarePoll \/ post_edge_settle
  <2>1. poll_tasks /\ n' = n
    BY <1>2 DEF pre_edge_settle, BarePoll, post_edge_settle
  <2> QED
    BY <2>1, StartStale
<1>3. CASE (\E b \in Body : spawn_wired(b)) \/ (\E w \in External, v \in Value : Drive(w, v))
           \/ (\E m \in Modes, o \in PollOrders : set_scheduler_mode(m, o))
           \/ (\E d \in Domain : advance(d)) \/ Panic \/ Return
  <2>1. stage' \in {"idle", "panic", "edge"}
    BY <1>3 DEF spawn_wired, Drive, set_scheduler_mode, advance, Panic, Return
  <2> QED
    BY <1>1, <2>1 DEF Settling
<1>4. CASE Poll
  <2>1. /\ UNCHANGED <<n, body, stage, scheduler, groups, order, any_dirty, pc, yielded, cell, seen>>
        /\ running = 0
    BY <1>4 DEF Poll, tableVars, passVars, futVars, portVars, histVars
  <2>2. ~Changing
    BY <2>1 DEF Changing
  <2>3. \A t, w : (Stale(t, w)' => Stale(t, w)) /\ (WillRead(t, w) => WillRead(t, w)')
    BY <2>1 DEF Stale, WillRead
  <2>4. \A t, w : Again(t, w) => Again(t, w)'
    BY <2>1, <2>2, <2>3, AgainOn
  <2> QED
    BY <2>1, <2>3, <2>4, StaleFrame
<1>5. CASE UNCHANGED vars
  <2>1. /\ UNCHANGED <<n, body, stage, scheduler, groups, order, any_dirty, pc, yielded, cell, seen,
                       running, dirty>>
    BY <1>5 DEF vars, tableVars, passVars, futVars, portVars, histVars
  <2>2. \A t, w : /\ Stale(t, w)' => Stale(t, w)
                  /\ WillRead(t, w) => WillRead(t, w)'
                  /\ Changing => Changing'
    BY <2>1 DEF Stale, WillRead, Changing, DirtyHandles
  <2>3. \A t, w : Again(t, w) => Again(t, w)'
    BY <2>1, <2>2, AgainOn
  <2> QED
    BY <2>1, <2>2, <2>3, StaleFrame
<1> QED
  BY <1>0, <1>1, <1>2, <1>3, <1>4, <1>5, ReadStale, ComputeStale, WriteStale, ResumeStale,
     SuspendStale, GroupSettledStale, IterateStale DEF Next, Caller, Settle

-----------------------------------------------------------------------------
(***************************************************************************)
(* The theorems.                                                           *)
(***************************************************************************)

ReadsInv ==
    PlanInv /\ OneDriver /\ MidRun /\ SeenByReaders /\ CombRest /\ GroupOrder /\ NotYet /\ StaleCause

LEMMA ReadsInvInit == Init => ReadsInv
<1> SUFFICES ASSUME Init PROVE ReadsInv
  OBVIOUS
<1>1. n = 0 /\ stage = "idle" /\ running = 0 /\ Spawned = {}
  BY DEF Init, Spawned
<1>2. PlanInv
  BY PlanInit
<1>3. OneDriver /\ MidRun
  BY <1>1 DEF OneDriver, MidRun
<1>4. SeenByReaders /\ CombRest
  BY <1>1 DEF Init, SeenByReaders, CombRest
<1>5. GroupOrder /\ NotYet /\ StaleCause
  BY <1>1 DEF GroupOrder, NotYet, StaleCause, Settling
<1> QED
  BY <1>2, <1>3, <1>4, <1>5 DEF ReadsInv

LEMMA ReadsInvStep == TypeOK /\ Fresh /\ ReadsInv /\ [Next]_vars => ReadsInv'
<1> SUFFICES ASSUME TypeOK, Fresh, ReadsInv, [Next]_vars PROVE ReadsInv'
  OBVIOUS
<1>1. PlanInv /\ PlanValid /\ Pass
  BY DEF ReadsInv, PlanInv
<1>2. PlanInv' /\ OneDriver'
  BY PlanStep, OneDriverStep DEF ReadsInv
<1>3. MidRun' /\ SeenByReaders' /\ CombRest'
  BY <1>1, MidRunStep, SeenStep, CombRestStep DEF ReadsInv
<1>4. GroupOrder' /\ NotYet' /\ StaleCause'
  BY <1>1, GroupOrderStep, NotYetStep, StaleStep DEF ReadsInv
<1> QED
  BY <1>2, <1>3, <1>4 DEF ReadsInv

\* When the last group is done, no stale read is excused.
LEMMA DoneSettled ==
    ASSUME ReadsInv, SettleDone, WellFormed, NEW t \in Spawned, NEW w \in Wire,
           scheduler = "Levelized" \/ ~IsSeq(body[t])
    PROVE  seen[t][w] \in {None, cell[w]}
<1>1. stage \in Settling /\ groups = << >>
  BY DEF SettleDone
<1>2. ~Again(t, w)
  BY <1>1 DEF Again
<1> QED
  BY <1>1, <1>2 DEF ReadsInv, StaleCause, Stale

\* Under either scheduler and every poll order, the values that the combinational modules
\* read in a settle are the final ones (poll_tasks_fixpoint, iterate_scc).
THEOREM CombSettled == Spec => []CombReadsSettled
<1>1. ReadsInv => CombReadsSettled
  BY DoneSettled DEF CombReadsSettled
<1> QED
  BY <1>1, TypeCorrect, ReadsInvInit, ReadsInvStep, PTL DEF Spec

\* In a settle of the levelized scheduler so are the values every module read: one poll per
\* task in plan order suffices (poll_tasks_levelized).
THEOREM LevelizedSettled == Spec => [](scheduler = "Levelized" => ReadsSettled)
<1>1. ReadsInv => (scheduler = "Levelized" => ReadsSettled)
  BY DoneSettled DEF ReadsSettled
<1> QED
  BY <1>1, TypeCorrect, ReadsInvInit, ReadsInvStep, PTL DEF Spec
=============================================================================
