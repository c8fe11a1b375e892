------------------------- MODULE ExecutorClockProofs -------------------------
(***************************************************************************)
(* Sequential modules and their clocks, for every set of modules, clock    *)
(* domains and tick sequences: one tick().await crossed per edge, nothing  *)
(* moved by another domain's ticks, deferred reads before the edge.        *)
(***************************************************************************)
EXTENDS ExecutorProofs

(***************************************************************************)
(* The inductive invariants.                                               *)
(***************************************************************************)

\* What the two phase signals say in each part of a tick.  Outside its own pre-edge
\* settle a domain is past an edge, or has not had one.
Signals ==
    /\ stage = "pre" => phase[dom] = "PreEdge" /\ ~resolving[dom]
    /\ stage = "post" => phase[dom] = "PostEdge" /\ resolving[dom]
    /\ \A d \in Domain : phase[d] = "PreEdge" =>
          (stage \in {"pre", "edge", "panic"} /\ dom = d) \/ clk[d] = 0

\* A future is only between two awaits while it is being polled, and if it has just
\* passed a barrier, then before the edge.
MidRun ==
    /\ running # 0 => stage \in Settling
    /\ \A t \in Spawned : pc[t] > 1 /\ Instr(t).op \notin Await =>
          /\ t = running
          /\ body[t].code[pc[t] - 1].op = "barrier" => phase[body[t].dom] = "PreEdge"

\* No future waits for more than the next edge.
NextEdge == \A t \in Spawned : target[t] # None => target[t] <= clk[body[t].dom] + 1

\* t waits for an edge: the next one, or the one that has just happened.
Waiting(t) == Instr(t).op = "tick" /\ target[t] = clk[body[t].dom] + 1
Woken(t) == Instr(t).op = "tick" /\ target[t] = clk[body[t].dom]

\* t cannot move before the next tick of its clock.
Parked(t) == Waiting(t) \/ (Instr(t).op = "barrier" /\ phase[body[t].dom] = "PostEdge")

\* t has crossed every edge since it started, or every one but the last.
Lockstep(t) == birth[t] + crossed[t] = clk[body[t].dom]
OneBehind(t) == birth[t] + crossed[t] + 1 = clk[body[t].dom]

\* The tick in progress is one of t's own clock.
Own(t) == stage \in {"pre", "edge", "post"} /\ dom = body[t].dom

\* Where a sequential module that has started is, and how many ticks it has crossed,
\* in each part of its own clock's tick and outside of it.
Due(t) ==
    /\ ~Own(t) => Lockstep(t) /\ Parked(t)
    /\ Own(t) /\ stage = "pre" => Lockstep(t) /\ (Waiting(t) \/ Todo(t))
    /\ Own(t) /\ stage = "edge" => Lockstep(t) /\ Waiting(t)
    /\ Own(t) /\ stage = "post" => \/ OneBehind(t) /\ Woken(t) /\ Todo(t)
                                   \/ Lockstep(t) /\ (t = running \/ Parked(t))

\* Every sequential module that has started is where it should be.
Schedule == stage # "panic" => \A t \in Spawned : IsSeq(body[t]) /\ birth[t] # None => Due(t)

-----------------------------------------------------------------------------
\* The program counter either wraps or moves to the next instruction.
LEMMA NextPcFacts ==
    ASSUME TypeOK, running # 0, NextPc(running) > 1
    PROVE  NextPc(running) = pc[running] + 1
<1> DEFINE p == pc[running]
           k == Len(body[running].code)
<1>1. p \in 1..k /\ k \in Nat \ {0}
  BY InstrType, BodyAssumption DEF TypeOK, FutureTypeOK
<1>2. NextPc(running) = (p % k) + 1
  BY DEF NextPc
<1> HIDE DEF p, k
<1>3. CASE p = k
  <2>1. p % k = 0
    BY <1>1, <1>3
  <2> QED
    BY <1>2, <2>1
<1>4. CASE p # k
  <2>1. p % k = p
    BY <1>1, <1>4
  <2> QED
    BY <1>2, <2>1 DEF p
<1> QED
  BY <1>3, <1>4

\* Which steps run a future, and what all other steps leave alone.
LEMMA StepKinds ==
    ASSUME [Next]_vars
    PROVE  \/ ReadPort \/ WritePort \/ Compute \/ Resume \/ Suspend
           \/ \E b \in Body : spawn_wired(b)
           \/ UNCHANGED <<n, body, futVars, birth, crossed>>
<1>1. CASE Caller
  BY <1>1 DEF Caller, Drive, set_scheduler_mode, pre_edge_settle, advance, BarePoll, tableVars, histVars
<1>2. CASE Settle
  BY <1>2 DEF Settle, post_edge_settle, Poll, GroupSettled, Iterate, Panic, Return, tableVars, histVars
<1>3. CASE UNCHANGED vars
  BY <1>3 DEF vars, tableVars, histVars
<1> QED
  BY <1>1, <1>2, <1>3 DEF Next

\* The phase signals follow the parts of a tick.
LEMMA SignalsStep ==
    ASSUME "advance" \notin Calls, TypeOK, Signals, [Next]_vars
    PROVE  Signals'
<1>0. /\ phase \in [Domain -> {"PreEdge", "PostEdge"}] /\ resolving \in [Domain -> BOOLEAN]
      /\ clk \in [Domain -> Nat] /\ dom \in Domain
  BY DEF TypeOK, ClockTypeOK, PassTypeOK
<1>1. ASSUME UNCHANGED <<clockVars, dom>>,
             \/ stage' = stage \/ (stage = "pre" /\ stage' = "edge")
             \/ (stage' \in {"idle", "poll"} /\ stage \notin {"pre", "edge", "panic"}) \/ stage' = "panic"
      PROVE  Signals'
  BY <1>1 DEF Signals, clockVars
<1>2. ASSUME NEW d \in Domain, pre_edge_settle(d)
      PROVE  Signals'
  <2>1. /\ stage = "idle" /\ stage' = "pre" /\ dom' = d /\ clk' = clk
        /\ phase' = [phase EXCEPT ![d] = "PreEdge"] /\ resolving' = [resolving EXCEPT ![d] = FALSE]
    BY <1>2 DEF pre_edge_settle, set_poll_phase, set_tick_resolving
  <2>2. phase'[d] = "PreEdge" /\ resolving'[d] = FALSE /\ \A e \in Domain : e # d => phase'[e] = phase[e]
    BY <1>0, <2>1
  <2> QED
    BY <2>1, <2>2 DEF Signals
<1>3. CASE post_edge_settle
  <2>1. /\ stage = "edge" /\ stage' = "post" /\ dom' = dom /\ clk' = [clk EXCEPT ![dom] = @ + 1]
        /\ phase' = [phase EXCEPT ![dom] = "PostEdge"] /\ resolving' = [resolving EXCEPT ![dom] = TRUE]
    BY <1>3 DEF post_edge_settle, set_poll_phase, set_tick_resolving, clock_advance
  <2>2. /\ phase'[dom] = "PostEdge" /\ resolving'[dom] = TRUE
        /\ \A e \in Domain : e # dom => phase'[e] = phase[e] /\ clk'[e] = clk[e]
    BY <1>0, <2>1
  <2> QED
    BY <2>1, <2>2 DEF Signals
<1>4. CASE BarePoll
  BY <1>1, <1>4 DEF BarePoll
<1>5. CASE (\E b \in Body : spawn_wired(b)) \/ (\E w \in External, v \in Value : Drive(w, v))
           \/ (\E m \in Modes, o \in PollOrders : set_scheduler_mode(m, o))
           \/ Poll \/ ReadPort \/ WritePort \/ Compute \/ Resume \/ Suspend
           \/ GroupSettled \/ Iterate \/ Panic \/ UNCHANGED vars
  BY <1>1, <1>5 DEF spawn_wired, Drive, set_scheduler_mode, Poll, ReadPort, WritePort, Compute, Resume,
                    Suspend, GroupSettled, Iterate, Panic, vars
<1>6. CASE Return
  <2>1. /\ UNCHANGED <<clockVars, dom>> /\ stage \in Settling
        /\ stage' = IF stage = "pre" THEN "edge" ELSE "idle"
    BY <1>6 DEF Return, SettleDone
  <2> QED
    BY <1>1, <2>1 DEF Settling
<1>7. \A d \in Domain : ~advance(d)
  BY DEF advance
<1> QED
  BY <1>2, <1>3, <1>4, <1>5, <1>6, <1>7 DEF Next, Caller, Settle

\* Futures are mid-run only while they are polled.
LEMMA MidRunStep ==
    ASSUME TypeOK, Fresh, Pass, MidRun, [Next]_vars
    PROVE  MidRun'
<1>0. n \in Nat /\ Spawned \subseteq Task /\ 0 \notin Spawned
  BY ExecutorAssumption DEF TypeOK, TableTypeOK, Spawned, Task
<1>1. running' # 0 => stage' \in Settling
  <2>1. CASE Caller \/ post_edge_settle
    BY <2>1 DEF MidRun, Caller, spawn_wired, Drive, set_scheduler_mode, pre_edge_settle, advance,
                BarePoll, post_edge_settle, poll_tasks, BeginPass
  <2>2. CASE Poll \/ ReadPort \/ WritePort \/ Compute \/ Resume \/ Suspend \/ UNCHANGED vars
    BY <2>2 DEF MidRun, Poll, ReadPort, WritePort, Compute, Resume, Suspend, vars
  <2>3. CASE GroupSettled \/ Iterate \/ Panic \/ Return
    BY <2>3 DEF GroupSettled, Iterate, Panic, Return, PassDone, SettleDone, BeginPass
  <2> QED
    BY <2>1, <2>2, <2>3 DEF Next, Settle
<1> DEFINE Mid(t) == pc[t] > 1 /\ Instr(t).op \notin Await
           Past(t) == body[t].code[pc[t] - 1].op = "barrier"
           Pre(t) == phase[body[t].dom] = "PreEdge"
<1> SUFFICES \A t \in Spawned' : Mid(t)' => t = running' /\ (Past(t)' => Pre(t)')
  BY <1>1, Zenon DEF MidRun
<1>2. \A t \in Spawned : Mid(t) => t = running /\ (Past(t) => Pre(t))
  BY DEF MidRun
<1> HIDE DEF Mid, Past, Pre
<1>3. ASSUME running = 0, UNCHANGED <<n, body, pc>>
      PROVE  \A t \in Spawned' : ~Mid(t)'
  <2>1. Spawned' = Spawned
    BY <1>3, SameTable
  <2> QED
    BY <1>0, <1>2, <1>3, <2>1 DEF Mid, Instr
<1>4. CASE \E b \in Body : spawn_wired(b)
  <2>1. PICK b \in Body : spawn_wired(b)
    BY <1>4
  <2>2. /\ n + 1 \in Task /\ Spawned' = Spawned \cup {n + 1} /\ body' = [body EXCEPT ![n + 1] = b]
        /\ pc' = pc /\ stage = "idle"
    BY <1>0, <2>1, ExecutorAssumption DEF spawn_wired, futVars, TypeOK, TableTypeOK, Spawned, Task
  <2>3. n + 1 \notin Spawned /\ \A t \in Spawned : body'[t] = body[t] /\ pc'[t] = pc[t]
    BY <1>0, <2>2 DEF TypeOK, TableTypeOK, Spawned
  <2>4. pc[n + 1] = 1 /\ running = 0
    BY <1>0, <2>2 DEF Fresh, MidRun, Settling
  <2>5. \A t \in Spawned : ~Mid(t)
    BY <1>0, <1>2, <2>4
  <2> QED
    BY <2>2, <2>3, <2>4, <2>5 DEF Mid, Instr
<1>5. CASE (\E d \in Domain : pre_edge_settle(d) \/ advance(d)) \/ BarePoll \/ post_edge_settle
           \/ (\E w \in External, v \in Value : Drive(w, v))
           \/ (\E m \in Modes, o \in PollOrders : set_scheduler_mode(m, o))
  <2>1. UNCHANGED <<n, body, pc>> /\ stage \in {"idle", "edge"}
    BY <1>5 DEF pre_edge_settle, advance, BarePoll, post_edge_settle, Drive, set_scheduler_mode,
                tableVars, futVars
  <2>2. running = 0
    BY <2>1 DEF MidRun, Settling
  <2> QED
    BY <1>3, <2>1, <2>2
<1>6. CASE Poll \/ GroupSettled \/ Iterate \/ Panic \/ Return
  BY <1>3, <1>6 DEF Poll, GroupSettled, Iterate, Panic, Return, PassDone, SettleDone, tableVars, futVars
<1>7. CASE UNCHANGED vars
  BY <1>2, <1>7, SameTable DEF vars, tableVars, futVars, clockVars, Mid, Past, Pre, Instr
<1>8. CASE ReadPort \/ WritePort \/ Compute \/ Resume
  <2> DEFINE r == running
  <2>1. /\ r # 0 /\ UNCHANGED <<n, body, phase, running>> /\ pc' = [pc EXCEPT ![r] = NextPc(r)]
        /\ Instr(r).op = "barrier" => Pre(r)
    <3>1. CASE ReadPort \/ WritePort \/ Compute
      BY <3>1 DEF ReadPort, WritePort, Compute, At, tableVars, clockVars
    <3>2. CASE Resume
      BY <3>2 DEF Resume, Ready, barrier_ready, Pre, tableVars, clockVars
    <3> QED
      BY <1>8, <3>1, <3>2
  <2>2. r \in Spawned /\ r \in Task /\ Spawned' = Spawned /\ NextPc(r) \in Nat /\ pc[r] \in Nat
    BY <1>0, <2>1, InstrType, SameTable DEF TypeOK, FutureTypeOK
  <2>3. pc'[r] = NextPc(r) /\ \A t \in Spawned : t # r => pc'[t] = pc[t]
    BY <1>0, <2>1, <2>2 DEF TypeOK, FutureTypeOK
  <2>4. \A t \in Spawned : t # r => ~Mid(t)'
    BY <1>2, <2>1, <2>3 DEF Mid, Instr
  <2>5. ASSUME pc'[r] > 1, body[r].code[pc'[r] - 1].op = "barrier"
        PROVE  Pre(r)
    <3>1. pc'[r] = pc[r] + 1
      BY <2>1, <2>3, <2>5, NextPcFacts
    <3>2. pc'[r] - 1 = pc[r]
      BY <2>2, <3>1
    <3> QED
      BY <2>1, <2>5, <3>2 DEF Instr
  <2> QED
    BY <2>1, <2>2, <2>4, <2>5 DEF Mid, Past, Pre
<1>9. CASE Suspend
  <2>1. /\ running # 0 /\ Instr(running).op \in Await /\ UNCHANGED <<n, body, pc>>
    BY <1>9 DEF Suspend, tableVars
  <2>2. Spawned' = Spawned
    BY <2>1, SameTable
  <2>3. \A t \in Spawned : ~Mid(t)
    BY <1>2, <2>1 DEF Mid
  <2> QED
    BY <2>1, <2>2, <2>3 DEF Mid, Instr
<1> QED
  BY <1>4, <1>5, <1>6, <1>7, <1>8, <1>9 DEF Next, Caller, Settle

\* Clocks only move on, and a tick future asks for the edge after the current one.
LEMMA NextEdgeStep ==
    ASSUME TypeOK, Fresh, NextEdge, [Next]_vars
    PROVE  NextEdge'
<1>0. /\ n \in Nat /\ Spawned \subseteq Task /\ \A d \in Domain : clk[d] \in Nat
      /\ target \in [Task -> Nat \cup {None}] /\ \A t \in Spawned : body[t].dom \in Domain
  BY ExecutorAssumption, BodyAssumption DEF TypeOK, TableTypeOK, FutureTypeOK, ClockTypeOK, Spawned, Task
<1>1. \A d \in Domain : clk'[d] \in Nat /\ clk'[d] >= clk[d]
  <2>1. ASSUME clk' = clk
        PROVE  \A d \in Domain : clk'[d] \in Nat /\ clk'[d] >= clk[d]
    BY <1>0, <2>1
  <2>2. ASSUME NEW d \in Domain, clock_advance(d)
        PROVE  \A e \in Domain : clk'[e] \in Nat /\ clk'[e] >= clk[e]
    BY <1>0, <2>2 DEF clock_advance, TypeOK, ClockTypeOK
  <2>3. CASE (\E d \in Domain : advance(d)) \/ post_edge_settle
    BY <2>2, <2>3 DEF advance, post_edge_settle, TypeOK, PassTypeOK
  <2>4. CASE Caller /\ ~(\E d \in Domain : advance(d))
    BY <2>1, <2>4 DEF Caller, spawn_wired, Drive, set_scheduler_mode, pre_edge_settle, BarePoll, clockVars
  <2>5. CASE Settle /\ ~post_edge_settle
    BY <2>1, <2>5 DEF Settle, Poll, ReadPort, WritePort, Compute, Resume, Suspend, GroupSettled, Iterate,
                      Panic, Return, clockVars
  <2>6. CASE UNCHANGED vars
    BY <2>1, <2>6 DEF vars, clockVars
  <2> QED
    BY <2>3, <2>4, <2>5, <2>6 DEF Next
<1>2. ASSUME UNCHANGED <<n, body>>, \A t \in Spawned : target'[t] \in {target[t], None}
      PROVE  NextEdge'
  BY <1>0, <1>1, <1>2, SameTable, NoneIsNoNumber DEF NextEdge
<1>3. CASE ReadPort \/ WritePort \/ Compute \/ UNCHANGED <<n, body, futVars, birth, crossed>>
  BY <1>2, <1>3 DEF ReadPort, WritePort, Compute, tableVars, futVars
<1>4. CASE Resume
  <2>1. UNCHANGED <<n, body>> /\ target' = [target EXCEPT ![running] = None]
    BY <1>4 DEF Resume, tableVars
  <2> QED
    BY <1>0, <1>2, <2>1
<1>5. CASE \E b \in Body : spawn_wired(b)
  <2>1. PICK b \in Body : spawn_wired(b)
    BY <1>5
  <2>2. /\ n + 1 \in Task /\ Spawned' = Spawned \cup {n + 1} /\ body' = [body EXCEPT ![n + 1] = b]
        /\ target' = target
    BY <1>0, <2>1, ExecutorAssumption DEF spawn_wired, futVars, TypeOK, TableTypeOK, Spawned, Task
  <2>3. n + 1 \notin Spawned /\ \A t \in Spawned : body'[t] = body[t]
    BY <1>0, <2>2 DEF TypeOK, TableTypeOK, Spawned
  <2>4. target[n + 1] = None
    BY <1>0, <2>2 DEF Fresh
  <2> QED
    BY <1>0, <1>1, <2>2, <2>3, <2>4 DEF NextEdge
<1>6. CASE Suspend
  <2>1. /\ running # 0 /\ UNCHANGED <<n, body>> /\ clk' = clk
        /\ target' = [target EXCEPT ![running] =
                        IF At("tick") /\ @ = None THEN clk[body[running].dom] + 1 ELSE @]
    BY <1>6 DEF Suspend, tableVars, clockVars, tick_target
  <2>2. running \in Spawned /\ Spawned' = Spawned
    BY <2>1, InstrType, SameTable
  <2> QED
    BY <1>0, <2>1, <2>2 DEF NextEdge
<1> QED
  BY <1>3, <1>4, <1>5, <1>6, StepKinds

-----------------------------------------------------------------------------
(***************************************************************************)
(* The schedule, action by action.                                         *)
(***************************************************************************)

\* The numbers the schedule adds and compares.
LEMMA StartedTypes ==
    ASSUME TypeOK, NEW t \in Spawned
    PROVE  /\ t \in Task /\ t # 0 /\ n \in Nat
           /\ body[t] \in Body /\ body[t].dom \in Domain
           /\ birth[t] # None => birth[t] \in Nat
           /\ crossed[t] \in Nat
           /\ target[t] # None => target[t] \in Nat
           /\ clk[body[t].dom] \in Nat
           /\ phase[body[t].dom] \in {"PreEdge", "PostEdge"}
           /\ Instr(t).op \in Await \cup {"read", "write", "let"}
<1>1. t \in Task /\ t # 0 /\ n \in Nat /\ body[t] \in Body
  BY ExecutorAssumption DEF TypeOK, TableTypeOK, Spawned, Task
<1>2. body[t].dom \in Domain
  BY <1>1, BodyAssumption
<1>3. crossed[t] \in Nat /\ birth[t] \in Nat \cup {None} /\ target[t] \in Nat \cup {None}
  BY <1>1 DEF TypeOK, HistTypeOK, FutureTypeOK
<1>4. clk[body[t].dom] \in Nat /\ phase[body[t].dom] \in {"PreEdge", "PostEdge"}
  BY <1>2 DEF TypeOK, ClockTypeOK
<1>5. Instr(t).op \in Await \cup {"read", "write", "let"}
  BY <1>1, BodyAssumption DEF TypeOK, FutureTypeOK, Instr
<1> QED
  BY <1>1, <1>2, <1>3, <1>4, <1>5

\* A step that leaves t's future and t's own clock alone leaves it where it is.
LEMMA SamePlace ==
    ASSUME NEW t, body'[t] = body[t], pc'[t] = pc[t], target'[t] = target[t],
           birth'[t] = birth[t], crossed'[t] = crossed[t],
           clk'[body[t].dom] = clk[body[t].dom], phase'[body[t].dom] = phase[body[t].dom]
    PROVE  /\ Waiting(t)' = Waiting(t) /\ Woken(t)' = Woken(t) /\ Parked(t)' = Parked(t)
           /\ Lockstep(t)' = Lockstep(t) /\ OneBehind(t)' = OneBehind(t)
BY DEF Waiting, Woken, Parked, Lockstep, OneBehind, Instr

\* ... and so does its schedule, if the settle goes on.
LEMMA DueFrame ==
    ASSUME NEW t, body'[t] = body[t], pc'[t] = pc[t], target'[t] = target[t],
           birth'[t] = birth[t], crossed'[t] = crossed[t],
           UNCHANGED <<clockVars, dom, stage>>,
           Todo(t) => Todo(t)', t = running => t = running',
           Due(t)
    PROVE  Due(t)'
<1>1. Own(t)' = Own(t)
  BY DEF Own
<1>2. clk' = clk /\ phase' = phase
  BY DEF clockVars
<1>3. /\ Waiting(t)' = Waiting(t) /\ Woken(t)' = Woken(t) /\ Parked(t)' = Parked(t)
      /\ Lockstep(t)' = Lockstep(t) /\ OneBehind(t)' = OneBehind(t)
  BY <1>2, SamePlace
<1> QED
  BY <1>1, <1>3 DEF Due

\* Waiting for the next edge is always as it should be, and so is any other way of
\* being parked, except just before an edge.
LEMMA DueWaiting ==
    ASSUME NEW t, Lockstep(t),
           \/ Waiting(t)
           \/ Parked(t) /\ (Own(t) => stage \notin {"pre", "edge"})
    PROVE  Due(t)
BY DEF Due, Parked, Own

\* A new task has not started.
LEMMA SpawnDue ==
    ASSUME TypeOK, Fresh, Schedule, NEW b \in Body, spawn_wired(b)
    PROVE  Schedule'
<1>1. /\ n \in Nat /\ n + 1 \in Task /\ n' = n + 1 /\ body' = [body EXCEPT ![n + 1] = b]
      /\ stage = "idle"
  BY ExecutorAssumption DEF spawn_wired, TypeOK, TableTypeOK, Task
<1>2. /\ UNCHANGED <<clockVars, dom, stage, running, groups, order>>
      /\ pc' = pc /\ target' = target /\ birth' = birth /\ crossed' = crossed
  BY DEF spawn_wired, futVars, histVars, passVars
<1>3. birth[n + 1] = None
  BY <1>1 DEF Fresh
<1> SUFFICES ASSUME NEW t \in Spawned', IsSeq(body'[t]), birth'[t] # None
             PROVE  Due(t)'
  BY DEF Schedule
<1>4. t \in Spawned /\ t # n + 1
  BY <1>1, <1>2, <1>3 DEF Spawned
<1>5. body'[t] = body[t]
  BY <1>1, <1>4 DEF TypeOK, TableTypeOK
<1>6. Due(t)
  BY <1>1, <1>2, <1>4, <1>5 DEF Schedule
<1>7. Todo(t) => Todo(t)'
  BY <1>2 DEF Todo
<1> QED
  BY <1>2, <1>5, <1>6, <1>7, DueFrame

\* The modules of the ticking domain are to be polled before the edge.
LEMMA PreEdgeDue ==
    ASSUME TypeOK, PlanValid, Schedule, NEW d \in Domain, pre_edge_settle(d),
           NEW t \in Spawned, IsSeq(body[t]), birth[t] # None
    PROVE  Due(t)'
<1>1. /\ stage = "idle" /\ stage' = "pre" /\ dom' = d /\ clk' = clk
      /\ phase' = [phase EXCEPT ![d] = "PreEdge"]
      /\ poll_tasks /\ n' = n /\ body' = body
      /\ pc' = pc /\ target' = target /\ birth' = birth /\ crossed' = crossed
  BY DEF pre_edge_settle, set_poll_phase, futVars
<1>2. Todo(t)'
  BY <1>1, PollTasksCovers
<1>3. Lockstep(t) /\ Parked(t)
  BY <1>1 DEF Schedule, Due, Own
<1>4. Lockstep(t)'
  BY <1>1, <1>3 DEF Lockstep
<1>5. CASE body[t].dom = d
  <2>1. Own(t)' /\ stage' = "pre"
    BY <1>1, <1>5 DEF Own
  <2> QED
    BY <1>2, <1>4, <2>1 DEF Due
<1>6. CASE body[t].dom # d
  <2>1. phase'[body[t].dom] = phase[body[t].dom]
    BY <1>1, <1>6, StartedTypes DEF TypeOK, ClockTypeOK
  <2>2. Parked(t)'
    BY <1>1, <1>3, <2>1, SamePlace
  <2>3. ~Own(t)'
    BY <1>1, <1>6 DEF Own
  <2> QED
    BY <1>4, <2>2, <2>3 DEF Due
<1> QED
  BY <1>5, <1>6

\* The edge wakes the modules of its domain, and only those.
LEMMA PostEdgeDue ==
    ASSUME TypeOK, PlanValid, Schedule, post_edge_settle,
           NEW t \in Spawned, IsSeq(body[t]), birth[t] # None
    PROVE  Due(t)'
<1>1. /\ stage = "edge" /\ stage' = "post" /\ dom' = dom /\ clk' = [clk EXCEPT ![dom] = @ + 1]
      /\ phase' = [phase EXCEPT ![dom] = "PostEdge"]
      /\ poll_tasks /\ n' = n /\ body' = body
      /\ pc' = pc /\ target' = target /\ birth' = birth /\ crossed' = crossed
  BY DEF post_edge_settle, set_poll_phase, clock_advance, futVars
<1>2. Todo(t)' /\ Due(t)
  BY <1>1, PollTasksCovers DEF Schedule
<1>3. dom \in Domain
  BY DEF TypeOK, PassTypeOK
<1>4. CASE body[t].dom = dom
  <2>1. Lockstep(t) /\ Waiting(t)
    BY <1>1, <1>2, <1>4 DEF Due, Own
  <2>2. clk'[dom] = clk[dom] + 1
    BY <1>1, <1>3 DEF TypeOK, ClockTypeOK
  <2>3. OneBehind(t)'
    BY <1>1, <1>4, <2>1, <2>2, StartedTypes DEF Lockstep, OneBehind
  <2>4. Woken(t)'
    BY <1>1, <1>4, <2>1, <2>2 DEF Waiting, Woken, Instr
  <2>5. Own(t)' /\ stage' = "post"
    BY <1>1, <1>4 DEF Own
  <2> QED
    BY <1>2, <2>3, <2>4, <2>5 DEF Due
<1>5. CASE body[t].dom # dom
  <2>1. clk'[body[t].dom] = clk[body[t].dom] /\ phase'[body[t].dom] = phase[body[t].dom]
    BY <1>1, <1>5, StartedTypes DEF TypeOK, ClockTypeOK
  <2>2. ~Own(t) /\ ~Own(t)'
    BY <1>1, <1>5 DEF Own
  <2>3. Lockstep(t) /\ Parked(t)
    BY <1>2, <2>2 DEF Due
  <2>4. Lockstep(t)' /\ Parked(t)'
    BY <1>1, <2>1, <2>3, SamePlace
  <2> QED
    BY <2>2, <2>4 DEF Due
<1> QED
  BY <1>4, <1>5

\* A settle that ends has polled everyone: nobody is left behind.
LEMMA ReturnDue ==
    ASSUME TypeOK, Pass, Schedule, Return,
           NEW t \in Spawned, IsSeq(body[t]), birth[t] # None
    PROVE  Due(t)'
<1>1. /\ stage \in Settling /\ running = 0 /\ groups = << >> /\ order = << >>
      /\ stage' = (IF stage = "pre" THEN "edge" ELSE "idle")
      /\ UNCHANGED <<clockVars, dom>> /\ body' = body
      /\ pc' = pc /\ target' = target /\ birth' = birth /\ crossed' = crossed
  BY DEF Return, SettleDone, Pass, futVars, tableVars, histVars
<1>2. ~Todo(t) /\ t # running
  BY <1>1, StartedTypes DEF Todo
<1>3. Due(t)
  BY <1>1 DEF Schedule, Settling
<1>4. /\ Waiting(t)' = Waiting(t) /\ Parked(t)' = Parked(t) /\ Lockstep(t)' = Lockstep(t)
  BY <1>1, SamePlace DEF clockVars
<1>5. CASE stage = "pre" /\ Own(t)
  BY <1>1, <1>2, <1>3, <1>4, <1>5 DEF Due, Own
<1>6. CASE stage = "pre" /\ ~Own(t)
  BY <1>1, <1>2, <1>3, <1>4, <1>6 DEF Due, Own
<1>7. CASE stage \in {"post", "poll"}
  BY <1>1, <1>2, <1>3, <1>4, <1>7 DEF Due, Own
<1> QED
  BY <1>1, <1>5, <1>6, <1>7 DEF Settling

\* Reading, writing and computing happen between two awaits.
LEMMA BusyDue ==
    ASSUME TypeOK, MidRun, Schedule, ReadPort \/ WritePort \/ Compute,
           NEW t \in Spawned, IsSeq(body[t]), birth[t] # None
    PROVE  Due(t)'
<1>1. /\ running # 0 /\ Instr(running).op \in {"read", "write", "let"}
      /\ pc' = [pc EXCEPT ![running] = NextPc(running)]
      /\ UNCHANGED <<clockVars, dom, stage, running, groups, order>> /\ body' = body
      /\ target' = target /\ birth' = birth /\ crossed' = crossed
  BY DEF ReadPort, WritePort, Compute, At, futVars, tableVars, passVars, histVars
<1>2. stage \in Settling /\ Due(t)
  BY <1>1 DEF MidRun, Schedule, Settling
<1>3. Todo(t)' = Todo(t)
  BY <1>1 DEF Todo
<1>4. CASE t # running
  <2>1. pc'[t] = pc[t]
    BY <1>1, <1>4, StartedTypes DEF TypeOK, FutureTypeOK
  <2> QED
    BY <1>1, <1>2, <1>3, <1>4, <2>1, DueFrame
<1>5. CASE t = running
  <2>1. ~Waiting(t) /\ ~Woken(t) /\ ~Parked(t)
    BY <1>1, <1>5 DEF Waiting, Woken, Parked
  <2>2. Lockstep(t)' = Lockstep(t) /\ Own(t)' = Own(t)
    BY <1>1 DEF Lockstep, Own, clockVars
  <2>3. Own(t) /\ Lockstep(t) /\ stage \in {"pre", "post"} /\ (stage = "pre" => Todo(t))
    BY <1>2, <2>1 DEF Due, Own, Settling
  <2>4. stage' = stage /\ t = running'
    BY <1>1, <1>5
  <2> QED
    BY <1>3, <2>2, <2>3, <2>4 DEF Due
<1> QED
  BY <1>4, <1>5

\* A module crosses a tick only in the post-edge settle of its own clock, where it is
\* one edge behind; a barrier lets it through only before that edge.
LEMMA ResumeDue ==
    ASSUME TypeOK, TickCredit, MidRun, Schedule, Resume,
           NEW t \in Spawned, IsSeq(body[t]), birth[t] # None
    PROVE  Due(t)'
<1>1. /\ running # 0 /\ Instr(running).op \in Await /\ Ready(running)
      /\ pc' = [pc EXCEPT ![running] = NextPc(running)]
      /\ target' = [target EXCEPT ![running] = None]
      /\ crossed' = [crossed EXCEPT ![running] = IF At("tick") THEN @ + 1 ELSE @]
      /\ UNCHANGED <<clockVars, dom, stage, running, groups, order>> /\ body' = body
      /\ birth' = birth
  BY DEF Resume, tableVars, passVars
<1>2. stage \in Settling /\ Due(t)
  BY <1>1 DEF MidRun, Schedule, Settling
<1>3. Todo(t)' = Todo(t)
  BY <1>1 DEF Todo
<1>4. CASE t # running
  <2>1. pc'[t] = pc[t] /\ target'[t] = target[t] /\ crossed'[t] = crossed[t]
    BY <1>1, <1>4, StartedTypes DEF TypeOK, FutureTypeOK, HistTypeOK
  <2> QED
    BY <1>1, <1>2, <1>3, <1>4, <2>1, DueFrame
<1>5. CASE t = running
  <2>1. Own(t)' = Own(t) /\ stage' = stage /\ t = running'
    BY <1>1, <1>5 DEF Own
  <2>2. crossed'[t] = IF Instr(t).op = "tick" THEN crossed[t] + 1 ELSE crossed[t]
    BY <1>1, <1>5, StartedTypes DEF TypeOK, HistTypeOK, At
  <2>3. CASE Instr(t).op = "tick"
    <3>1. target[t] # None /\ clk[body[t].dom] >= target[t]
      BY <1>1, <1>5, <2>3 DEF Ready, tick_ready
    <3>2. birth[t] + crossed[t] < clk[body[t].dom]
      BY <3>1, StartedTypes DEF TickCredit
    <3>3. ~Lockstep(t)
      BY <3>2, StartedTypes DEF Lockstep
    <3>4. Own(t) /\ stage = "post" /\ OneBehind(t)
      BY <1>2, <3>3 DEF Due, Own, Settling
    <3>5. Lockstep(t)'
      BY <1>1, <2>2, <2>3, <3>4, StartedTypes DEF Lockstep, OneBehind, clockVars
    <3> QED
      BY <2>1, <3>4, <3>5 DEF Due
  <2>4. CASE Instr(t).op # "tick"
    <3>1. Instr(t).op = "barrier"
      <4>1. pc[t] \in 1..Len(body[t].code)
        BY DEF TypeOK, FutureTypeOK
      <4>2. Instr(t).op # "yield"
        BY <4>1, ModuleKindAssumption, StartedTypes DEF Instr
      <4> QED
        BY <1>1, <1>5, <2>4, <4>2 DEF Await
    <3>2. phase[body[t].dom] = "PreEdge"
      BY <1>1, <1>5, <3>1 DEF Ready, barrier_ready
    <3>3. ~Waiting(t) /\ ~Woken(t) /\ ~Parked(t)
      BY <3>1, <3>2 DEF Waiting, Woken, Parked
    <3>4. Lockstep(t)' = Lockstep(t)
      BY <1>1, <2>2, <3>1 DEF Lockstep, clockVars
    <3>5. Own(t) /\ Lockstep(t) /\ stage \in {"pre", "post"} /\ (stage = "pre" => Todo(t))
      BY <1>2, <3>3 DEF Due, Own, Settling
    <3> QED
      BY <1>3, <2>1, <3>4, <3>5 DEF Due
  <2> QED
    BY <2>3, <2>4
<1> QED
  BY <1>4, <1>5

\* A module that suspends waits for the next edge, or at a barrier for the next tick,
\* and has crossed every edge so far.
LEMMA SuspendDue ==
    ASSUME TypeOK, TickCredit, PlanInv, Signals, MidRun, NextEdge, Schedule, Suspend,
           NEW t \in Spawned, IsSeq(body[t]), birth'[t] # None
    PROVE  Due(t)'
<1> DEFINE now == clk[body[t].dom]
<1>1. /\ running # 0 /\ Instr(running).op \in Await /\ ~Ready(running)
      /\ target' = [target EXCEPT ![running] =
                      IF At("tick") /\ @ = None THEN clk[body[running].dom] + 1 ELSE @]
      /\ birth' = [birth EXCEPT ![running] = IF @ = None THEN clk[body[running].dom] ELSE @]
      /\ order' = Tail(order) /\ running' = 0
      /\ UNCHANGED <<clockVars, dom, stage, groups>> /\ body' = body
      /\ pc' = pc /\ crossed' = crossed
  BY DEF Suspend, tick_target, tableVars
<1>2. stage \in Settling /\ (birth[t] # None => Due(t))
  BY <1>1 DEF MidRun, Schedule, Settling
<1>3. CASE t # running
  <2>1. target'[t] = target[t] /\ birth'[t] = birth[t]
    BY <1>1, <1>3, StartedTypes DEF TypeOK, FutureTypeOK, HistTypeOK
  <2>2. Todo(t) => Todo(t)'
    BY <1>1, <1>3, TodoSuspend DEF PlanInv
  <2> QED
    BY <1>1, <1>2, <1>3, <2>1, <2>2, DueFrame
<1>4. CASE t = running
  <2>1. /\ target'[t] = IF Instr(t).op = "tick" /\ target[t] = None THEN now + 1 ELSE target[t]
        /\ birth'[t] = IF birth[t] = None THEN now ELSE birth[t]
    BY <1>1, <1>4, StartedTypes DEF TypeOK, FutureTypeOK, HistTypeOK, At
  <2>2. Instr(t).op \in {"tick", "barrier"}
    <3>1. pc[t] \in 1..Len(body[t].code)
      BY DEF TypeOK, FutureTypeOK
    <3>2. Instr(t).op # "yield"
      BY <3>1, ModuleKindAssumption, StartedTypes DEF Instr
    <3> QED
      BY <1>1, <1>4, <3>2 DEF Await
  <2>3. Own(t)' = Own(t) /\ stage' = stage /\ clk' = clk /\ phase' = phase
    BY <1>1 DEF Own, clockVars
  <2>4. ASSUME birth[t] # None
        PROVE  Lockstep(t)
    <3>1. CASE Own(t) /\ stage = "post" /\ OneBehind(t) /\ Woken(t)
      <4>1. resolving[body[t].dom] /\ target[t] = clk[body[t].dom] /\ Instr(t).op = "tick"
        BY <3>1 DEF Signals, Own, Woken
      <4>2. target[t] # None
        BY <4>1, StartedTypes, NoneIsNoNumber
      <4>3. Ready(t)
        BY <4>1, <4>2, StartedTypes DEF Ready, tick_ready
      <4> QED
        BY <1>1, <1>4, <4>3
    <3> QED
      BY <1>2, <2>4, <3>1 DEF Due, Own, Settling
  <2>5. Lockstep(t)'
    <3>1. CASE birth[t] = None
      <4>1. crossed[t] = 0
        BY <3>1 DEF TickCredit
      <4> QED
        BY <1>1, <2>1, <2>3, <3>1, <4>1, StartedTypes DEF Lockstep
    <3>2. CASE birth[t] # None
      BY <1>1, <2>1, <2>3, <2>4, <3>2 DEF Lockstep
    <3> QED
      BY <3>1, <3>2
  <2>6. CASE Instr(t).op = "tick"
    <3>1. target[t] # None => target[t] = now + 1
      <4> SUFFICES ASSUME target[t] # None PROVE target[t] = now + 1
        OBVIOUS
      <4>1. birth[t] # None /\ birth[t] + crossed[t] < target[t]
        BY DEF TickCredit
      <4>2. target[t] <= now + 1
        BY DEF NextEdge
      <4>3. birth[t] + crossed[t] = now
        BY <2>4, <4>1 DEF Lockstep
      <4> QED
        BY <4>1, <4>2, <4>3, StartedTypes
    <3>2. Waiting(t)'
      BY <1>1, <2>1, <2>3, <2>6, <3>1 DEF Waiting, Instr
    <3> QED
      BY <2>5, <3>2 DEF Due, Parked
  <2>7. CASE Instr(t).op = "barrier"
    <3>1. phase[body[t].dom] = "PostEdge"
      BY <1>1, <1>4, <2>7, StartedTypes DEF Ready, barrier_ready
    <3>2. Parked(t)'
      BY <1>1, <2>3, <2>7, <3>1 DEF Parked, Instr
    <3>3. Own(t)' => stage' \notin {"pre", "edge"}
      BY <1>2, <2>3, <3>1 DEF Signals, Own, Settling
    <3> QED
      BY <2>5, <3>2, <3>3 DEF Due, Own
  <2> QED
    BY <2>2, <2>6, <2>7
<1> QED
  BY <1>3, <1>4

\* Every step keeps every module on schedule, as long as clocks only advance in ticks.
LEMMA ScheduleStep ==
    ASSUME "advance" \notin Calls, TypeOK, Fresh, TickCredit, PlanInv, Signals, MidRun, NextEdge,
           Schedule, [Next]_vars
    PROVE  Schedule'
<1>0. PlanValid /\ Pass
  BY DEF PlanInv
<1>1. ASSUME n' = n, body' = body,
             \A t \in Spawned : IsSeq(body[t]) /\ birth'[t] # None => Due(t)'
      PROVE  Schedule'
  BY <1>1, SameTable DEF Schedule, IsSeq
<1>2. ASSUME UNCHANGED <<n, body, pc, target, birth, crossed, clockVars, dom, stage>>,
             \A t \in Spawned : (Todo(t) => Todo(t)') /\ (t = running => t = running')
      PROVE  Schedule'
  <2>1. CASE stage # "panic"
    BY <1>1, <1>2, <2>1, DueFrame DEF Schedule
  <2> QED
    BY <1>2, <2>1 DEF Schedule
<1>3. CASE \E b \in Body : spawn_wired(b)
  BY <1>3, SpawnDue
<1>4. CASE (\E d \in Domain : pre_edge_settle(d)) \/ post_edge_settle \/ Return
  <2>1. n' = n /\ body' = body /\ birth' = birth
    BY <1>4 DEF pre_edge_settle, post_edge_settle, Return, tableVars, histVars
  <2> QED
    BY <1>0, <1>1, <1>4, <2>1, PreEdgeDue, PostEdgeDue, ReturnDue
<1>5. CASE BarePoll
  <2>1. /\ stage = "idle" /\ stage' = "poll" /\ clk' = clk /\ phase' = phase
        /\ n' = n /\ body' = body /\ pc' = pc /\ target' = target /\ birth' = birth
        /\ crossed' = crossed
    BY <1>5 DEF BarePoll, clockVars, futVars
  <2>2. \A t \in Spawned : ~Own(t) /\ ~Own(t)'
    BY <2>1 DEF Own
  <2>3. \A t \in Spawned : Lockstep(t) /\ Parked(t) => Lockstep(t)' /\ Parked(t)'
    BY <2>1, SamePlace
  <2> QED
    BY <1>1, <2>1, <2>2, <2>3 DEF Schedule, Due
<1>6. CASE (\E w \in External, v \in Value : Drive(w, v)) \/ Poll
           \/ (\E m \in Modes, o \in PollOrders : set_scheduler_mode(m, o)) \/ UNCHANGED vars
  <2>1. /\ UNCHANGED <<n, body, pc, target, birth, crossed, clockVars, dom, stage, groups, order>>
        /\ running' = running \/ running = 0
    BY <1>6 DEF Drive, Poll, set_scheduler_mode, vars, tableVars, passVars, futVars, histVars, clockVars
  <2>2. \A t \in Spawned : Todo(t) => Todo(t)'
    BY <2>1 DEF Todo
  <2> QED
    BY <1>2, <2>1, <2>2, StartedTypes
<1>7. CASE ReadPort \/ WritePort \/ Compute \/ Resume
  <2>1. n' = n /\ body' = body /\ birth' = birth
    BY <1>7 DEF ReadPort, WritePort, Compute, Resume, tableVars, histVars
  <2> QED
    BY <1>1, <1>7, <2>1, BusyDue, ResumeDue
<1>8. CASE Suspend
  <2>1. n' = n /\ body' = body
    BY <1>8 DEF Suspend, tableVars
  <2> QED
    BY <1>1, <1>8, <2>1, SuspendDue
<1>9. CASE GroupSettled \/ Iterate
  <2> DEFINE gs == IF GroupSettled THEN Tail(groups) ELSE groups
  <2>1. /\ PassDone /\ UNCHANGED <<n, body, pc, target, birth, crossed, clockVars, dom, stage>>
        /\ \E d : BeginPass(gs, d)
    BY <1>9 DEF GroupSettled, Iterate, tableVars, futVars, histVars
  <2>2. gs \in {groups, Tail(groups)}
    OBVIOUS
  <2> HIDE DEF gs
  <2>3. \A t : Todo(t) => Todo(t)'
    BY <2>1, <2>2, TodoNextPass
  <2>4. running = 0
    BY <2>1 DEF PassDone
  <2> QED
    BY <1>2, <2>1, <2>3, <2>4, StartedTypes
<1>10. CASE Panic
  BY <1>10 DEF Panic, Schedule
<1>11. \A d \in Domain : ~advance(d)
  BY DEF advance
<1> QED
  BY <1>3, <1>4, <1>5, <1>6, <1>7, <1>8, <1>9, <1>10, <1>11 DEF Next, Caller, Settle

-----------------------------------------------------------------------------
\* The invariants the theorems below rest on, and that tick_clock and poll_tasks keep.
ClockInv == TickCredit /\ PlanInv /\ Signals /\ MidRun /\ NextEdge /\ Schedule

\* They hold of a new executor.
LEMMA ClockInvInit == Init => ClockInv
<1> SUFFICES ASSUME Init PROVE ClockInv
  OBVIOUS
<1>1. n = 0 /\ Spawned = {} /\ stage = "idle" /\ running = 0
  BY DEF Init, Spawned
<1>2. Signals
  BY <1>1 DEF Init, ClockInit, Signals
<1> QED
  BY <1>1, <1>2, PlanInit DEF ClockInv, TickCredit, MidRun, NextEdge, Schedule

\* They hold throughout.
LEMMA ClockInvariant ==
    ASSUME "advance" \notin Calls
    PROVE  Spec => [](TypeOK /\ ClockInv)
<1>1. ASSUME TypeOK, Fresh, ClockInv, [Next]_vars
      PROVE  ClockInv'
  BY <1>1, CreditKept, PlanStep, SignalsStep, MidRunStep, NextEdgeStep, ScheduleStep
     DEF ClockInv, PlanInv
<1> QED
  BY <1>1, ClockInvInit, TypeCorrect, PTL DEF Spec

\* Between two calls every sequential module has crossed exactly one tick().await per
\* edge of its clock since it started, in any number of domains ticked in any order,
\* under either scheduler and any poll order (tick_clock, ClockTick::poll).
THEOREM OneTickPerEdge ==
    ASSUME "advance" \notin Calls
    PROVE  Spec => []LockstepTicks
<1>1. ASSUME TypeOK, ClockInv
      PROVE  LockstepTicks
  <2> SUFFICES ASSUME stage = "idle", NEW t \in Spawned, birth[t] # None, IsSeq(body[t])
               PROVE  crossed[t] = clk[body[t].dom] - birth[t]
    BY DEF LockstepTicks
  <2>1. Lockstep(t)
    BY <1>1 DEF ClockInv, Schedule, Due, Own
  <2> QED
    BY <1>1, <2>1, StartedTypes DEF Lockstep
<1> QED
  BY <1>1, ClockInvariant, PTL

\* A module that has started is not moved by the settles of another domain: it is
\* parked on a signal that only its own domain's tick raises (POLL_PHASE, TICK_RESOLVING).
THEOREM DomainsIsolated ==
    ASSUME "advance" \notin Calls
    PROVE  Spec => DomainIsolation
<1>1. ASSUME TypeOK, ClockInv, [Next]_vars, NEW t \in Spawned, stage \in {"pre", "post"},
             body[t].dom # dom, IsSeq(body[t]), birth[t] # None
      PROVE  pc'[t] = pc[t] /\ acc'[t] = acc[t]
  <2>1. Parked(t)
    BY <1>1 DEF ClockInv, Schedule, Due, Own
  <2>2. Instr(t).op \in Await /\ ~Ready(t)
    BY <1>1, <2>1, StartedTypes DEF Parked, Waiting, Ready, tick_ready, barrier_ready, Await
  <2>3. CASE ReadPort \/ WritePort \/ Compute
    <3>1. running # t /\ \E p, a : /\ pc' = [pc EXCEPT ![running] = p]
                                   /\ acc' = acc \/ acc' = [acc EXCEPT ![running] = a]
      BY <2>2, <2>3 DEF ReadPort, WritePort, Compute, At, Await
    <3> QED
      BY <1>1, <3>1, StartedTypes DEF TypeOK, FutureTypeOK
  <2>4. CASE Resume
    <3>1. running # t /\ acc' = acc /\ pc' = [pc EXCEPT ![running] = NextPc(running)]
      BY <2>2, <2>4 DEF Resume
    <3> QED
      BY <1>1, <3>1, StartedTypes DEF TypeOK, FutureTypeOK
  <2>5. CASE Suspend \/ (\E b \in Body : spawn_wired(b))
             \/ UNCHANGED <<n, body, futVars, birth, crossed>>
    BY <2>5 DEF Suspend, spawn_wired, futVars
  <2> QED
    BY <1>1, <2>3, <2>4, <2>5, StepKinds
<1>2. TypeOK /\ ClockInv /\ [Next]_vars =>
        [\A t \in Spawned :
            /\ stage \in {"pre", "post"} /\ body[t].dom # dom
            /\ IsSeq(body[t]) /\ birth[t] # None
            => <<pc[t], acc[t]>>' = <<pc[t], acc[t]>>]_vars
  BY <1>1
<1> QED
  BY <1>2, ClockInvariant, PTL DEF Spec, DomainIsolation

\* A Deferred read samples its wire before the edge: the barrier in front of it opens
\* only in the pre-edge settle of the module's own clock, or before that clock's first
\* edge (PreEdgeBarrier::poll).
THEOREM DeferredReadsSample ==
    ASSUME "advance" \notin Calls
    PROVE  Spec => DeferredReadsAtOwnPreEdge
<1>1. ASSUME TypeOK, ClockInv, ReadPort, pc[running] > 1,
             body[running].code[pc[running] - 1].op = "barrier"
      PROVE  (stage = "pre" /\ dom = body[running].dom) \/ clk[body[running].dom] = 0
  <2>1. running \in Spawned /\ running # 0 /\ body[running].dom \in Domain
        /\ Instr(running).op \notin Await
    BY <1>1, InstrType DEF ReadPort, At, Await
  <2>2. stage \in Settling /\ phase[body[running].dom] = "PreEdge"
    BY <1>1, <2>1 DEF ClockInv, MidRun
  <2> QED
    BY <1>1, <2>1, <2>2 DEF ClockInv, Signals, Settling
<1>2. TypeOK /\ ClockInv /\ [Next]_vars =>
        [ReadPort /\ pc[running] > 1 /\ body[running].code[pc[running] - 1].op = "barrier"
           => \/ stage = "pre" /\ dom = body[running].dom
              \/ clk[body[running].dom] = 0]_vars
  BY <1>1
<1> QED
  BY <1>2, ClockInvariant, PTL DEF Spec, DeferredReadsAtOwnPreEdge
=============================================================================
