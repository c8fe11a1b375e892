----------------------------- MODULE TwinsProofs -----------------------------
(***************************************************************************)
(* The order in which the levelized scheduler polls changes nothing that a *)
(* testbench sees: two copies of one design always agree.                  *)
(***************************************************************************)
EXTENDS Twins, ExecutorReadsProofs

(***************************************************************************)
(* One poll as a run of a deterministic machine.  What a module can see    *)
(* and change on its own is a record: its future, and what its write       *)
(* instructions have last put on their wires.                              *)
(***************************************************************************)

Held(w) == IF w \in Registered THEN pending[w] ELSE cell[w]

Local(t) ==
    [pc |-> pc[t], acc |-> acc[t], target |-> target[t],
     yielded |-> IF yielded[t] THEN 1 ELSE 0,
     held |-> [k \in 1..Len(body[t].code) |->
                  IF body[t].code[k].op = "write" THEN Held(body[t].code[k].wire) ELSE None]]

\* What the clocks tell a future: the edges they have reached, the next one, and whether
\* barriers are open.
ClockView ==
    [due |-> [d \in Domain |-> {x \in Nat : tick_ready(d, x)}],
     next |-> [d \in Domain |-> tick_target(d)],
     open |-> {d \in Domain : barrier_ready(d)}]

\* In state l the future of b is at an await that is not ready.
Halts(b, view, l) ==
    \/ b.code[l.pc].op = "tick" /\ (l.target = None \/ l.target \notin view.due[b.dom])
    \/ b.code[l.pc].op = "barrier" /\ b.dom \notin view.open
    \/ b.code[l.pc].op = "yield" /\ l.yielded = 0

\* The step b makes from l, when it reads the values e.
Moved(b, e, l) ==
    [pc |-> (l.pc % Len(b.code)) + 1,
     acc |-> CASE b.code[l.pc].op = "read" -> Apply(b.code[l.pc].fn, l.acc, e[b.code[l.pc].wire])
               [] b.code[l.pc].op = "let"  -> Apply(b.code[l.pc].fn, l.acc, l.acc)
               [] OTHER -> l.acc,
     target |-> IF b.code[l.pc].op \in Await THEN None ELSE l.target,
     yielded |-> IF b.code[l.pc].op \in Await THEN 0 ELSE l.yielded,
     held |-> [k \in 1..Len(b.code) |->
                  IF /\ b.code[l.pc].op = "write" /\ b.code[k].op = "write"
                     /\ b.code[k].wire = b.code[l.pc].wire
                  THEN l.acc ELSE l.held[k]]]

\* How b waits once it halts.
Parks(b, view, l) ==
    [pc |-> l.pc, acc |-> l.acc, held |-> l.held,
     target |-> IF b.code[l.pc].op = "tick" /\ l.target = None THEN view.next[b.dom] ELSE l.target,
     yielded |-> IF b.code[l.pc].op = "yield" THEN 1 ELSE 0]

\* tr is a run of m steps of b from s; e holds everything it reads.
Run(b, view, e, s, m, tr) ==
    /\ m \in Nat
    /\ tr[0] = s
    /\ \A i \in 0..m :
          /\ tr[i].pc \in 1..Len(b.code)
          /\ DOMAIN tr[i].held = 1..Len(b.code)
    /\ \A i \in 0..(m - 1) :
          /\ ~Halts(b, view, tr[i])
          /\ b.code[tr[i].pc].op = "read" => e[b.code[tr[i].pc].wire] # None
          /\ tr[i + 1] = Moved(b, e, tr[i])

-----------------------------------------------------------------------------
\* The empty run.
LEMMA RunStart ==
    ASSUME NEW b, NEW view, NEW e, NEW s, s.pc \in 1..Len(b.code), DOMAIN s.held = 1..Len(b.code)
    PROVE  \E m, tr : Run(b, view, e, s, m, tr) /\ tr[m] = s
<1>1. Run(b, view, e, s, 0, [i \in {0} |-> s])
  BY DEF Run
<1>2. [i \in {0} |-> s][0] = s
  OBVIOUS
<1> QED
  BY <1>1, <1>2

\* A run goes on.
LEMMA RunOn ==
    ASSUME NEW b, NEW view, NEW e, NEW s, NEW m, NEW tr, Run(b, view, e, s, m, tr),
           ~Halts(b, view, tr[m]),
           b.code[tr[m].pc].op = "read" => e[b.code[tr[m].pc].wire] # None,
           Len(b.code) \in Nat
    PROVE  \E k, tq : Run(b, view, e, s, k, tq) /\ tq[k] = Moved(b, e, tr[m])
<1> DEFINE l == Moved(b, e, tr[m])
           tq == [i \in 0..(m + 1) |-> IF i = m + 1 THEN l ELSE tr[i]]
<1>1. m \in Nat /\ tr[m].pc \in 1..Len(b.code)
  BY DEF Run
<1>2. l.pc \in 1..Len(b.code) /\ DOMAIN l.held = 1..Len(b.code)
  <2>1. l.pc = (tr[m].pc % Len(b.code)) + 1 /\ DOMAIN l.held = 1..Len(b.code)
    BY DEF Moved
  <2>2. (tr[m].pc % Len(b.code)) + 1 \in 1..Len(b.code)
    <3>1. \A x, y \in Nat : y # 0 => (x % y) + 1 \in 1..y
      OBVIOUS
    <3> QED
      BY <1>1, <3>1
  <2> QED
    BY <2>1, <2>2
<1>3. tq[m + 1] = l /\ \A i \in 0..m : tq[i] = tr[i]
  BY <1>1
<1> HIDE DEF tq
<1>4. Run(b, view, e, s, m + 1, tq)
  <2>1. tq[0] = s
    BY <1>1, <1>3 DEF Run
  <2>2. ASSUME NEW i \in 0..(m + 1)
        PROVE  tq[i].pc \in 1..Len(b.code) /\ DOMAIN tq[i].held = 1..Len(b.code)
    <3>1. i = m + 1 \/ i \in 0..m
      BY <1>1
    <3> QED
      BY <1>2, <1>3, <3>1 DEF Run
  <2>3. ASSUME NEW i \in 0..m
        PROVE  /\ ~Halts(b, view, tq[i])
               /\ b.code[tq[i].pc].op = "read" => e[b.code[tq[i].pc].wire] # None
               /\ tq[i + 1] = Moved(b, e, tq[i])
    <3>1. CASE i = m
      BY <1>3, <3>1
    <3>2. CASE i \in 0..(m - 1)
      <4>1. i + 1 \in 0..m
        BY <1>1, <3>2
      <4> QED
        BY <1>3, <3>2, <4>1 DEF Run
    <3> QED
      BY <1>1, <3>1, <3>2
  <2> QED
    BY <1>1, <2>1, <2>2, <2>3 DEF Run
<1> QED
  BY <1>3, <1>4

\* More values known make no difference to a run.
LEMMA RunKeeps ==
    ASSUME NEW b, NEW view, NEW e, NEW f, NEW s, NEW m, NEW tr, Run(b, view, e, s, m, tr),
           \A k \in 1..Len(b.code) : b.code[k].op = "read" /\ e[b.code[k].wire] # None
              => f[b.code[k].wire] = e[b.code[k].wire]
    PROVE  Run(b, view, f, s, m, tr)
<1>1. ASSUME NEW i \in 0..(m - 1)
      PROVE  /\ b.code[tr[i].pc].op = "read" => f[b.code[tr[i].pc].wire] # None
             /\ tr[i + 1] = Moved(b, f, tr[i])
  <2>1. /\ tr[i].pc \in 1..Len(b.code)
        /\ b.code[tr[i].pc].op = "read" => e[b.code[tr[i].pc].wire] # None
        /\ tr[i + 1] = Moved(b, e, tr[i])
    <3>1. m \in Nat /\ i \in 0..m
      BY DEF Run
    <3> QED
      BY <3>1 DEF Run
  <2>2. b.code[tr[i].pc].op = "read" => f[b.code[tr[i].pc].wire] = e[b.code[tr[i].pc].wire]
    BY <2>1
  <2>3. Moved(b, f, tr[i]) = Moved(b, e, tr[i])
    BY <2>2 DEF Moved
  <2> QED
    BY <2>1, <2>2, <2>3
<1> QED
  BY <1>1 DEF Run

\* A copy makes the same steps, if it reads the same.
LEMMA CopySteps ==
    ASSUME NEW b \in Body, NEW c \in Body, IsCopy(b, c), NEW l, l.pc \in 1..Len(b.code),
           NEW e, NEW f,
           b.code[l.pc].op = "read" => e[b.code[l.pc].wire] = f[c.code[l.pc].wire]
    PROVE  Moved(b, e, l) = Moved(c, f, l)
<1> DEFINE p == l.pc
<1>1. /\ c.dom = b.dom /\ Len(c.code) = Len(b.code)
      /\ \A k \in 1..Len(b.code) : c.code[k].op = b.code[k].op /\ c.code[k].fn = b.code[k].fn
  BY DEF IsCopy
<1>2. ASSUME NEW k \in 1..Len(b.code), b.code[p].op = "write", b.code[k].op = "write"
      PROVE  b.code[k].wire = b.code[p].wire <=> c.code[k].wire = c.code[p].wire
  <2>1. b.code[k].wire \in Wire /\ b.code[p].wire \in Wire
    BY BodyAssumption
  <2>2. c.code[k].wire = twin[b.code[k].wire] /\ c.code[p].wire = twin[b.code[p].wire]
    BY <1>2 DEF IsCopy
  <2> QED
    BY <2>1, <2>2, TwinAssumption
<1>3. Moved(b, e, l).held = Moved(c, f, l).held
  BY <1>1, <1>2 DEF Moved
<1> DEFINE x == Moved(b, e, l)
           y == Moved(c, f, l)
<1>4. x = y
  <2>1. /\ c.code[p].op = b.code[p].op /\ c.code[p].fn = b.code[p].fn
        /\ b.code[p].op = "read" => e[b.code[p].wire] = f[c.code[p].wire]
    BY <1>1
  <2>2. x.pc = y.pc /\ x.target = y.target /\ x.yielded = y.yielded
    BY <1>1, <2>1 DEF Moved
  <2>3. x.acc = y.acc
    BY <2>1 DEF Moved
  <2>4. /\ x = [pc |-> x.pc, acc |-> x.acc, target |-> x.target, yielded |-> x.yielded, held |-> x.held]
        /\ y = [pc |-> y.pc, acc |-> y.acc, target |-> y.target, yielded |-> y.yielded, held |-> y.held]
    BY DEF Moved
  <2>5. x.held = y.held
    BY <1>3
  <2> HIDE DEF x, y
  <2> QED
    BY <2>2, <2>3, <2>4, <2>5
<1> QED
  BY <1>4

\* It waits where the original waits.
LEMMA CopyWaits ==
    ASSUME NEW b, NEW c, IsCopy(b, c), NEW view, NEW l, l.pc \in 1..Len(b.code)
    PROVE  /\ Halts(b, view, l) <=> Halts(c, view, l)
           /\ Parks(b, view, l) = Parks(c, view, l)
<1>1. c.dom = b.dom /\ c.code[l.pc].op = b.code[l.pc].op
  BY DEF IsCopy
<1> QED
  BY <1>1 DEF Halts, Parks

\* Two runs of copies from the same state go through the same states.
LEMMA RunsAgree ==
    ASSUME NEW b \in Body, NEW c \in Body, IsCopy(b, c), NEW view, NEW e, NEW f, NEW s,
           NEW i, NEW tr, Run(b, view, e, s, i, tr), NEW j, NEW tq, Run(c, view, f, s, j, tq),
           \A k \in 1..Len(b.code) :
              /\ b.code[k].op = "read"
              /\ e[b.code[k].wire] # None /\ f[c.code[k].wire] # None
              => e[b.code[k].wire] = f[c.code[k].wire]
    PROVE  \A k \in Nat : k <= i /\ k <= j => tr[k] = tq[k]
<1>a. ASSUME NEW l, l.pc \in 1..Len(b.code),
             b.code[l.pc].op = "read" => e[b.code[l.pc].wire] = f[c.code[l.pc].wire]
      PROVE  Moved(b, e, l) = Moved(c, f, l)
  BY <1>a, CopySteps
<1> DEFINE P == {k \in Nat : k <= i /\ k <= j => tr[k] = tq[k]}
<1>0. i \in Nat /\ j \in Nat
  BY DEF Run
<1>1. 0 \in P
  BY DEF Run
<1>2. ASSUME NEW k \in P
      PROVE  k + 1 \in P
  <2> SUFFICES ASSUME k + 1 <= i, k + 1 <= j PROVE tr[k + 1] = tq[k + 1]
    OBVIOUS
  <2>1. k \in 0..(i - 1) /\ k \in 0..(j - 1) /\ k \in 0..i /\ tr[k] = tq[k]
    BY <1>0
  <2>2. /\ tr[k].pc \in 1..Len(b.code)
        /\ b.code[tr[k].pc].op = "read" => e[b.code[tr[k].pc].wire] # None
        /\ tr[k + 1] = Moved(b, e, tr[k])
        /\ c.code[tq[k].pc].op = "read" => f[c.code[tq[k].pc].wire] # None
        /\ tq[k + 1] = Moved(c, f, tq[k])
    BY <2>1 DEF Run
  <2>3. c.code[tr[k].pc].op = b.code[tr[k].pc].op
    BY <2>2 DEF IsCopy
  <2>4. b.code[tr[k].pc].op = "read" => e[b.code[tr[k].pc].wire] = f[c.code[tr[k].pc].wire]
    BY <2>1, <2>2, <2>3
  <2>5. tr[k + 1] = Moved(b, e, tr[k]) /\ tq[k + 1] = Moved(c, f, tr[k])
    BY <2>1, <2>2
  <2>6. Moved(b, e, tr[k]) = Moved(c, f, tr[k])
    BY <1>a, <2>2, <2>4
  <2> QED
    BY <2>5, <2>6
<1>3. P = Nat
  BY <1>1, <1>2, NatSetInduction
<1> QED
  BY <1>3

\* So they end in the same state when they end because they halt.
LEMMA RunsEndAlike ==
    ASSUME NEW b \in Body, NEW c \in Body, IsCopy(b, c), NEW view, NEW e, NEW f, NEW s,
           NEW i, NEW tr, Run(b, view, e, s, i, tr), Halts(b, view, tr[i]),
           NEW j, NEW tq, Run(c, view, f, s, j, tq), Halts(c, view, tq[j]),
           \A k \in 1..Len(b.code) :
              /\ b.code[k].op = "read"
              /\ e[b.code[k].wire] # None /\ f[c.code[k].wire] # None
              => e[b.code[k].wire] = f[c.code[k].wire]
    PROVE  tr[i] = tq[j] /\ tr[i].pc \in 1..Len(b.code)
<1>0. i \in Nat /\ j \in Nat
  BY DEF Run
<1>1. \A k \in Nat : k <= i /\ k <= j => tr[k] = tq[k]
  BY RunsAgree
<1>2. \A l : l.pc \in 1..Len(b.code) => (Halts(b, view, l) <=> Halts(c, view, l))
  BY CopyWaits
<1>3. ~(i < j)
  <2> SUFFICES ASSUME i < j PROVE FALSE
    OBVIOUS
  <2>1. tr[i] = tq[i] /\ i \in 0..(j - 1) /\ tr[i].pc \in 1..Len(b.code)
    BY <1>0, <1>1 DEF Run
  <2>2. ~Halts(c, view, tq[i])
    BY <2>1 DEF Run
  <2> QED
    BY <1>2, <2>1, <2>2
<1>4. ~(j < i)
  <2> SUFFICES ASSUME j < i PROVE FALSE
    OBVIOUS
  <2>1. tr[j] = tq[j] /\ j \in 0..(i - 1) /\ j \in 0..i /\ tr[j].pc \in 1..Len(b.code)
    BY <1>0, <1>1 DEF Run
  <2>2. ~Halts(b, view, tr[j])
    BY <2>1 DEF Run
  <2> QED
    BY <1>2, <2>1, <2>2
<1> QED
  BY <1>0, <1>1, <1>3, <1>4 DEF Run

-----------------------------------------------------------------------------
(***************************************************************************)
(* The inductive invariants.                                               *)
(***************************************************************************)

Acyclic == comb_cycles(tasks, Registered) = {}

\* A whole design: both copies are there, declared as written, without combinational loops.
Sound == Complete /\ WellFormed /\ Acyclic

\* Some module drives w.
Driven(w) == \E t \in Spawned : w \in Writes(body[t])

\* Before its first poll a design is in the state in which it was spawned.
Untouched ==
    running = 0 /\ (\A t \in Spawned : birth[t] = None) =>
        /\ \A t \in Task : pc[t] = 1 /\ acc[t] = InitValue /\ target[t] = None /\ ~yielded[t]
        /\ \A w \in Wire \ External : cell[w] = InitValue
        /\ \A w \in Registered : pending[w] = None

\* An acyclic design is settled one task at a time, and under a current plan.
OneAtATime ==
    stage \in Settling => ~graph_dirty /\ (Acyclic => Len(order) <= 1)

\* The copies wait in the same state.
Same == \A t, u \in Spawned : IsCopy(body[t], body[u]) => Local(t) = Local(u)

\* The copies' wires agree wherever no settle writes them.
Rest ==
    \A w \in Wire :
        /\ w \in Registered \/ ~Driven(w) => cell[twin[w]] = cell[w]
        /\ w \in Registered /\ ~Driven(w) => pending[twin[w]] = pending[w]

\* How far t, which began this settle in the state s, is in it: it has not been polled; it is
\* being polled; or it has been polled, and halted.
Progress(s, t) ==
    \/ Todo(t) /\ t # running /\ Local(t) = s
    \/ /\ t = running
       /\ \E m, tr : Run(body[t], ClockView, seen[t], s, m, tr) /\ tr[m] = Local(t)
    \/ /\ ~Todo(t)
       /\ \E m, tr : /\ Run(body[t], ClockView, seen[t], s, m, tr)
                     /\ Halts(body[t], ClockView, tr[m])
                     /\ Local(t) = Parks(body[t], ClockView, tr[m])

\* The tasks are as far as they are from a common beginning.
UnderWay ==
    \E S : /\ \A t, u \in Spawned : IsCopy(body[t], body[u]) => S[t] = S[u]
           /\ \A t \in Spawned : Progress(S[t], t)

\* Between settles every task is where its copy is; in one, they come from a common start.
TwinInv ==
    Sound => /\ Rest
             /\ stage \in {"idle", "edge"} => Same
             /\ stage \in Settling => UnderWay

-----------------------------------------------------------------------------
\* The wires a module drives, instruction by instruction.
LEMMA WritesDef ==
    ASSUME NEW b, NEW w
    PROVE  w \in Writes(b) <=>
              \E k \in 1..Len(b.code) : b.code[k].op = "write" /\ b.code[k].wire = w
BY DEF Writes, WiresOf

\* In a whole design a wire is driven if its twin is.
LEMMA TwinDriven ==
    ASSUME TypeOK, Complete, NEW w \in Wire, Driven(twin[w])
    PROVE  Driven(w)
<1>1. PICK t \in Spawned : twin[w] \in Writes(body[t])
  BY DEF Driven
<1>2. PICK u \in Spawned : IsCopy(body[t], body[u])
  BY DEF Complete
<1>3. body[t] \in Body /\ body[u] \in Body
  BY DEF TypeOK, TableTypeOK
<1>4. PICK k \in 1..Len(body[t].code) : body[t].code[k].op = "write" /\ body[t].code[k].wire = twin[w]
  BY <1>1, WritesDef
<1>5. body[u].code[k].op = "write" /\ body[u].code[k].wire = w /\ k \in 1..Len(body[u].code)
  BY <1>2, <1>4, TwinAssumption DEF IsCopy
<1>6. w \in Writes(body[u])
  BY <1>5, WritesDef
<1> QED
  BY <1>6 DEF Driven

\* The table decides what design it is.
LEMMA SameDesign ==
    ASSUME n' = n, body' = body
    PROVE  /\ Sound' <=> Sound
           /\ Complete' <=> Complete
           /\ Acyclic' <=> Acyclic
           /\ \A w : Driven(w)' <=> Driven(w)
           /\ Spawned' = Spawned
<1>1. Spawned' = Spawned /\ tasks' = tasks
  BY SameTable
<1>2. Complete' <=> Complete
  BY <1>1 DEF Complete
<1>3. WellFormed' <=> WellFormed
  BY <1>1 DEF WellFormed
<1>4. Acyclic' <=> Acyclic
  BY <1>1 DEF Acyclic
<1>5. \A w : Driven(w)' <=> Driven(w)
  BY <1>1 DEF Driven
<1> QED
  BY <1>1, <1>2, <1>3, <1>4, <1>5 DEF Sound

\* A state that nothing changes.
LEMMA LocalFrame ==
    ASSUME body' = body, NEW t,
           pc'[t] = pc[t], acc'[t] = acc[t], target'[t] = target[t], yielded'[t] = yielded[t],
           \A w \in Writes(body[t]) : Held(w)' = Held(w)
    PROVE  Local(t)' = Local(t)
<1>1. \A k \in 1..Len(body[t].code) : body[t].code[k].op = "write"
         => Held(body[t].code[k].wire)' = Held(body[t].code[k].wire)
  BY WritesDef
<1> QED
  BY <1>1 DEF Local

\* The values at rest stay equal, if a step writes none of them.
LEMMA RestFrame ==
    ASSUME TypeOK, n' = n, body' = body, Complete, Rest,
           \A w \in Wire :
              /\ w \in Registered \/ ~Driven(w) => cell'[w] = cell[w]
              /\ w \in Registered /\ ~Driven(w) => pending'[w] = pending[w]
    PROVE  Rest'
<1>1. \A w : Driven(w)' <=> Driven(w)
  BY SameDesign
<1>2. \A w \in Wire : twin[w] \in Wire /\ (w \in Registered => twin[w] \in Registered)
                      /\ (~Driven(w) => ~Driven(twin[w]))
  BY TwinAssumption, TwinDriven
<1> QED
  BY <1>1, <1>2 DEF Rest

-----------------------------------------------------------------------------
\* A poll leaves its mark, and until then nothing has happened to a design.
LEMMA UntouchedStep ==
    ASSUME TypeOK, MidRun, Untouched, [Next]_vars, n' # n => \A t \in Spawned : birth[t] = None
    PROVE  Untouched'
<1>0. Spawned \subseteq Task /\ running \in Nat
  BY ExecutorAssumption DEF TypeOK, TableTypeOK, PassTypeOK, Spawned, Task
<1>1. ASSUME running = 0, UNCHANGED futVars, \A t \in Spawned : birth'[t] = None => birth[t] = None,
             Spawned \subseteq Spawned',
             (\A t \in Spawned : birth[t] = None) =>
                /\ \A w \in Wire \ External : cell'[w] = cell[w]
                /\ \A w \in Registered : pending'[w] = pending[w]
      PROVE  Untouched'
  BY <1>1 DEF Untouched, futVars
<1>2. CASE running' # 0
  BY <1>2 DEF Untouched
<1>3. CASE Suspend
  <2>1. running \in Spawned /\ running # 0 /\ body[running].dom \in Domain
    BY <1>3, InstrType DEF Suspend
  <2>2. birth'[running] # None
    BY <1>0, <1>3, <2>1, NoneIsNoNumber DEF Suspend, TypeOK, HistTypeOK, ClockTypeOK
  <2>3. Spawned' = Spawned
    BY <1>3, SameTable DEF Suspend, tableVars
  <2> QED
    BY <2>1, <2>2, <2>3 DEF Untouched
<1>4. ASSUME NEW d \in Domain, pre_edge_settle(d) \/ advance(d)
      PROVE  Untouched'
  <2>1. running = 0 /\ UNCHANGED futVars /\ birth' = birth /\ Spawned' = Spawned
    BY <1>0, <1>4, SameTable DEF pre_edge_settle, advance, MidRun, Settling, histVars, tableVars
  <2>2. ASSUME \A t \in Spawned : birth[t] = None, on_posedge(d)
        PROVE  /\ \A w \in Wire : cell'[w] = cell[w]
               /\ \A w \in Registered : pending'[w] = pending[w]
    <3>1. \A w \in Registered : pending[w] = None
      BY <2>1, <2>2 DEF Untouched
    <3> QED
      BY <2>2, <3>1 DEF on_posedge, Committing
  <2>3. UNCHANGED portVars \/ on_posedge(d)
    BY <1>4 DEF pre_edge_settle, advance
  <2> QED
    BY <1>1, <2>1, <2>2, <2>3 DEF portVars
<1>5. CASE post_edge_settle
  <2>1. running = 0 /\ UNCHANGED futVars /\ birth' = birth /\ Spawned' = Spawned /\ on_posedge(dom)
    BY <1>0, <1>5, SameTable DEF post_edge_settle, MidRun, Settling
  <2>2. ASSUME \A t \in Spawned : birth[t] = None
        PROVE  /\ \A w \in Wire : cell'[w] = cell[w]
               /\ \A w \in Registered : pending'[w] = pending[w]
    <3>1. \A w \in Registered : pending[w] = None
      BY <2>1, <2>2 DEF Untouched
    <3> QED
      BY <2>1, <3>1 DEF on_posedge, Committing
  <2> QED
    BY <1>1, <2>1, <2>2
<1>6. ASSUME NEW w \in External, NEW v \in Value, Drive(w, v)
      PROVE  Untouched'
  <2>1. running = 0 /\ UNCHANGED futVars /\ birth' = birth /\ Spawned' = Spawned
        /\ pending' = pending /\ cell' = [cell EXCEPT ![w] = v]
    BY <1>0, <1>6, SameTable DEF Drive, MidRun, Settling, histVars, tableVars, out_write
  <2>2. \A x \in Wire \ External : cell'[x] = cell[x]
    BY <2>1 DEF TypeOK, PortsTypeOK
  <2> QED
    BY <1>1, <2>1, <2>2
<1>7. CASE UNCHANGED <<portVars, futVars, running, birth>> /\ Spawned \subseteq Spawned'
  BY <1>1, <1>2, <1>7 DEF portVars
<1>8. ASSUME NEW b \in Body, spawn_wired(b)
      PROVE  Untouched'
  <2>1. n' = n + 1
    BY <1>8 DEF spawn_wired
  <2>2. Spawned \subseteq Spawned'
    BY <2>1 DEF Spawned, TypeOK, TableTypeOK
  <2> QED
    BY <1>7, <1>8, <2>2 DEF spawn_wired, histVars
<1>9. CASE BarePoll \/ GroupSettled \/ Iterate
  <2>1. running' = 0 /\ running = 0 /\ UNCHANGED <<portVars, futVars, birth>> /\ Spawned' = Spawned
    BY <1>0, <1>9, SameTable DEF BarePoll, poll_tasks, GroupSettled, Iterate, PassDone, BeginPass, MidRun,
                            Settling, histVars, tableVars
  <2> QED
    BY <1>7, <2>1
<1>10. CASE (\E m \in Modes, o \in PollOrders : set_scheduler_mode(m, o)) \/ Panic \/ Return \/ UNCHANGED vars
  <2>1. UNCHANGED <<portVars, futVars, running, birth>> /\ Spawned' = Spawned
    BY <1>10, SameTable DEF set_scheduler_mode, Panic, Return, vars, histVars, tableVars
  <2> QED
    BY <1>7, <2>1
<1>11. CASE Poll \/ ReadPort \/ WritePort \/ Compute \/ Resume
  <2>1. running' # 0
    <3>1. CASE Poll
      <4>1. order \in Seq(Spawned) /\ order # << >> /\ running' = Head(order)
        BY <3>1 DEF Poll, TypeOK, PassTypeOK
      <4>2. Head(order) \in Spawned
        BY <4>1
      <4> QED
        BY <4>1, <4>2 DEF Spawned
    <3>2. CASE ~Poll
      BY <1>11, <3>2 DEF ReadPort, WritePort, Compute, Resume, At
    <3> QED
      BY <3>1, <3>2
  <2> QED
    BY <1>2, <2>1
<1> QED
  BY <1>3, <1>4, <1>5, <1>6, <1>8, <1>9, <1>10, <1>11 DEF Next, Caller, Settle

-----------------------------------------------------------------------------
\* The groups of an acyclic design are single tasks.
LEMMA AcyclicSingle ==
    ASSUME TypeOK, Acyclic, scheduler = "Levelized", NEW c \in Components(Spawned, Edges)
    PROVE  Cardinality(c) = 1
<1>1. DOMAIN tasks = Spawned /\ Edges \in SUBSET (Spawned \X Spawned) /\ n \in Nat
  BY ExecutorAssumption DEF tasks, Edges, comb_dependency_graph, TypeOK, TableTypeOK
<1>2. c \subseteq Spawned /\ c # {}
  BY <1>1, ComponentsPartition
<1>3. IsFiniteSet(c) /\ Cardinality(c) \in Nat
  BY <1>1, <1>2, SpawnedFinite
<1>4. Cardinality(c) # 0
  BY <1>2, <1>3, FS_EmptySet
<1>5. ~(Cardinality(c) > 1)
  BY <1>1 DEF Acyclic, comb_cycles, Edges
<1> QED
  BY <1>3, <1>4, <1>5

\* A pass over a single task has one entry.
LEMMA BeginSingle ==
    ASSUME NEW gs, NEW d, BeginPass(gs, d), gs = << >> \/ Cardinality(Head(gs)) = 1
    PROVE  Len(order') <= 1
<1>1. CASE gs = << >>
  <2>1. order' = << >>
    BY <1>1 DEF BeginPass
  <2> QED
    BY <2>1
<1>2. CASE gs # << >>
  <2>1. PICK s : s = order'
    OBVIOUS
  <2>2. s \in [1..1 -> Head(gs)]
    BY <1>2, <2>1 DEF BeginPass, visit_order
  <2>3. ASSUME NEW k \in Nat, NEW S, NEW x \in [1..k -> S]
        PROVE  Len(x) = k
    OBVIOUS
  <2>4. Len(s) = 1
    BY <2>2, <2>3
  <2> QED
    BY <2>1, <2>4
<1> QED
  BY <1>1, <1>2

\* One entry it stays, and the plan stays current.
LEMMA OneAtATimeStep ==
    ASSUME Modes = {"Levelized"}, TypeOK, PlanInv, OneAtATime, [Next]_vars
    PROVE  OneAtATime'
<1>0. scheduler = "Levelized" /\ n \in Nat /\ Pass /\ GroupsValid
  BY ExecutorAssumption DEF TypeOK, TableTypeOK, PlanInv
<1>1. CASE stage' \notin Settling
  BY <1>1 DEF OneAtATime
<1>2. CASE UNCHANGED <<n, body, stage, order, graph_dirty>>
  BY <1>2, SameDesign DEF OneAtATime
<1>3. ASSUME poll_tasks, n' = n, body' = body, stage # "panic"
      PROVE  OneAtATime'
  <2>1. ~graph_dirty' /\ BeginPass(levelized_plan', 0) /\ groups' = levelized_plan'
    BY <1>0, <1>3 DEF poll_tasks, ensure_graph, BeginPass
  <2>2. \A i \in 1..Len(groups') : groups'[i] \in Components(Spawned, Edges)
    BY <1>0, <1>3, PollTasksCovers DEF PlanInv
  <2>3. groups' \in Seq(SUBSET Spawned')
    BY <1>3, PollTasksType
  <2>4. PICK g : g = groups'
    OBVIOUS
  <2>5. g # << >> => Head(g) \in Components(Spawned, Edges)
    <3>1. g \in Seq(SUBSET Spawned') /\ (g # << >> => Head(g) = g[1] /\ 1 \in 1..Len(g))
      BY <2>3, <2>4
    <3> QED
      BY <2>2, <2>4, <3>1
  <2>6. Acyclic => g = << >> \/ Cardinality(Head(g)) = 1
    BY <1>0, <2>5, AcyclicSingle
  <2>7. Acyclic => Len(order') <= 1
    BY <2>1, <2>4, <2>6, BeginSingle
  <2> QED
    BY <1>3, <2>1, <2>7, SameDesign DEF OneAtATime
<1>4. ASSUME NEW gs, gs \in {groups, Tail(groups)}, NEW d, BeginPass(gs, d), PassDone,
             UNCHANGED <<n, body, stage, graph_dirty>>
      PROVE  OneAtATime'
  <2>1. gs # << >> => \E i \in 1..Len(groups) : Head(gs) = groups[i]
    <3>1. groups # << >> /\ groups \in Seq(SUBSET Spawned)
      BY <1>4 DEF PassDone, TypeOK, PassTypeOK
    <3>2. CASE gs = groups
      BY <3>1, <3>2, LaterGroups
    <3>3. CASE gs = Tail(groups)
      <4>1. gs \in Seq(SUBSET Spawned) /\ (gs # << >> => Head(gs) = gs[1] /\ 1 \in 1..Len(gs))
        BY <3>1, <3>3
      <4> QED
        BY <3>1, <3>3, <4>1, LaterGroups
    <3> QED
      BY <1>4, <3>2, <3>3
  <2>2. Acyclic => gs = << >> \/ Cardinality(Head(gs)) = 1
    BY <1>0, <1>4, <2>1, AcyclicSingle DEF GroupsValid, PassDone
  <2> QED
    BY <1>4, <2>2, BeginSingle, SameDesign DEF OneAtATime
<1>5. CASE Suspend
  <2>1. /\ running # 0 /\ order' = Tail(order) /\ UNCHANGED <<n, body, stage, graph_dirty>>
    BY <1>5 DEF Suspend, tableVars
  <2>2. order # << >> /\ order \in Seq(Spawned)
    BY <1>0, <2>1 DEF Pass, TypeOK, PassTypeOK
  <2>3. Len(Tail(order)) = Len(order) - 1 /\ Len(order) \in Nat
    BY <2>2
  <2> QED
    BY <2>1, <2>3, SameDesign DEF OneAtATime
<1>6. CASE (\E d \in Domain : pre_edge_settle(d)) \/ BarePoll \/ post_edge_settle
  <2>1. poll_tasks /\ n' = n /\ body' = body /\ stage # "panic"
    BY <1>6 DEF pre_edge_settle, BarePoll, post_edge_settle
  <2> QED
    BY <1>3, <2>1
<1>7. CASE GroupSettled \/ Iterate
  <2>1. PassDone /\ UNCHANGED <<n, body, stage, graph_dirty>>
        /\ (BeginPass(Tail(groups), 0) \/ BeginPass(groups, delta + 1))
    BY <1>7 DEF GroupSettled, Iterate, PassDone, tableVars
  <2> QED
    BY <1>4, <2>1
<1>8. CASE (\E b \in Body : spawn_wired(b)) \/ (\E w \in External, v \in Value : Drive(w, v))
           \/ (\E m \in Modes, o \in PollOrders : set_scheduler_mode(m, o))
           \/ (\E d \in Domain : advance(d)) \/ Panic \/ Return
  <2>1. stage' \in {"idle", "panic", "edge"}
    BY <1>8 DEF spawn_wired, Drive, set_scheduler_mode, advance, Panic, Return
  <2> QED
    BY <1>1, <2>1 DEF Settling
<1>9. CASE Poll \/ ReadPort \/ WritePort \/ Compute \/ Resume \/ UNCHANGED vars
  <2>1. UNCHANGED <<n, body, stage, order, graph_dirty>>
    BY <1>9 DEF Poll, ReadPort, WritePort, Compute, Resume, vars, tableVars, passVars
  <2> QED
    BY <1>2, <2>1
<1> QED
  BY <1>5, <1>6, <1>7, <1>8, <1>9 DEF Next, Caller, Settle

-----------------------------------------------------------------------------
(***************************************************************************)
(* A settle, step by step.                                                 *)
(***************************************************************************)

\* Every group of an acyclic design is polled once, so nothing that was read goes stale.
LEMMA NothingStale ==
    ASSUME TypeOK, ReadsInv, Acyclic, WellFormed, scheduler = "Levelized", stage \in Settling
    PROVE  /\ groups # << >> => Singleton
           /\ \A t \in Spawned, w \in Wire : seen[t][w] \in {None, cell[w]}
<1>1. GroupsValid /\ StaleCause
  BY DEF ReadsInv, PlanInv
<1>2. groups # << >> => Singleton
  <2> SUFFICES ASSUME groups # << >> PROVE Singleton
    OBVIOUS
  <2>1. Head(groups) = groups[1] /\ 1 \in 1..Len(groups)
    BY LaterGroups
  <2>2. Head(groups) \in Components(Spawned, Edges)
    BY <1>1, <2>1 DEF GroupsValid
  <2> QED
    BY <2>2, AcyclicSingle DEF Singleton
<1>3. \A t, w : ~Again(t, w)
  BY <1>2 DEF Again
<1> QED
  BY <1>1, <1>2, <1>3 DEF StaleCause, Stale

\* A future halts when it is at an await that is not ready.
LEMMA HaltsNow ==
    ASSUME TypeOK, NEW t \in Spawned
    PROVE  Halts(body[t], ClockView, Local(t)) <=> Instr(t).op \in Await /\ ~Ready(t)
<1> DEFINE i == body[t].code[pc[t]]
           d == body[t].dom
<1>1. d \in Domain /\ t \in Task /\ target[t] \in Nat \cup {None}
  BY BodyAssumption, ExecutorAssumption DEF TypeOK, TableTypeOK, FutureTypeOK, Spawned, Task
<1>2. /\ Local(t).pc = pc[t] /\ Local(t).target = target[t]
      /\ Local(t).yielded = IF yielded[t] THEN 1 ELSE 0
  BY DEF Local
<1>3. /\ target[t] # None => (target[t] \in ClockView.due[d] <=> tick_ready(d, target[t]))
      /\ d \in ClockView.open <=> barrier_ready(d)
  BY <1>1 DEF ClockView
<1>4. Halts(body[t], ClockView, Local(t)) <=>
        \/ i.op = "tick" /\ (target[t] = None \/ ~tick_ready(d, target[t]))
        \/ i.op = "barrier" /\ ~barrier_ready(d)
        \/ i.op = "yield" /\ ~yielded[t]
  BY <1>2, <1>3 DEF Halts
<1>5. Instr(t).op \in Await /\ ~Ready(t) <=>
        \/ i.op = "tick" /\ (target[t] = None \/ ~tick_ready(d, target[t]))
        \/ i.op = "barrier" /\ ~barrier_ready(d)
        \/ i.op = "yield" /\ ~yielded[t]
  BY DEF Instr, Ready, Await
<1> QED
  BY <1>4, <1>5

\* The clocks decide what the futures see of them.
LEMMA SameClocks ==
    ASSUME UNCHANGED clockVars
    PROVE  ClockView' = ClockView
<1>1. \A d, x : tick_ready(d, x)' <=> tick_ready(d, x)
  BY DEF clockVars, tick_ready
<1>2. \A d : tick_target(d)' = tick_target(d) /\ (barrier_ready(d)' <=> barrier_ready(d))
  BY DEF clockVars, tick_target, barrier_ready
<1> QED
  BY <1>1, <1>2 DEF ClockView

\* A state is one to start a run from.
LEMMA LocalType ==
    ASSUME TypeOK, NEW t \in Spawned
    PROVE  /\ Local(t).pc \in 1..Len(body[t].code) /\ Local(t).pc = pc[t]
           /\ DOMAIN Local(t).held = 1..Len(body[t].code)
           /\ Len(body[t].code) \in Nat \ {0}
           /\ body[t] \in Body
BY BodyAssumption DEF TypeOK, TableTypeOK, FutureTypeOK, Local

\* The next state of a future, field by field.
LEMMA LocalMoved ==
    ASSUME body' = body, NEW t, NEW e,
           pc'[t] = NextPc(t),
           acc'[t] = CASE Instr(t).op = "read" -> Apply(Instr(t).fn, acc[t], e[Instr(t).wire])
                       [] Instr(t).op = "let"  -> Apply(Instr(t).fn, acc[t], acc[t])
                       [] OTHER -> acc[t],
           target'[t] = IF Instr(t).op \in Await THEN None ELSE target[t],
           yielded'[t] <=> Instr(t).op \notin Await /\ yielded[t],
           \A w \in Writes(body[t]) :
              Held(w)' = IF Instr(t).op = "write" /\ w = Instr(t).wire THEN acc[t] ELSE Held(w)
    PROVE  Local(t)' = Moved(body[t], e, Local(t))
<1> DEFINE b == body[t]
           x == Local(t)'
           y == Moved(b, e, Local(t))
<1>1. b.code[Local(t).pc] = Instr(t)
  BY DEF Local, Instr
<1>2. x.pc = y.pc
  BY DEF Local, Moved, NextPc
<1>3. x.acc = y.acc
  BY <1>1 DEF Local, Moved
<1>4. x.target = y.target /\ x.yielded = y.yielded
  BY <1>1 DEF Local, Moved
<1>5. x.held = y.held
  <2>1. /\ x.held = [k \in 1..Len(b.code) |-> IF b.code[k].op = "write" THEN Held(b.code[k].wire)' ELSE None]
        /\ y.held = [k \in 1..Len(b.code) |->
                        IF Instr(t).op = "write" /\ b.code[k].op = "write" /\ b.code[k].wire = Instr(t).wire
                        THEN acc[t] ELSE Local(t).held[k]]
    BY <1>1 DEF Local, Moved
  <2>2. \A k \in 1..Len(b.code) : b.code[k].op = "write"
          => Held(b.code[k].wire)' = IF Instr(t).op = "write" /\ b.code[k].wire = Instr(t).wire
                                     THEN acc[t] ELSE Held(b.code[k].wire)
    BY WritesDef
  <2>3. \A k \in 1..Len(b.code) :
          Local(t).held[k] = IF b.code[k].op = "write" THEN Held(b.code[k].wire) ELSE None
    BY DEF Local
  <2> QED
    BY <2>1, <2>2, <2>3
<1>6. /\ x = [pc |-> x.pc, acc |-> x.acc, target |-> x.target, yielded |-> x.yielded, held |-> x.held]
      /\ y = [pc |-> y.pc, acc |-> y.acc, target |-> y.target, yielded |-> y.yielded, held |-> y.held]
  BY DEF Local, Moved
<1> HIDE DEF x, y
<1>7. x = y
  BY <1>2, <1>3, <1>4, <1>5, <1>6
<1> QED
  BY <1>7 DEF x, y

\* The others wait while one runs.
LEMMA Waits ==
    ASSUME UNCHANGED <<body, clockVars>>, NEW t, NEW s, Progress(s, t),
           t # running, t # running', Todo(t)' <=> Todo(t),
           Local(t)' = Local(t), seen'[t] = seen[t]
    PROVE  Progress(s, t)'
BY SameClocks DEF Progress

\* One instruction of the task being polled takes its run a step further.
LEMMA Runs ==
    ASSUME TypeOK, Pass, UNCHANGED <<n, body, groups, order, running, clockVars>>, running # 0,
           ~(Instr(running).op \in Await /\ ~Ready(running)),
           Instr(running).op = "read" => seen'[running][Instr(running).wire] # None,
           \A w \in Wire : seen[running][w] # None => seen'[running][w] = seen[running][w],
           \A t : t = running => Local(t)' = Moved(body[t], seen'[t], Local(t)),
           \A t \in Spawned : t # running => Local(t)' = Local(t) /\ seen'[t] = seen[t]
    PROVE  \A t \in Spawned : \A s : Progress(s, t) => Progress(s, t)'
<1> SUFFICES ASSUME NEW t \in Spawned, NEW s, Progress(s, t) PROVE Progress(s, t)'
  OBVIOUS
<1>1. Todo(t)' <=> Todo(t)
  BY DEF Todo
<1>2. CASE t # running
  BY <1>1, <1>2, Waits
<1>3. CASE t = running
  <2> DEFINE b == body[t]
             f == seen'[t]
  <2>1. PICK m, tr : Run(b, ClockView, seen[t], s, m, tr) /\ tr[m] = Local(t)
    BY <1>3, TodoRunning DEF Progress
  <2>2. b \in Body /\ Len(b.code) \in Nat /\ Local(t).pc = pc[t] /\ Instr(t) = b.code[pc[t]]
    BY LocalType DEF Instr
  <2>3. \A k \in 1..Len(b.code) : b.code[k].op = "read" /\ seen[t][b.code[k].wire] # None
          => f[b.code[k].wire] = seen[t][b.code[k].wire]
    BY <1>3, <2>2, BodyAssumption
  <2>4. Run(b, ClockView, f, s, m, tr)
    BY <2>1, <2>3, RunKeeps
  <2>5. ~Halts(b, ClockView, tr[m])
    BY <1>3, <2>1, HaltsNow
  <2>6. b.code[tr[m].pc].op = "read" => f[b.code[tr[m].pc].wire] # None
    BY <1>3, <2>1, <2>2
  <2>7. \E k, tq : Run(b, ClockView, f, s, k, tq) /\ tq[k] = Moved(b, f, tr[m])
    BY <2>2, <2>4, <2>5, <2>6, RunOn
  <2>8. PICK k, tq : Run(b, ClockView, f, s, k, tq) /\ tq[k] = Local(t)'
    BY <1>3, <2>1, <2>7
  <2> QED
    BY <1>3, <2>8, SameClocks DEF Progress
<1> QED
  BY <1>2, <1>3

\* What only the driver of a wire changes, no other task's state shows.
LEMMA OthersWait ==
    ASSUME TypeOK, OneDriver, running \in Spawned, body' = body,
           \A t \in Spawned : t # running =>
              pc'[t] = pc[t] /\ acc'[t] = acc[t] /\ target'[t] = target[t] /\ yielded'[t] = yielded[t],
           \A w \in Wire : w \notin Writes(body[running]) => Held(w)' = Held(w)
    PROVE  \A t \in Spawned : t # running => Local(t)' = Local(t)
<1> SUFFICES ASSUME NEW t \in Spawned, t # running PROVE Local(t)' = Local(t)
  OBVIOUS
<1>1. \A w \in Writes(body[t]) : w \in Wire /\ w \notin Writes(body[running])
  <2>1. \A w \in Writes(body[t]) : w \in Wire
    BY LocalType, BodyAssumption, WritesDef
  <2>2. Writes(body[t]) \cap Writes(body[running]) = {}
    BY DEF OneDriver
  <2> QED
    BY <2>1, <2>2
<1> QED
  BY <1>1, LocalFrame

\* Each step of a poll that does not end it is a step of the run.
LEMMA RunSteps ==
    ASSUME TypeOK, ReadsInv, Sound, scheduler = "Levelized",
           ReadPort \/ WritePort \/ Compute \/ Resume
    PROVE  \A t \in Spawned : \A s : Progress(s, t) => Progress(s, t)'
<1>0. /\ Spawned \subseteq Task /\ Pass /\ OneDriver /\ stage \in Settling
      /\ running # 0 /\ running \in Spawned /\ running \in Task
      /\ Instr(running).wire \in Wire
  <2>1. running # 0
    BY DEF ReadPort, WritePort, Compute, Resume, At
  <2> QED
    BY <2>1, InstrType, ExecutorAssumption
       DEF ReadsInv, PlanInv, MidRun, TypeOK, TableTypeOK, Spawned, Task
<1>1. \A t \in Spawned, w \in Wire : seen[t][w] \in {None, cell[w]}
  BY <1>0, NothingStale DEF Sound
<1>2. PICK r : r = running
  OBVIOUS
<1>3. /\ r \in Spawned /\ r \in Task /\ cell \in [Wire -> Value]
      /\ pc \in [Task -> Nat \ {0}] /\ acc \in [Task -> Value]
      /\ target \in [Task -> Nat \cup {None}] /\ yielded \in [Task -> BOOLEAN]
  BY <1>0, <1>2 DEF TypeOK, FutureTypeOK, PortsTypeOK
<1>4. ASSUME UNCHANGED portVars
      PROVE  \A w : Held(w)' = Held(w)
  BY <1>4 DEF Held, portVars
<1>5. CASE ReadPort
  <2> DEFINE u == Instr(r).wire
             x == Apply(Instr(r).fn, acc[r], cell[u])
  <2>1. /\ UNCHANGED <<n, body, groups, order, running, clockVars, portVars, target, yielded>>
        /\ Instr(r).op = "read"
        /\ acc' = [acc EXCEPT ![r] = x] /\ pc' = [pc EXCEPT ![r] = NextPc(r)]
    BY <1>2, <1>5 DEF ReadPort, At, tableVars, passVars
  <2>2. \A t \in Task, w \in Wire : seen'[t][w] = IF t = r /\ w = u THEN cell[w] ELSE seen[t][w]
    BY <1>2, <1>5, ReadSeen
  <2>3. seen \in [Task -> [Wire -> Value \cup {None}]] /\ seen' = [seen EXCEPT ![r][u] = cell[u]]
    BY <1>2, <1>5 DEF ReadPort, TypeOK, HistTypeOK
  <2>4. \A t \in Spawned : t # r => seen'[t] = seen[t]
    BY <1>0, <1>3, <2>3
  <2>5. seen'[r][u] = cell[u] /\ cell[u] # None
    BY <1>0, <1>2, <1>3, <2>2, PortsAssumption
  <2>6. \A w \in Wire : seen[r][w] # None => seen'[r][w] = seen[r][w]
    BY <1>1, <1>3, <2>2
  <2>7. pc'[r] = NextPc(r) /\ acc'[r] = x /\ Instr(r).op \notin Await
    BY <1>3, <2>1 DEF Await
  <2>8. Local(r)' = Moved(body[r], seen'[r], Local(r))
    <3>1. acc'[r] = Apply(Instr(r).fn, acc[r], seen'[r][u])
      BY <2>5, <2>7
    <3> HIDE DEF x, u
    <3>2. acc'[r] = CASE Instr(r).op = "read" -> Apply(Instr(r).fn, acc[r], seen'[r][Instr(r).wire])
                      [] Instr(r).op = "let"  -> Apply(Instr(r).fn, acc[r], acc[r])
                      [] OTHER -> acc[r]
      BY <2>1, <3>1 DEF u
    <3>3. yielded'[r] <=> Instr(r).op \notin Await /\ yielded[r]
      BY <2>1, <2>7
    <3>4. \A w \in Writes(body[r]) :
              Held(w)' = IF Instr(r).op = "write" /\ w = Instr(r).wire THEN acc[r] ELSE Held(w)
      BY <1>4, <2>1
    <3>5. target'[r] = IF Instr(r).op \in Await THEN None ELSE target[r]
      BY <2>1, <2>7
    <3> QED
      BY <2>1, <2>7, <3>2, <3>3, <3>4, <3>5, LocalMoved
  <2>9. \A t \in Spawned : t # running => Local(t)' = Local(t)
    <3>1. \A t \in Spawned : t # running =>
             pc'[t] = pc[t] /\ acc'[t] = acc[t] /\ target'[t] = target[t] /\ yielded'[t] = yielded[t]
      BY <1>0, <1>2, <1>3, <2>1
    <3> HIDE DEF x, u
    <3> QED
      BY <1>0, <1>4, <2>1, <3>1, OthersWait
  <2> HIDE DEF x
  <2> QED
    BY <1>0, <1>2, <2>1, <2>4, <2>5, <2>6, <2>7, <2>8, <2>9, Runs
<1>6. CASE WritePort
  <2> DEFINE u == Instr(r).wire
             v == acc[r]
  <2>1. /\ UNCHANGED <<n, body, groups, order, running, clockVars, acc, target, yielded, seen>>
        /\ Instr(r).op = "write" /\ Instr(r).op \notin Await
        /\ pc' = [pc EXCEPT ![r] = NextPc(r)]
        /\ Write(u, v)
    BY <1>2, <1>6 DEF WritePort, At, tableVars, passVars, histVars, Await
  <2>2. pc'[r] = NextPc(r)
    BY <1>3, <2>1
  <2>3. \A w \in Wire : Held(w)' = IF w = u THEN v ELSE Held(w)
    <3> HIDE DEF v
    <3>1. pending \in [Registered -> Value \cup {None}] /\ u \in Wire
      BY <1>0, <1>2 DEF TypeOK, PortsTypeOK
    <3> HIDE DEF u
    <3>2. CASE u \in Registered
      BY <1>3, <2>1, <3>1, <3>2 DEF Write, regout_write, Held
    <3>3. CASE u \notin Registered
      BY <1>3, <2>1, <3>1, <3>3 DEF Write, out_write, Held
    <3> QED
      BY <3>2, <3>3
  <2>4. u \in Writes(body[r])
    BY <1>2, <1>3, <2>1, WritesDef DEF Instr, TypeOK, FutureTypeOK
  <2>5. Local(r)' = Moved(body[r], seen'[r], Local(r))
    <3>1. \A w \in Writes(body[r]) : w \in Wire
      BY <1>3, BodyAssumption, WritesDef DEF TypeOK, TableTypeOK
    <3>2. acc'[r] = CASE Instr(r).op = "read" -> Apply(Instr(r).fn, acc[r], seen'[r][Instr(r).wire])
                      [] Instr(r).op = "let"  -> Apply(Instr(r).fn, acc[r], acc[r])
                      [] OTHER -> acc[r]
      BY <2>1
    <3>3. yielded'[r] <=> Instr(r).op \notin Await /\ yielded[r]
      BY <2>1
    <3>4. \A w \in Writes(body[r]) :
              Held(w)' = IF Instr(r).op = "write" /\ w = Instr(r).wire THEN acc[r] ELSE Held(w)
      BY <2>1, <2>3, <3>1
    <3>5. target'[r] = IF Instr(r).op \in Await THEN None ELSE target[r]
      BY <2>1
    <3> HIDE DEF u, v
    <3> QED
      BY <2>1, <2>2, <3>2, <3>3, <3>4, <3>5, LocalMoved
  <2>6. \A t \in Spawned : t # running => Local(t)' = Local(t)
    <3>1. \A t \in Spawned : t # running =>
             pc'[t] = pc[t] /\ acc'[t] = acc[t] /\ target'[t] = target[t] /\ yielded'[t] = yielded[t]
      BY <1>0, <1>2, <1>3, <2>1
    <3>2. \A w \in Wire : w \notin Writes(body[running]) => Held(w)' = Held(w)
      BY <1>2, <2>3, <2>4
    <3> HIDE DEF u, v
    <3> QED
      BY <1>0, <2>1, <3>1, <3>2, OthersWait
  <2> HIDE DEF u, v
  <2> QED
    BY <1>0, <1>2, <2>1, <2>5, <2>6, Runs
<1>7. CASE Compute
  <2>1. /\ UNCHANGED <<n, body, groups, order, running, clockVars, portVars, target, yielded, seen>>
        /\ Instr(r).op = "let" /\ Instr(r).op \notin Await
        /\ acc' = [acc EXCEPT ![r] = Apply(Instr(r).fn, acc[r], acc[r])]
        /\ pc' = [pc EXCEPT ![r] = NextPc(r)]
    BY <1>2, <1>7 DEF Compute, At, tableVars, passVars, histVars, Await
  <2>2. pc'[r] = NextPc(r) /\ acc'[r] = Apply(Instr(r).fn, acc[r], acc[r])
    BY <1>3, <2>1
  <2>3. Local(r)' = Moved(body[r], seen'[r], Local(r))
    <3>1. acc'[r] = CASE Instr(r).op = "read" -> Apply(Instr(r).fn, acc[r], seen'[r][Instr(r).wire])
                      [] Instr(r).op = "let"  -> Apply(Instr(r).fn, acc[r], acc[r])
                      [] OTHER -> acc[r]
      BY <2>1, <2>2
    <3>2. yielded'[r] <=> Instr(r).op \notin Await /\ yielded[r]
      BY <2>1
    <3>3. \A w \in Writes(body[r]) :
              Held(w)' = IF Instr(r).op = "write" /\ w = Instr(r).wire THEN acc[r] ELSE Held(w)
      BY <1>4, <2>1
    <3>4. target'[r] = IF Instr(r).op \in Await THEN None ELSE target[r]
      BY <2>1
    <3> QED
      BY <2>1, <2>2, <3>1, <3>2, <3>3, <3>4, LocalMoved
  <2>4. \A t \in Spawned : t # running => Local(t)' = Local(t)
    <3>1. \A t \in Spawned : t # running =>
             pc'[t] = pc[t] /\ acc'[t] = acc[t] /\ target'[t] = target[t] /\ yielded'[t] = yielded[t]
      BY <1>0, <1>2, <1>3, <2>1
    <3> QED
      BY <1>0, <1>4, <2>1, <3>1, OthersWait
  <2> QED
    BY <1>0, <1>2, <2>1, <2>3, <2>4, Runs
<1>8. CASE Resume
  <2>1. /\ UNCHANGED <<n, body, groups, order, running, clockVars, portVars, acc, seen>>
        /\ Instr(r).op \in Await /\ Ready(r)
        /\ pc' = [pc EXCEPT ![r] = NextPc(r)]
        /\ target' = [target EXCEPT ![r] = None]
        /\ yielded' = [yielded EXCEPT ![r] = FALSE]
    BY <1>2, <1>8 DEF Resume, tableVars, passVars
  <2>2. pc'[r] = NextPc(r) /\ target'[r] = None /\ ~yielded'[r]
    BY <1>3, <2>1
  <2>3. Instr(r).op \notin {"read", "write", "let"}
    BY <2>1 DEF Await
  <2>4. Local(r)' = Moved(body[r], seen'[r], Local(r))
    <3>1. acc'[r] = CASE Instr(r).op = "read" -> Apply(Instr(r).fn, acc[r], seen'[r][Instr(r).wire])
                      [] Instr(r).op = "let"  -> Apply(Instr(r).fn, acc[r], acc[r])
                      [] OTHER -> acc[r]
      BY <2>1, <2>3
    <3>2. yielded'[r] <=> Instr(r).op \notin Await /\ yielded[r]
      BY <2>1, <2>2
    <3>3. \A w \in Writes(body[r]) :
              Held(w)' = IF Instr(r).op = "write" /\ w = Instr(r).wire THEN acc[r] ELSE Held(w)
      BY <1>4, <2>1, <2>3
    <3>4. target'[r] = IF Instr(r).op \in Await THEN None ELSE target[r]
      BY <2>1, <2>2
    <3> QED
      BY <2>1, <2>2, <3>1, <3>2, <3>3, <3>4, LocalMoved
  <2>5. \A t \in Spawned : t # running => Local(t)' = Local(t)
    <3>1. \A t \in Spawned : t # running =>
             pc'[t] = pc[t] /\ acc'[t] = acc[t] /\ target'[t] = target[t] /\ yielded'[t] = yielded[t]
      BY <1>0, <1>2, <1>3, <2>1
    <3> QED
      BY <1>0, <1>4, <2>1, <3>1, OthersWait
  <2> QED
    BY <1>0, <1>2, <2>1, <2>3, <2>4, <2>5, Runs
<1> QED
  BY <1>5, <1>6, <1>7, <1>8

\* The next poll begins with an empty run.
LEMMA PollBegins ==
    ASSUME TypeOK, Pass, Poll
    PROVE  \A t \in Spawned : \A s : Progress(s, t) => Progress(s, t)'
<1> SUFFICES ASSUME NEW t \in Spawned, NEW s, Progress(s, t) PROVE Progress(s, t)'
  OBVIOUS
<1>1. /\ running = 0 /\ order # << >> /\ running' = Head(order)
      /\ UNCHANGED <<n, body, order, groups, clockVars, portVars, pc, acc, target, yielded, seen>>
  BY DEF Poll, tableVars, passVars, futVars, histVars
<1>2. t # 0 /\ (t = running' => Todo(t))
  <2>1. order \in Seq(Spawned)
    BY DEF TypeOK, PassTypeOK
  <2>2. order[1] = running' /\ 1 \in 1..Len(order)
    BY <1>1, <2>1
  <2> QED
    BY <2>2 DEF Todo, Spawned
<1>3. Todo(t)' <=> Todo(t)
  BY <1>1 DEF Todo
<1>4. Local(t)' = Local(t)
  <2>1. \A w : Held(w)' = Held(w)
    BY <1>1 DEF Held, portVars
  <2> QED
    BY <1>1, <2>1, LocalFrame
<1>5. CASE t # running'
  BY <1>1, <1>2, <1>3, <1>4, <1>5, Waits
<1>6. CASE t = running'
  <2>1. Local(t) = s
    BY <1>1, <1>2, <1>6 DEF Progress
  <2>2. s.pc \in 1..Len(body[t].code) /\ DOMAIN s.held = 1..Len(body[t].code)
    BY <2>1, LocalType
  <2>3. \E m, tr : Run(body[t], ClockView, seen[t], s, m, tr) /\ tr[m] = s
    BY <2>2, RunStart
  <2>4. ClockView' = ClockView
    BY <1>1, SameClocks
  <2> QED
    BY <1>1, <1>4, <1>6, <2>1, <2>3, <2>4 DEF Progress
<1> QED
  BY <1>5, <1>6

\* A poll ends where its run halts, and its task is not polled again.
LEMMA SuspendHalts ==
    ASSUME TypeOK, ReadsInv, OneAtATime, Sound, scheduler = "Levelized", Suspend
    PROVE  \A t \in Spawned : \A s : Progress(s, t) => Progress(s, t)'
<1>0. /\ Spawned \subseteq Task /\ Pass /\ OneDriver /\ GroupOrder /\ stage \in Settling
      /\ running # 0 /\ running \in Spawned /\ 0 \notin Spawned
  <2>1. running # 0
    BY DEF Suspend
  <2> QED
    BY <2>1, InstrType, ExecutorAssumption
       DEF ReadsInv, PlanInv, MidRun, TypeOK, TableTypeOK, Spawned, Task
<1>1. PICK r : r = running
  OBVIOUS
<1>2. /\ UNCHANGED <<n, body, groups, clockVars, cell, pending, pc, acc, seen>>
      /\ Instr(r).op \in Await /\ ~Ready(r)
      /\ target' = [target EXCEPT ![r] = IF Instr(r).op = "tick" /\ target[r] = None
                                         THEN tick_target(body[r].dom) ELSE target[r]]
      /\ yielded' = [yielded EXCEPT ![r] = At("yield")]
      /\ At("yield") <=> Instr(r).op = "yield"
      /\ running' = 0 /\ order' = Tail(order)
  <2>1. At("yield") <=> Instr(r).op = "yield"
    BY <1>0, <1>1 DEF At
  <2>2. At("tick") <=> Instr(r).op = "tick"
    BY <1>0, <1>1 DEF At
  <2> QED
    BY <1>1, <2>1, <2>2 DEF Suspend, tableVars
<1>3. /\ r \in Spawned /\ r \in Task /\ r # 0
      /\ target \in [Task -> Nat \cup {None}] /\ yielded \in [Task -> BOOLEAN]
  BY <1>0, <1>1 DEF TypeOK, FutureTypeOK
<1>4. \A w : Held(w)' = Held(w)
  BY <1>2 DEF Held
<1>5. order' = << >> /\ \A i \in 2..Len(groups) : r \notin groups[i]
  <2>1. order \in Seq(Spawned) /\ order # << >> /\ Len(order) <= 1
    BY <1>0 DEF Pass, TypeOK, PassTypeOK, OneAtATime, Sound
  <2>2. Tail(order) = << >>
    BY <2>1
  <2>3. groups # << >> /\ r \in Head(groups)
    BY <1>0, <1>1, TodoRunning
  <2>4. Head(groups) = groups[1] /\ 1 \in 1..Len(groups)
    BY <2>3, LaterGroups
  <2>5. \A i \in 2..Len(groups) : groups[1] \cap groups[i] = {}
    BY <1>0, <2>4 DEF GroupOrder
  <2> QED
    BY <1>2, <2>2, <2>3, <2>4, <2>5
<1>6. ASSUME NEW t \in Spawned, NEW s, Progress(s, t), t # r
      PROVE  Progress(s, t)'
  <2>1. pc'[t] = pc[t] /\ acc'[t] = acc[t] /\ target'[t] = target[t] /\ yielded'[t] = yielded[t]
    BY <1>2, <1>3, <1>6, <1>0
  <2>2. Local(t)' = Local(t)
    BY <1>2, <1>4, <2>1, LocalFrame
  <2>3. Todo(t) => Todo(t)'
    BY <1>0, <1>1, <1>2, <1>6, TodoSuspend
  <2>4. Todo(t)' => Todo(t)
    BY <1>2, <1>5 DEF Todo
  <2>5. t # running /\ t # running'
    BY <1>0, <1>1, <1>2, <1>6
  <2> QED
    BY <1>2, <1>6, <2>2, <2>3, <2>4, <2>5, Waits
<1>7. ASSUME NEW s, Progress(s, r)
      PROVE  Progress(s, r)'
  <2>1. PICK m, tr : Run(body[r], ClockView, seen[r], s, m, tr) /\ tr[m] = Local(r)
    BY <1>0, <1>1, <1>7, TodoRunning DEF Progress
  <2>2. Halts(body[r], ClockView, Local(r))
    BY <1>2, <1>3, HaltsNow
  <2>3. ~Todo(r)'
    BY <1>2, <1>5 DEF Todo
  <2>4. Local(r)' = Parks(body[r], ClockView, Local(r))
    <3> DEFINE x == Local(r)'
               y == Parks(body[r], ClockView, Local(r))
    <3>1. /\ body[r].code[Local(r).pc] = Instr(r) /\ ClockView.next[body[r].dom] = tick_target(body[r].dom)
      BY <1>3, LocalType, BodyAssumption DEF Instr, ClockView
    <3>2. x.pc = y.pc /\ x.acc = y.acc
      BY <1>2 DEF Local, Parks
    <3>3. target'[r] = IF Instr(r).op = "tick" /\ target[r] = None THEN tick_target(body[r].dom) ELSE target[r]
      BY <1>2, <1>3
    <3>4. yielded'[r] <=> Instr(r).op = "yield"
      BY <1>2, <1>3
    <3>5. ~yielded[r] \/ Instr(r).op # "yield"
      BY <1>2 DEF Ready
    <3>6. x.target = y.target
      BY <3>1, <3>3 DEF Local, Parks
    <3>7. x.yielded = y.yielded
      BY <3>1, <3>4 DEF Local, Parks
    <3>8. x.held = y.held
      BY <1>2, <1>4 DEF Local, Parks
    <3>9. /\ x = [pc |-> x.pc, acc |-> x.acc, target |-> x.target, yielded |-> x.yielded, held |-> x.held]
          /\ y = [pc |-> y.pc, acc |-> y.acc, target |-> y.target, yielded |-> y.yielded, held |-> y.held]
      BY DEF Local, Parks
    <3> HIDE DEF x, y
    <3>10. x = y
      BY <3>2, <3>6, <3>7, <3>8, <3>9
    <3> QED
      BY <3>10 DEF x, y
  <2>5. ClockView' = ClockView
    BY <1>2, SameClocks
  <2> QED
    BY <1>2, <2>1, <2>2, <2>3, <2>4, <2>5 DEF Progress
<1> QED
  BY <1>6, <1>7

\* Nothing happens between two groups.
LEMMA GroupEnds ==
    ASSUME TypeOK, Pass, GroupSettled
    PROVE  \A t \in Spawned : \A s : Progress(s, t) => Progress(s, t)'
<1> SUFFICES ASSUME NEW t \in Spawned, NEW s, Progress(s, t) PROVE Progress(s, t)'
  OBVIOUS
<1>1. /\ PassDone /\ BeginPass(Tail(groups), 0) /\ running = 0 /\ running' = 0 /\ groups # << >>
      /\ UNCHANGED <<n, body, clockVars, portVars, pc, acc, target, yielded, seen>>
  BY DEF GroupSettled, PassDone, BeginPass, tableVars, futVars, histVars
<1>2. n \in Nat /\ t # 0
  BY ExecutorAssumption DEF TypeOK, TableTypeOK, Spawned
<1>3. Todo(t) => Todo(t)'
  BY <1>1, TodoNextPass
<1>4. Todo(t)' => Todo(t)
  <2> SUFFICES ASSUME Todo(t)' PROVE \E i \in 2..Len(groups) : t \in groups[i]
    BY DEF Todo
  <2> DEFINE gs == Tail(groups)
  <2>1. /\ gs \in Seq(SUBSET Spawned) /\ groups \in Seq(SUBSET Spawned) /\ Len(groups) = Len(gs) + 1
        /\ \A i \in 1..Len(gs) : i + 1 \in 1..Len(groups) /\ gs[i] = groups[i + 1]
    BY <1>1, LaterGroups DEF TypeOK, PassTypeOK
  <2>2. /\ groups' = gs
        /\ gs = << >> => order' = << >>
        /\ \A k \in 1..Len(order') : order'[k] \in Head(gs)
    BY <1>1, <1>2, <2>1, BeginPassCovers
  <2>3. gs # << >> => Head(gs) = gs[1] /\ 1 \in 1..Len(gs)
    BY <2>1
  <2> HIDE DEF gs
  <2>4. \E i \in 1..Len(gs) : t \in gs[i]
    <3>1. CASE \E k \in 1..Len(order') : order'[k] = t
      <4>1. gs # << >>
        BY <2>2, <3>1
      <4> QED
        BY <2>2, <2>3, <3>1, <4>1
    <3>2. CASE \E i \in 2..Len(groups') : t \in groups'[i]
      BY <2>2, <3>2
    <3> QED
      BY <3>1, <3>2 DEF Todo
  <2>5. PICK j \in 1..Len(gs) : t \in gs[j]
    BY <2>4
  <2>6. j + 1 \in 2..Len(groups) /\ t \in groups[j + 1]
    BY <2>1, <2>5
  <2> QED
    BY <2>6
<1>5. Local(t)' = Local(t)
  <2>1. \A w : Held(w)' = Held(w)
    BY <1>1 DEF Held, portVars
  <2> QED
    BY <1>1, <2>1, LocalFrame
<1> QED
  BY <1>1, <1>2, <1>3, <1>4, <1>5, Waits

-----------------------------------------------------------------------------
(***************************************************************************)
(* The end of a settle.                                                    *)
(***************************************************************************)

\* Whoever reads a combinational wire comes after its driver.
LEMMA ReaderAfterDriver ==
    ASSUME TypeOK, OneDriver, WellFormed, NEW r \in Spawned, NEW u \in Writes(body[r]) \ Registered,
           NEW t \in Spawned, u \in Reads(body[t])
    PROVE  <<r, t>> \in Edges /\ r # t
<1>1. /\ body[r] \in Body /\ body[t] \in Body /\ Spawned \subseteq Nat
  BY ExecutorAssumption DEF TypeOK, TableTypeOK, Spawned
<1>2. t # r
  BY <1>1, SelfReadAssumption
<1>3. Handles(body[r]) = Writes(body[r]) /\ body[t].reads = Reads(body[t])
  BY DEF WellFormed, Honest
<1>4. \A q \in Spawned : u \in Handles(body[q]) => q = r
  BY OwnershipAssumption DEF OneDriver, TypeOK, TableTypeOK
<1>5. \A q \in DOMAIN tasks : tasks[q] = body[q] /\ q \in Spawned
  BY DEF tasks
<1>6. r \in comb_producer(tasks, Registered, u) /\ \A q \in comb_producer(tasks, Registered, u) : q <= r
  BY <1>1, <1>3, <1>4, <1>5 DEF comb_producer, tasks
<1>7. <<r, t>> \in Edges
  BY <1>2, <1>3, <1>6 DEF Edges, comb_dependency_graph, tasks
<1> QED
  BY <1>2, <1>7

\* Equal states hold equal values on the wires they drive.
LEMMA HeldAlike ==
    ASSUME TypeOK, NEW t \in Spawned, NEW u \in Spawned, IsCopy(body[t], body[u]), Local(t) = Local(u),
           NEW w \in Writes(body[t])
    PROVE  w \in Wire /\ Held(twin[w]) = Held(w)
<1>1. body[t] \in Body /\ body[u] \in Body
  BY LocalType
<1>2. PICK k \in 1..Len(body[t].code) : body[t].code[k].op = "write" /\ body[t].code[k].wire = w
  BY WritesDef
<1>3. body[u].code[k].op = "write" /\ body[u].code[k].wire = twin[w] /\ k \in 1..Len(body[u].code)
  BY <1>2 DEF IsCopy
<1>4. Local(t).held[k] = Held(w)
  BY <1>2 DEF Local
<1>5. Local(u).held[k] = Held(twin[w])
  BY <1>3 DEF Local
<1> QED
  BY <1>1, <1>2, <1>4, <1>5, BodyAssumption

\* Copies that agree show the same values on all their wires.
LEMMA WiresAlike ==
    ASSUME TypeOK, Complete, Rest, NEW w \in Wire,
           \A t, u \in Spawned : IsCopy(body[t], body[u]) /\ w \in Writes(body[t]) => Local(t) = Local(u)
    PROVE  /\ cell[twin[w]] = cell[w]
           /\ w \in Registered => pending[twin[w]] = pending[w]
<1>1. twin[w] \in Wire /\ (twin[w] \in Registered <=> w \in Registered)
  BY TwinAssumption, PortsAssumption
<1>2. CASE ~Driven(w)
  BY <1>2 DEF Rest
<1>3. CASE Driven(w)
  <2>1. PICK t \in Spawned : w \in Writes(body[t])
    BY <1>3 DEF Driven
  <2>2. PICK u \in Spawned : IsCopy(body[t], body[u])
    BY DEF Complete
  <2>3. Held(twin[w]) = Held(w)
    BY <2>1, <2>2, HeldAlike
  <2> QED
    BY <1>1, <2>3 DEF Held, Rest
<1> QED
  BY <1>2, <1>3

\* When every task has halted, the copies have come to the same state: by induction along the
\* plan, since a task reads what tasks before it have written, and by then for good.
LEMMA CopiesMeet ==
    ASSUME TypeOK, ReadsInv, OneAtATime, Sound, scheduler = "Levelized", SettleDone, Rest, UnderWay
    PROVE  Same
<1>0. /\ stage \in Settling /\ running = 0 /\ groups = << >> /\ order = << >>
      /\ Spawned \subseteq Nat /\ n \in Nat /\ OneDriver
      /\ Complete /\ WellFormed /\ Acyclic
  BY ExecutorAssumption DEF SettleDone, ReadsInv, PlanInv, Pass, TypeOK, TableTypeOK, Sound, Spawned
<1>1. levelized_plan \in compute_scc_plan(tasks, Registered)
  BY <1>0 DEF OneAtATime, ReadsInv, PlanInv, PlanValid, Settling
<1>2. PICK p : p = levelized_plan
  OBVIOUS
<1> DEFINE comps == Components(Spawned, Edges)
<1>3. /\ p \in Seq(SUBSET Spawned) /\ Len(p) = Cardinality(comps) /\ p \in kahn_order(comps, Edges)
      /\ \A i \in 1..Len(p) : p[i] \in comps
      /\ \A t \in Spawned : \E i \in 1..Len(p) : t \in p[i]
  BY <1>0, <1>1, <1>2, PlanCovers
<1>4. \A c \in comps : Cardinality(c) = 1
  BY <1>0, AcyclicSingle
<1>5. IsFiniteSet(comps)
  BY <1>0, SpawnedFinite, ComponentsFinite DEF Edges, comb_dependency_graph, tasks
<1>6. \A t \in Spawned, w \in Wire : seen[t][w] \in {None, cell[w]}
  BY <1>0, NothingStale
<1>7. \A t \in Spawned : ~Todo(t) /\ t # running
  BY <1>0 DEF Todo, Spawned
<1>8. PICK S : /\ \A t, u \in Spawned : IsCopy(body[t], body[u]) => S[t] = S[u]
               /\ \A t \in Spawned : Progress(S[t], t)
  BY DEF UnderWay
<1> DEFINE Halted(t, s) == \E m, tr : /\ Run(body[t], ClockView, seen[t], s, m, tr)
                                      /\ Halts(body[t], ClockView, tr[m])
                                      /\ Local(t) = Parks(body[t], ClockView, tr[m])
<1>9. \A t \in Spawned : Halted(t, S[t])
  BY <1>7, <1>8 DEF Progress
<1> DEFINE Differ(t) == \E u \in Spawned : IsCopy(body[t], body[u]) /\ Local(t) # Local(u)
           Bad == {i \in 1..Len(p) : \E t \in p[i] : Differ(t)}
<1>10. ASSUME NEW i \in Bad, \A j \in Bad : i <= j
       PROVE  FALSE
  <2>1. PICK t \in p[i] : Differ(t)
    OBVIOUS
  <2>2. i \in 1..Len(p) /\ Len(p) \in Nat /\ t \in Spawned
    BY <1>3
  <2>3. PICK u \in Spawned : IsCopy(body[t], body[u]) /\ Local(t) # Local(u)
    BY <2>1
  <2>4. ASSUME NEW w \in Reads(body[t]), w \in Wire
        PROVE  cell[twin[w]] = cell[w]
    <3>1. CASE w \in Registered
      BY <3>1, <2>4 DEF Rest
    <3>2. CASE w \notin Registered
      <4>1. ASSUME NEW r \in Spawned, NEW q \in Spawned, IsCopy(body[r], body[q]), w \in Writes(body[r])
            PROVE  Local(r) = Local(q)
        <5>1. <<r, t>> \in Edges /\ r # t
          BY <1>0, <2>2, <3>2, <4>1, ReaderAfterDriver
        <5>2. PICK j \in 1..Len(p) : r \in p[j]
          BY <1>3
        <5>3. j <= i
          BY <1>3, <1>5, <2>2, <5>1, <5>2, KahnOrderSorted
        <5>4. j # i
          <6> SUFFICES ASSUME r \in p[i] PROVE FALSE
            BY <5>2
          <6>1. p[i] \subseteq Spawned /\ Cardinality(p[i]) = 1 /\ t \in p[i]
            BY <1>3, <1>4, <2>2
          <6>2. IsFiniteSet(p[i])
            BY <1>0, <6>1, SpawnedFinite
          <6>3. p[i] \ {t} # {} /\ IsFiniteSet(p[i] \ {t}) /\ Cardinality(p[i] \ {t}) = 0
            BY <5>1, <6>1, <6>2, FS_RemoveElement
          <6> QED
            BY <6>3, FS_EmptySet
        <5>5. j \notin Bad
          BY <1>10, <2>2, <5>3, <5>4
        <5> QED
          BY <4>1, <5>2, <5>5
      <4> QED
        BY <1>0, <2>4, <4>1, WiresAlike
    <3> QED
      BY <3>1, <3>2
  <2> HIDE DEF Bad, Differ
  <2>5. body[t] \in Body /\ body[u] \in Body
    BY <2>2, <2>3, LocalType
  <2>6. ASSUME NEW k \in 1..Len(body[t].code), body[t].code[k].op = "read",
               seen[t][body[t].code[k].wire] # None, seen[u][body[u].code[k].wire] # None
        PROVE  seen[t][body[t].code[k].wire] = seen[u][body[u].code[k].wire]
    <3> DEFINE w == body[t].code[k].wire
    <3>1. w \in Wire /\ w \in Reads(body[t])
      BY <2>5, <2>6, BodyAssumption, ReadsDef
    <3>2. body[u].code[k].wire = twin[w] /\ twin[w] \in Wire
      BY <2>3, <2>6, <3>1, TwinAssumption DEF IsCopy
    <3> HIDE DEF w
    <3>3. cell[twin[w]] = cell[w]
      BY <2>4, <3>1
    <3>4. seen[t][w] = cell[w] /\ seen[u][twin[w]] = cell[twin[w]]
      BY <1>6, <2>2, <2>6, <3>1, <3>2 DEF w
    <3> QED
      BY <3>2, <3>3, <3>4 DEF w
  <2>7. PICK m, tr : /\ Run(body[t], ClockView, seen[t], S[t], m, tr)
                     /\ Halts(body[t], ClockView, tr[m])
                     /\ Local(t) = Parks(body[t], ClockView, tr[m])
    BY <1>9, <2>2
  <2>8. PICK l, tq : /\ Run(body[u], ClockView, seen[u], S[t], l, tq)
                     /\ Halts(body[u], ClockView, tq[l])
                     /\ Local(u) = Parks(body[u], ClockView, tq[l])
    BY <1>8, <1>9, <2>2, <2>3
  <2> HIDE DEF Halted
  <2>9. tr[m] = tq[l] /\ tr[m].pc \in 1..Len(body[t].code)
    <3>1. PICK b, c, e, f, view, s :
             b = body[t] /\ c = body[u] /\ e = seen[t] /\ f = seen[u] /\ view = ClockView /\ s = S[t]
      OBVIOUS
    <3>2. b \in Body /\ c \in Body /\ IsCopy(b, c)
      BY <2>3, <2>5, <3>1
    <3>3. Run(b, view, e, s, m, tr) /\ Halts(b, view, tr[m])
      BY <2>7, <3>1
    <3>4. Run(c, view, f, s, l, tq) /\ Halts(c, view, tq[l])
      BY <2>8, <3>1
    <3>5. \A k \in 1..Len(b.code) :
             /\ b.code[k].op = "read"
             /\ e[b.code[k].wire] # None /\ f[c.code[k].wire] # None
             => e[b.code[k].wire] = f[c.code[k].wire]
      BY <2>6, <3>1
    <3>6. tr[m] = tq[l] /\ tr[m].pc \in 1..Len(b.code)
      BY <3>2, <3>3, <3>4, <3>5, RunsEndAlike
    <3> QED
      BY <3>1, <3>6
  <2>10. Parks(body[t], ClockView, tr[m]) = Parks(body[u], ClockView, tr[m])
    BY <2>3, <2>9, CopyWaits
  <2> QED
    BY <2>3, <2>7, <2>8, <2>9, <2>10
<1>11. Bad = {}
  <2>1. Bad \in SUBSET Nat
    OBVIOUS
  <2> HIDE DEF Bad
  <2> QED
    BY <1>10, <2>1, LeastExists
<1> QED
  BY <1>3, <1>11 DEF Same

-----------------------------------------------------------------------------
(***************************************************************************)
(* Between settles.                                                        *)
(***************************************************************************)

\* If a step leaves all wires alike, and the futures, the copies are alike.
LEMMA AllAlike ==
    ASSUME TypeOK',
           \A w \in Wire : cell'[twin[w]] = cell'[w],
           \A w \in Registered : pending'[twin[w]] = pending'[w],
           \A t, u \in Spawned' : IsCopy(body'[t], body'[u]) =>
              /\ pc'[t] = pc'[u] /\ acc'[t] = acc'[u] /\ target'[t] = target'[u]
              /\ yielded'[t] <=> yielded'[u]
    PROVE  Rest' /\ Same'
<1>1. Rest'
  BY PortsAssumption DEF Rest
<1>2. ASSUME NEW t \in Spawned', NEW u \in Spawned', IsCopy(body'[t], body'[u])
      PROVE  Local(t)' = Local(u)'
  <2>1. body'[t] \in Body /\ body'[u] \in Body /\ Len(body'[u].code) = Len(body'[t].code)
    BY <1>2 DEF IsCopy, TypeOK, TableTypeOK
  <2>2. ASSUME NEW k \in 1..Len(body'[t].code), body'[t].code[k].op = "write"
        PROVE  Held(body[u].code[k].wire)' = Held(body[t].code[k].wire)'
    <3>1. body'[t].code[k].wire \in Wire /\ body'[u].code[k].wire = twin[body'[t].code[k].wire]
      BY <1>2, <2>1, <2>2, BodyAssumption DEF IsCopy
    <3>2. twin[body'[t].code[k].wire] \in Registered <=> body'[t].code[k].wire \in Registered
      BY <3>1, TwinAssumption, PortsAssumption
    <3> QED
      BY <3>1, <3>2 DEF Held
  <2>3. \A k \in 1..Len(body'[t].code) : body'[u].code[k].op = body'[t].code[k].op
    BY <1>2 DEF IsCopy
  <2> QED
    BY <1>2, <2>1, <2>2, <2>3 DEF Local
<1> QED
  BY <1>1, <1>2 DEF Same

\* A step that runs no future and keeps the wires alike keeps the copies alike.
LEMMA AlikeKept ==
    ASSUME TypeOK, TypeOK', Same, UNCHANGED <<n, body, futVars>>,
           \A w \in Wire : cell'[twin[w]] = cell'[w],
           \A w \in Registered : pending'[twin[w]] = pending'[w]
    PROVE  Rest' /\ Same'
<1>1. ASSUME NEW t \in Spawned, NEW u \in Spawned, IsCopy(body[t], body[u])
      PROVE  /\ pc[t] = pc[u] /\ acc[t] = acc[u] /\ target[t] = target[u]
             /\ yielded[t] <=> yielded[u]
  <2>1. Local(t) = Local(u)
    BY <1>1 DEF Same
  <2>2. /\ Local(t).pc = pc[t] /\ Local(t).acc = acc[t] /\ Local(t).target = target[t]
        /\ Local(t).yielded = IF yielded[t] THEN 1 ELSE 0
        /\ Local(u).pc = pc[u] /\ Local(u).acc = acc[u] /\ Local(u).target = target[u]
        /\ Local(u).yielded = IF yielded[u] THEN 1 ELSE 0
    BY DEF Local
  <2> QED
    BY <2>1, <2>2
<1>2. Spawned' = Spawned
  BY SameTable
<1>3. \A t, u \in Spawned' : IsCopy(body'[t], body'[u]) =>
         /\ pc'[t] = pc'[u] /\ acc'[t] = acc'[u] /\ target'[t] = target'[u]
         /\ yielded'[t] <=> yielded'[u]
  BY <1>1, <1>2 DEF futVars
<1> QED
  BY <1>3, AllAlike

\* When the copies are alike, all their wires are.
LEMMA SameWires ==
    ASSUME TypeOK, Complete, Same, Rest
    PROVE  /\ \A w \in Wire : cell[twin[w]] = cell[w]
           /\ \A w \in Registered : pending[twin[w]] = pending[w]
<1>1. \A t, u \in Spawned : IsCopy(body[t], body[u]) => Local(t) = Local(u)
  BY DEF Same
<1> QED
  BY <1>1, WiresAlike, PortsAssumption

\* An edge commits the same values in both copies.
LEMMA EdgeAlike ==
    ASSUME TypeOK, TypeOK', Complete, Same, Rest, NEW d \in Domain, on_posedge(d), UNCHANGED <<n, body, futVars>>
    PROVE  Rest' /\ Same'
<1>1. /\ \A w \in Wire : cell[twin[w]] = cell[w] /\ twin[w] \in Wire
      /\ \A w \in Registered : pending[twin[w]] = pending[w]
      /\ \A w \in Wire : twin[w] \in Registered <=> w \in Registered
      /\ \A w \in Registered : RegClock[twin[w]] = RegClock[w]
  BY SameWires, TwinAssumption, PortsAssumption
<1>2. \A w \in Wire : twin[w] \in Committing(d) <=> w \in Committing(d)
  BY <1>1 DEF Committing
<1>3. \A w \in Wire : cell'[twin[w]] = cell'[w]
  BY <1>1, <1>2 DEF on_posedge, Committing
<1>4. \A w \in Registered : pending'[twin[w]] = pending'[w]
  BY <1>1, <1>2, PortsAssumption DEF on_posedge
<1> QED
  BY <1>3, <1>4, AlikeKept

\* The testbench drives both copies from the same inputs.
LEMMA DriveAlike ==
    ASSUME TypeOK, TypeOK', Complete, Same, Rest, NEW w \in External, NEW v \in Value, Drive(w, v)
    PROVE  Rest' /\ Same'
<1>1. UNCHANGED <<n, body, futVars, pending>> /\ cell' = [cell EXCEPT ![w] = v]
  BY DEF Drive, out_write, tableVars
<1>2. /\ \A x \in Wire : cell[twin[x]] = cell[x] /\ twin[x] \in Wire /\ (twin[x] = w <=> x = w)
      /\ \A x \in Registered : pending[twin[x]] = pending[x]
  <2>1. w \in Wire /\ twin[w] = w
    BY ExecutorAssumption, TwinAssumption
  <2> QED
    BY <2>1, SameWires, TwinAssumption
<1>3. \A x \in Wire : cell'[twin[x]] = cell'[x]
  BY <1>1, <1>2 DEF TypeOK, PortsTypeOK
<1> QED
  BY <1>1, <1>2, <1>3, AlikeKept

\* A design that has not been polled is alike in its copies, whatever is added to it.
LEMMA SpawnAlike ==
    ASSUME TypeOK', MidRun, Untouched, NEW b \in Body, spawn_wired(b), n \in Nat,
           \A t \in Spawned : birth[t] = None
    PROVE  Rest' /\ Same'
<1>1. UNCHANGED <<portVars, futVars>> /\ running = 0
  BY DEF spawn_wired, MidRun, Settling
<1>2. /\ \A t \in Task : pc[t] = 1 /\ acc[t] = InitValue /\ target[t] = None /\ ~yielded[t]
      /\ \A w \in Wire \ External : cell[w] = InitValue
      /\ \A w \in Registered : pending[w] = None
  BY <1>1 DEF Untouched
<1>3. Spawned' \subseteq Task
  BY ExecutorAssumption DEF TypeOK, TableTypeOK, Spawned, Task
<1>4. \A w \in Wire : cell[twin[w]] = cell[w]
  <2> SUFFICES ASSUME NEW w \in Wire PROVE cell[twin[w]] = cell[w]
    OBVIOUS
  <2>1. CASE w \in External
    BY <2>1, TwinAssumption
  <2>2. CASE w \notin External
    <3>1. twin[w] \in Wire /\ twin[twin[w]] = w
      BY TwinAssumption
    <3>2. twin[w] \notin External
      BY <2>2, <3>1, TwinAssumption
    <3> QED
      BY <1>2, <2>2, <3>1, <3>2
  <2> QED
    BY <2>1, <2>2
<1>5. \A w \in Registered : pending[twin[w]] = pending[w]
  BY <1>2, TwinAssumption
<1>6. /\ \A w \in Wire : cell'[twin[w]] = cell'[w]
      /\ \A w \in Registered : pending'[twin[w]] = pending'[w]
      /\ \A t, u \in Spawned' : IsCopy(body'[t], body'[u]) =>
            /\ pc'[t] = pc'[u] /\ acc'[t] = acc'[u] /\ target'[t] = target'[u]
            /\ yielded'[t] <=> yielded'[u]
  BY <1>1, <1>2, <1>3, <1>4, <1>5 DEF portVars, futVars
<1> QED
  BY <1>6, AllAlike

\* A settle begins with everyone still to be polled.
LEMMA SettleBegins ==
    ASSUME TypeOK, PlanInv, stage # "panic", n' = n, body' = body, poll_tasks, Same'
    PROVE  UnderWay'
<1>1. PICK S : S = [t \in Spawned' |-> Local(t)']
  OBVIOUS
<1>2. (\A t \in Spawned : Todo(t)') /\ running' = 0 /\ Spawned' = Spawned /\ 0 \notin Spawned
  BY PollTasksCovers, SameTable DEF PlanInv, Spawned
<1>3. \A t, u \in Spawned' : IsCopy(body'[t], body'[u]) => S[t] = S[u]
  BY <1>1 DEF Same
<1>4. \A t \in Spawned' : Progress(S[t], t)'
  BY <1>1, <1>2 DEF Progress
<1> QED
  BY <1>3, <1>4 DEF UnderWay

-----------------------------------------------------------------------------
(***************************************************************************)
(* The theorem.                                                            *)
(***************************************************************************)

\* A step that leaves alone what no task drives, within a settle or out of it.
LEMMA RestKept ==
    ASSUME TypeOK, n' = n, body' = body, Complete, Rest,
           WritePort \/ UNCHANGED <<cell, pending>>
    PROVE  Rest'
<1>1. CASE UNCHANGED <<cell, pending>>
  BY <1>1, RestFrame
<1>2. CASE WritePort
  <2> DEFINE u == Instr(running).wire
  <2>1. running # 0 /\ Instr(running).op = "write" /\ Write(u, acc[running])
    BY <1>2 DEF WritePort, At
  <2>2. running \in Spawned /\ u \in Wire /\ pc[running] \in 1..Len(body[running].code)
    BY <2>1, InstrType DEF TypeOK, FutureTypeOK
  <2>3. u \in Writes(body[running])
    BY <2>1, <2>2, WritesDef DEF Instr
  <2>4. Driven(u)
    BY <2>2, <2>3 DEF Driven
  <2> HIDE DEF u
  <2>5. CASE u \in Registered
    <3>1. cell' = cell /\ pending' = [pending EXCEPT ![u] = acc[running]]
      BY <2>1, <2>5 DEF Write, regout_write
    <3>2. \A w \in Registered : w # u => pending'[w] = pending[w]
      BY <3>1 DEF TypeOK, PortsTypeOK
    <3> QED
      BY <2>4, <3>1, <3>2, RestFrame
  <2>6. CASE u \notin Registered
    <3>1. pending' = pending /\ cell' = [cell EXCEPT ![u] = acc[running]]
      BY <2>1, <2>6 DEF Write, out_write
    <3>2. \A w \in Wire : w # u => cell'[w] = cell[w]
      BY <3>1 DEF TypeOK, PortsTypeOK
    <3> QED
      BY <2>4, <2>6, <3>1, <3>2, RestFrame
  <2> QED
    BY <2>5, <2>6
<1> QED
  BY <1>1, <1>2

\* What each step of a settle does for the copies.
LEMMA SettleTwin ==
    ASSUME TypeOK, ReadsInv, OneAtATime, TwinInv, scheduler = "Levelized", stage \in Settling,
           \/ Poll \/ ReadPort \/ WritePort \/ Compute \/ Resume \/ Suspend
           \/ GroupSettled \/ Iterate \/ Panic \/ Return
    PROVE  TwinInv'
<1>0. Pass
  BY DEF ReadsInv, PlanInv
<1>1. n' = n /\ body' = body
  BY DEF Poll, ReadPort, WritePort, Compute, Resume, Suspend, GroupSettled, Iterate, Panic, Return, tableVars
<1> SUFFICES ASSUME Sound PROVE Rest' /\ (stage' \in {"idle", "edge"} => Same') /\ (stage' \in Settling => UnderWay')
  BY <1>1, SameDesign DEF TwinInv
<1>2. Rest /\ UnderWay /\ Complete /\ Acyclic /\ WellFormed
  BY DEF TwinInv, Sound
<1>3. Rest'
  <2>1. WritePort \/ UNCHANGED <<cell, pending>>
    BY DEF Poll, ReadPort, Compute, Resume, Suspend, GroupSettled, Iterate, Panic, Return, portVars
  <2> QED
    BY <1>1, <1>2, <2>1, RestKept
<1>4. ASSUME stage' \in Settling, \A t \in Spawned : \A s : Progress(s, t) => Progress(s, t)'
      PROVE  UnderWay' /\ stage' \notin {"idle", "edge"}
  <2>1. PICK S : /\ \A t, u \in Spawned : IsCopy(body[t], body[u]) => S[t] = S[u]
                 /\ \A t \in Spawned : Progress(S[t], t)
    BY <1>2 DEF UnderWay
  <2>2. Spawned' = Spawned
    BY <1>1, SameTable
  <2>3. \A t \in Spawned : Progress(S[t], t)'
    BY <1>4, <2>1
  <2> QED
    BY <1>1, <1>4, <2>1, <2>2, <2>3 DEF UnderWay, Settling
<1>5. CASE Poll \/ ReadPort \/ WritePort \/ Compute \/ Resume \/ Suspend \/ GroupSettled
  <2>1. stage' = stage
    BY <1>5 DEF Poll, ReadPort, WritePort, Compute, Resume, Suspend, GroupSettled
  <2>2. \A t \in Spawned : \A s : Progress(s, t) => Progress(s, t)'
    BY <1>0, <1>5, PollBegins, RunSteps, SuspendHalts, GroupEnds
  <2> QED
    BY <1>3, <1>4, <2>1, <2>2
<1>6. ~Iterate
  BY <1>2, NothingStale DEF Iterate, PassDone
<1>7. CASE Panic
  BY <1>3, <1>7 DEF Panic, Settling
<1>8. CASE Return
  <2>1. Same /\ SettleDone
    BY <1>2, <1>8, CopiesMeet DEF Return
  <2>2. UNCHANGED <<cell, pending, futVars>> /\ stage' \in {"idle", "edge"} /\ Spawned' = Spawned
    BY <1>1, <1>8, SameTable DEF Return, portVars
  <2>3. \A t \in Spawned : Local(t)' = Local(t)
    <3>1. \A w : Held(w)' = Held(w)
      BY <2>2 DEF Held
    <3> QED
      BY <1>1, <2>2, <3>1, LocalFrame DEF futVars
  <2>4. Same'
    BY <1>1, <2>1, <2>2, <2>3 DEF Same
  <2> QED
    BY <1>3, <2>2, <2>4 DEF Settling
<1> QED
  BY <1>5, <1>6, <1>7, <1>8

\* What the calls of the testbench, and the edge, do for the copies.
LEMMA CallTwin ==
    ASSUME TypeOK, TypeOK', ReadsInv, Untouched, TwinInv, stage \in {"idle", "edge"},
           n' # n => \A t \in Spawned : birth[t] = None, Caller \/ post_edge_settle
    PROVE  TwinInv'
<1>0. PlanInv /\ MidRun /\ n \in Nat /\ dom \in Domain /\ stage # "panic"
  BY ExecutorAssumption DEF ReadsInv, TypeOK, TableTypeOK, PassTypeOK
<1>1. ASSUME NEW b \in Body, spawn_wired(b)
      PROVE  TwinInv'
  <2>1. n' # n /\ stage' = "idle"
    BY <1>0, <1>1 DEF spawn_wired
  <2>2. Rest' /\ Same'
    BY <1>0, <1>1, <2>1, SpawnAlike
  <2> QED
    BY <2>1, <2>2 DEF TwinInv, Settling
<1>2. CASE \A b \in Body : ~spawn_wired(b)
  <2>1. n' = n /\ body' = body
    BY <1>2 DEF Caller, Drive, set_scheduler_mode, pre_edge_settle, advance, BarePoll, post_edge_settle, tableVars
  <2> SUFFICES ASSUME Sound
               PROVE  Rest' /\ (stage' \in {"idle", "edge"} => Same') /\ (stage' \in Settling => UnderWay')
    BY <2>1, SameDesign DEF TwinInv
  <2>2. Complete /\ Rest /\ Same
    BY DEF TwinInv, Sound
  <2>3. ASSUME UNCHANGED <<cell, pending, futVars>>
        PROVE  Rest' /\ Same'
    BY <2>1, <2>2, <2>3, SameWires, AlikeKept
  <2>4. Rest' /\ Same'
    <3>1. ASSUME NEW w \in External, NEW v \in Value, Drive(w, v)
          PROVE  Rest' /\ Same'
      BY <2>2, <3>1, DriveAlike
    <3>2. ASSUME NEW d \in Domain, advance(d)
          PROVE  Rest' /\ Same'
      BY <2>1, <2>2, <3>2, EdgeAlike DEF advance
    <3>3. CASE post_edge_settle
      BY <1>0, <2>1, <2>2, <3>3, EdgeAlike DEF post_edge_settle
    <3>4. CASE (\E m \in Modes, o \in PollOrders : set_scheduler_mode(m, o))
               \/ (\E d \in Domain : pre_edge_settle(d)) \/ BarePoll
      BY <2>3, <3>4 DEF set_scheduler_mode, pre_edge_settle, BarePoll, portVars
    <3> QED
      BY <1>2, <3>1, <3>2, <3>3, <3>4 DEF Caller
  <2>5. stage' \in Settling => poll_tasks
    BY <1>2 DEF Caller, Drive, set_scheduler_mode, pre_edge_settle, advance, BarePoll, post_edge_settle, Settling
  <2> QED
    BY <1>0, <2>1, <2>4, <2>5, SettleBegins
<1> QED
  BY <1>1, <1>2

\* A stuttering step changes nothing.
LEMMA StutterTwin == TypeOK /\ TwinInv /\ UNCHANGED vars => TwinInv'
<1> SUFFICES ASSUME TypeOK, TwinInv, UNCHANGED vars PROVE TwinInv'
  OBVIOUS
<1>1. /\ UNCHANGED <<n, body, portVars, clockVars, futVars, order, groups, running, stage, seen>>
      /\ Spawned' = Spawned
  BY SameTable DEF vars, tableVars, passVars, histVars
<1>2. ClockView' = ClockView
  BY <1>1, SameClocks
<1>3. \A t \in Spawned : Local(t)' = Local(t)
  <2>1. \A w : Held(w)' = Held(w)
    BY <1>1 DEF Held, portVars
  <2> QED
    BY <1>1, <2>1, LocalFrame DEF futVars
<1>4. \A t \in Spawned : \A s : Progress(s, t) => Progress(s, t)'
  <2>1. \A t : Todo(t)' <=> Todo(t)
    BY <1>1 DEF Todo
  <2> QED
    BY <1>1, <1>2, <1>3, <2>1 DEF Progress
<1>5. UnderWay => UnderWay'
  <2> SUFFICES ASSUME UnderWay PROVE UnderWay'
    OBVIOUS
  <2>1. PICK S : /\ \A t, u \in Spawned : IsCopy(body[t], body[u]) => S[t] = S[u]
                 /\ \A t \in Spawned : Progress(S[t], t)
    BY DEF UnderWay
  <2>2. \A t \in Spawned : Progress(S[t], t)'
    BY <1>4, <2>1
  <2> QED
    BY <1>1, <2>1, <2>2 DEF UnderWay
<1>6. Same => Same'
  BY <1>1, <1>3 DEF Same
<1>7. Complete /\ Rest => Rest'
  BY <1>1, RestKept DEF portVars
<1> QED
  BY <1>1, <1>5, <1>6, <1>7, SameDesign DEF TwinInv, Sound

\* With what is proved of reads, it is inductive.
TwinsInv == ReadsInv /\ Untouched /\ OneAtATime /\ TwinInv

\* It holds before the first module is spawned.
LEMMA TwinsInvInit == Init => TwinsInv
<1> SUFFICES ASSUME Init PROVE TwinsInv
  OBVIOUS
<1>1. ReadsInv
  BY ReadsInvInit
<1>2. n = 0 /\ stage = "idle" /\ running = 0 /\ Spawned = {}
  BY DEF Init, Spawned
<1>3. /\ \A t \in Task : pc[t] = 1 /\ acc[t] = InitValue /\ target[t] = None /\ ~yielded[t]
      /\ \A w \in Wire : cell[w] = InitValue
      /\ \A w \in Registered : pending[w] = None
  BY DEF Init, PortsInit
<1>4. Untouched
  BY <1>3 DEF Untouched
<1>5. Rest
  BY <1>3, TwinAssumption, PortsAssumption DEF Rest
<1>6. Same /\ stage \notin Settling
  BY <1>2 DEF Same, Settling
<1> QED
  BY <1>1, <1>4, <1>5, <1>6 DEF TwinsInv, TwinInv, OneAtATime

\* Every step keeps it.
LEMMA TwinsInvStep ==
    ASSUME Modes = {"Levelized"}
    PROVE  /\ TypeOK /\ TypeOK' /\ Fresh /\ TwinsInv /\ [Next]_vars
           /\ [n' # n => \A t \in Spawned : birth[t] = None]_vars
           => TwinsInv'
<1> SUFFICES ASSUME TypeOK, TypeOK', Fresh, TwinsInv, [Next]_vars,
                    [n' # n => \A t \in Spawned : birth[t] = None]_vars
             PROVE  TwinsInv'
  OBVIOUS
<1>1. ReadsInv /\ Untouched /\ OneAtATime /\ TwinInv /\ PlanInv /\ MidRun
  BY DEF TwinsInv, ReadsInv
<1>2. scheduler = "Levelized"
  BY DEF TypeOK, TableTypeOK
<1>3. n' # n => \A t \in Spawned : birth[t] = None
  BY DEF vars, tableVars
<1>4. ReadsInv' /\ Untouched' /\ OneAtATime'
  BY <1>1, <1>3, ReadsInvStep, UntouchedStep, OneAtATimeStep
<1>5. TwinInv'
  <2>1. CASE Caller \/ post_edge_settle
    <3>1. stage \in {"idle", "edge"}
      BY <2>1 DEF Caller, spawn_wired, Drive, set_scheduler_mode, pre_edge_settle, advance, BarePoll,
                  post_edge_settle
    <3> QED
      BY <1>1, <1>3, <2>1, <3>1, CallTwin
  <2>2. CASE \/ Poll \/ ReadPort \/ WritePort \/ Compute \/ Resume \/ Suspend
             \/ GroupSettled \/ Iterate \/ Panic \/ Return
    <3>1. stage \in Settling
      BY <1>1, <2>2 DEF Poll, ReadPort, WritePort, Compute, Resume, Suspend, GroupSettled, Iterate, Panic,
                        Return, SettleDone, PassDone, At, MidRun
    <3> QED
      BY <1>1, <1>2, <2>2, <3>1, SettleTwin
  <2>3. CASE UNCHANGED vars
    BY <1>1, <2>3, StutterTwin
  <2> QED
    BY <2>1, <2>2, <2>3 DEF Next, Settle
<1> QED
  BY <1>4, <1>5 DEF TwinsInv

\* The order in which the levelized scheduler polls is invisible, for every design without a
\* combinational loop, whatever its modules, clock domains, spawn order and testbench: if two
\* copies of it are spawned before either is polled, and are driven from the same inputs,
\* then between any two calls both show the same value on every wire (compute_scc_plan,
\* poll_tasks_levelized).
THEOREM PollOrderInvisible ==
    ASSUME Modes = {"Levelized"}
    PROVE  Spec /\ AssembledFirst => [](comb_cycles(tasks, Registered) = {} => TwinsAgree)
<1>1. TypeOK /\ TwinsInv => (comb_cycles(tasks, Registered) = {} => TwinsAgree)
  <2> SUFFICES ASSUME TypeOK, TwinsInv, Acyclic, stage = "idle", Complete, WellFormed, NEW w \in Wire
               PROVE  cell[twin[w]] = cell[w]
    BY DEF TwinsAgree, Acyclic
  <2>1. Same /\ Rest
    BY DEF TwinsInv, TwinInv, Sound
  <2> QED
    BY <2>1, SameWires
<1>2. TypeOK /\ TypeOK' /\ Fresh /\ TwinsInv /\ [Next]_vars
         /\ [n' # n => \A t \in Spawned : birth[t] = None]_vars
      => TwinsInv'
  BY TwinsInvStep
<1> QED
  BY <1>1, <1>2, TypeCorrect, TwinsInvInit, PTL DEF Spec, AssembledFirst
=============================================================================
