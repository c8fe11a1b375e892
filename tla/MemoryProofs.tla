---------------------------- MODULE MemoryProofs -----------------------------
(***************************************************************************)
(* Memory implements MemorySpec, for every number of ports, every latency, *)
(* every address space and every length of run.                            *)
(***************************************************************************)
EXTENDS Memory, TLAPS, WellFoundedInduction

\* Stage s of a write pipeline holds the write issued s cycles ago.
InFlightIsHistory ==
    \A p \in WPort, s \in WStage :
        write_pipeline[p][s] = IF s <= now THEN wlog[now - s][p] ELSE None

\* The staged addresses are this cycle's reads, and the log of the future is empty.
CallsAreHistory ==
    /\ \A p \in RPort : pending_read_addr[p] = rlog[now][p]
    /\ \A c \in Cycle : c > now => /\ \A p \in RPort : rlog[c][p] = None
                                   /\ \A p \in WPort : wlog[c][p] = None

\* The inductive invariant.  DataIsHistory and ReadsAreHistory say nothing of the
\* calls still in the pipelines, which the next edges turn into data and answers.
IInv == TypeOK /\ DataIsHistory /\ ReadsAreHistory /\ InFlightIsHistory /\ CallsAreHistory

-----------------------------------------------------------------------------
\* A non-empty set of ports has a highest one: LastPort is well defined.
LEMMA LastPortExists ==
    ASSUME NEW S, S \subseteq WPort, S # {}
    PROVE  LastPort(S) \in S /\ \A q \in S : q <= LastPort(S)
<1> DEFINE T == {W - p : p \in S}
<1>1. W \in Nat
  BY MemoryAssumption
<1>2. \A p \in S : W - p \in Nat
  BY <1>1 DEF WPort
<1>3. T \subseteq Nat /\ T # {}
  BY <1>2
<1>4. PICK x \in T : \A y \in T : ~(<<y, x>> \in OpToRel(<, Nat))
  BY <1>3, WFMin, NatLessThanWellFounded, Zenon
<1>5. \A y \in T : ~(y < x)
  BY <1>3, <1>4 DEF OpToRel
<1>6. PICK p \in S : x = W - p
  OBVIOUS
<1>7. \A q \in S : q <= p
  BY <1>1, <1>5, <1>6 DEF WPort
<1> QED
  BY <1>7 DEF LastPort

\* A write issued now is not due at any edge so far: it changes no past value.
LEMMA WriteNotDue ==
    ASSUME TypeOK, NEW p \in WPort, NEW a \in Addr, NEW v \in Val, write(p, a, v),
           NEW b \in Addr, NEW x, NEW e \in Nat, e <= now,
           Promise!ValueAt(b, x, e)
    PROVE  Promise!ValueAt(b, x, e)'
<1>1. \A c \in Cycle, q \in WPort : Promise!Due(c, e) => c # now /\ wlog'[c][q] = wlog[c][q]
  BY MemoryAssumption DEF TypeOK, write, Promise!Due, Cycle, WPort
<1> QED
  BY <1>1 DEF Promise!ValueAt, Promise!WritesTo, Promise!Due, Promise!Cycle, Promise!WPort,
              Cycle, WPort

\* What an edge commits is what the log says is due by then.
LEMMA CommitIsHistory ==
    ASSUME TypeOK, DataIsHistory, InFlightIsHistory, NEW a \in Addr
    PROVE  Promise!ValueAt(a, Committed[a], now + 1)
<1> USE DEF Promise!Cycle, Promise!WPort
<1> DEFINE last == now + 1 - WRITE_LAT
<1>1. /\ now \in Nat /\ WRITE_LAT \in Nat /\ WRITE_LAT > 0
      /\ WRITE_LAT - 1 \in WStage /\ now - (WRITE_LAT - 1) = last
  BY MemoryAssumption DEF TypeOK, Cycle, WStage
<1>2. \A c \in Cycle : Promise!Due(c, now + 1) <=> Promise!Due(c, now) \/ c = last
  BY <1>1 DEF Promise!Due, Cycle
<1>3. \A p \in WPort : write_pipeline[p][WRITE_LAT - 1] =
                          IF WRITE_LAT - 1 <= now THEN wlog[last][p] ELSE None
  BY <1>1 DEF InFlightIsHistory
<1>4. \A p \in WPort : last \in Cycle => (p \in Committing(a) <=> Promise!WritesTo(last, p, a))
  BY <1>1, <1>3 DEF Committing, Promise!WritesTo, Cycle
<1>5. Promise!ValueAt(a, data[a], now)
  BY DEF DataIsHistory
<1>6. CASE Committing(a) = {}
  <2>1. Committed[a] = data[a]
    BY <1>6 DEF Committed
  <2>2. \A c \in Cycle, p \in WPort :
           Promise!Due(c, now + 1) /\ Promise!WritesTo(c, p, a) => Promise!Due(c, now)
    BY <1>2, <1>4, <1>6
  <2>3. \A c \in Cycle : Promise!Due(c, now) => Promise!Due(c, now + 1)
    BY <1>2
  <2> QED
    BY <1>5, <2>1, <2>2, <2>3 DEF Promise!ValueAt, Cycle, WPort
<1>7. CASE Committing(a) # {}
  <2> DEFINE p == LastPort(Committing(a))
  <2>1. p \in Committing(a) /\ p \in WPort /\ \A q \in Committing(a) : q <= p
    BY <1>7, LastPortExists DEF Committing
  <2> HIDE DEF p
  <2>2. write_pipeline[p][WRITE_LAT - 1] # None /\ last \in Cycle
    <3>1. write_pipeline[p][WRITE_LAT - 1] # None
      BY <2>1 DEF Committing
    <3>2. now \in Cycle /\ WRITE_LAT - 1 <= now
      BY <1>3, <2>1, <3>1 DEF TypeOK
    <3> QED
      BY <1>1, <3>1, <3>2, MemoryAssumption DEF Cycle
  <2>3. Committed[a] = wlog[last][p].val
    BY <1>1, <1>3, <1>7, <2>1, <2>2 DEF Committed, Cycle, p
  <2>4. Promise!Due(last, now + 1) /\ Promise!WritesTo(last, p, a)
    BY <1>2, <1>4, <2>1, <2>2
  <2>5. \A d \in Cycle, q \in WPort :
           Promise!Due(d, now + 1) /\ Promise!WritesTo(d, q, a)
             => d < last \/ (d = last /\ q <= p)
    BY <1>1, <1>2, <1>4, <2>1 DEF Promise!Due, Cycle
  <2> QED
    BY <2>1, <2>2, <2>3, <2>4, <2>5 DEF Promise!ValueAt, Cycle, WPort
<1> QED
  BY <1>6, <1>7

-----------------------------------------------------------------------------
\* Type correctness: MemoryInner's arrays keep their types under every call.
THEOREM TypeCorrect == Spec => []TypeOK
<1> USE MemoryAssumption DEF WPort, RPort, Cycle, WStage, RStage
<1>1. Init => TypeOK
  <2> SUFFICES ASSUME Init PROVE TypeOK
    OBVIOUS
  <2>1. now \in Cycle /\ data \in [Addr -> Val] /\ pending_read_addr \in [RPort -> Addr \cup {None}]
    BY DEF Init
  <2>2. /\ write_pipeline \in [WPort -> [WStage -> WriteReq \cup {None}]]
        /\ read_pipeline \in [RPort -> [RStage -> Val \cup {None}]]
    BY DEF Init
  <2>3. /\ wlog \in [Cycle -> [WPort -> WriteReq \cup {None}]]
        /\ rlog \in [Cycle -> [RPort -> Addr \cup {None}]]
    BY DEF Init
  <2>4. write_first \in BOOLEAN /\ poisoned \in BOOLEAN
    BY Zenon DEF Init
  <2> QED
    BY <2>1, <2>2, <2>3, <2>4 DEF TypeOK
<1>2. ASSUME TypeOK, [Next]_vars
      PROVE  TypeOK'
  <2> USE DEF TypeOK
  <2>1. ASSUME NEW p \in RPort, NEW a \in Addr, read(p, a)
        PROVE  TypeOK'
    BY <1>2, <2>1 DEF read
  <2>2. ASSUME NEW p \in WPort, NEW a \in Addr, NEW v \in Val, write(p, a, v)
        PROVE  TypeOK'
    <3> DEFINE req == [addr |-> a, val |-> v]
    <3>1. req \in WriteReq
      BY DEF WriteReq
    <3> HIDE DEF req
    <3>2. write_pipeline' = [write_pipeline EXCEPT ![p][0] = req]
          /\ wlog' = [wlog EXCEPT ![now][p] = req]
      BY <2>2 DEF write, req
    <3> QED
      BY <1>2, <2>2, <3>1, <3>2 DEF write
  <2>3. ASSUME NEW p \in RPort, data_not_ready(p)
        PROVE  TypeOK'
    BY <1>2, <2>3 DEF data_not_ready, histVars
  <2>4. CASE on_posedge
    <3>1. Committed \in [Addr -> Val]
      <4>1. ASSUME NEW a \in Addr, Committing(a) # {}
            PROVE  write_pipeline[LastPort(Committing(a))][WRITE_LAT - 1].val \in Val
        <5>1. LastPort(Committing(a)) \in Committing(a)
          BY <4>1, LastPortExists DEF Committing
        <5> QED
          BY <1>2, <5>1 DEF Committing, WriteReq
      <4> QED
        BY <1>2, <4>1 DEF Committed
    <3>2. write_pipeline' \in [WPort -> [WStage -> WriteReq \cup {None}]]
      BY <1>2, <2>4 DEF on_posedge, advance_write_pipelines
    <3>3. read_pipeline' \in [RPort -> [RStage -> Val \cup {None}]]
      BY <1>2, <2>4, <3>1 DEF on_posedge, advance_read_pipelines, Seen
    <3> QED
      BY <1>2, <2>4, <3>1, <3>2, <3>3
         DEF on_posedge, advance_write_pipelines, advance_read_pipelines
  <2>5. CASE UNCHANGED vars
    BY <1>2, <2>5 DEF vars, histVars
  <2> QED
    BY <1>2, <2>1, <2>2, <2>3, <2>4, <2>5 DEF Next
<1> QED
  BY <1>1, <1>2, PTL DEF Spec

-----------------------------------------------------------------------------
\* A new memory agrees with the empty history (from_data).
LEMMA InitHistory == Init => DataIsHistory /\ ReadsAreHistory /\ InFlightIsHistory /\ CallsAreHistory
<1> SUFFICES ASSUME Init
             PROVE  DataIsHistory /\ ReadsAreHistory /\ InFlightIsHistory /\ CallsAreHistory
  OBVIOUS
<1> USE MemoryAssumption DEF Init, WPort, RPort, Cycle, WStage, RStage
<1>1. DataIsHistory
  BY DEF DataIsHistory, Promise!ValueAt, Promise!WritesTo, Promise!Cycle, Promise!WPort
<1>2. ReadsAreHistory
  BY DEF ReadsAreHistory, Promise!Captured, Promise!Cycle
<1>3. InFlightIsHistory
  BY DEF InFlightIsHistory
<1>4. CallsAreHistory
  BY DEF CallsAreHistory
<1> QED
  BY <1>1, <1>2, <1>3, <1>4

\* A read adds to the log of the current cycle, which no captured answer refers to.
LEMMA ReadKeeps ==
    ASSUME IInv, TypeOK', NEW p \in RPort, NEW a \in Addr, read(p, a)
    PROVE  IInv'
<1> USE MemoryAssumption DEF IInv
<1>1. /\ now' = now /\ wlog' = wlog /\ data' = data /\ write_first' = write_first
      /\ write_pipeline' = write_pipeline /\ read_pipeline' = read_pipeline
  BY DEF read
<1>2. DataIsHistory'
  BY <1>1 DEF DataIsHistory, Promise!ValueAt, Promise!WritesTo, Promise!Due
<1>3. ReadsAreHistory'
  <2>1. \A c \in Cycle, q \in RPort : c < now => rlog'[c][q] = rlog[c][q]
    BY DEF read, TypeOK, Cycle, RPort
  <2> SUFFICES ASSUME NEW q \in RPort, NEW s \in RStage
               PROVE  Promise!Captured(now - s - 1, q, read_pipeline[q][s])'
    BY DEF ReadsAreHistory
  <2>2. Promise!Captured(now - s - 1, q, read_pipeline[q][s])
    BY DEF ReadsAreHistory
  <2>3. now - s - 1 < now
    BY DEF TypeOK, Cycle, RStage
  <2>4. now - s - 1 \in Cycle => rlog'[now - s - 1][q] = rlog[now - s - 1][q]
    BY <2>1, <2>3
  <2> QED
    BY <1>1, <2>2, <2>4 DEF Promise!Captured, Promise!ValueAt, Promise!WritesTo, Promise!Due,
                            Promise!Cycle, Cycle
<1>4. InFlightIsHistory'
  BY <1>1 DEF InFlightIsHistory
<1>5. CallsAreHistory'
  BY <1>1 DEF CallsAreHistory, read, TypeOK, Cycle, RPort
<1> QED
  BY <1>2, <1>3, <1>4, <1>5

\* A write adds to the current cycle and to stage 0, which are both not yet due.
LEMMA WriteKeeps ==
    ASSUME IInv, TypeOK', NEW p \in WPort, NEW a \in Addr, NEW v \in Val, write(p, a, v)
    PROVE  IInv'
<1> USE MemoryAssumption DEF IInv
<1>1. /\ now' = now /\ rlog' = rlog /\ data' = data /\ write_first' = write_first
      /\ pending_read_addr' = pending_read_addr /\ read_pipeline' = read_pipeline
      /\ now \in Nat
  BY DEF write, TypeOK, Cycle
<1>2. DataIsHistory'
  <2> SUFFICES ASSUME NEW b \in Addr
               PROVE  Promise!ValueAt(b, data[b], now)'
    BY DEF DataIsHistory
  <2>1. PICK x, e : x = data[b] /\ e = now
    OBVIOUS
  <2>2. Promise!ValueAt(b, x, e)
    BY <2>1 DEF DataIsHistory
  <2>3. Promise!ValueAt(b, x, e)'
    BY <1>1, <2>1, <2>2, WriteNotDue
  <2> QED
    BY <1>1, <2>1, <2>3 DEF Promise!ValueAt, Promise!Due, Promise!WritesTo
<1>3. ReadsAreHistory'
  <2> SUFFICES ASSUME NEW q \in RPort, NEW s \in RStage
               PROVE  Promise!Captured(now - s - 1, q, read_pipeline[q][s])'
    BY DEF ReadsAreHistory
  <2>1. Promise!Captured(now - s - 1, q, read_pipeline[q][s])
    BY DEF ReadsAreHistory
  <2>2. CASE now - s - 1 \in Cycle /\ rlog[now - s - 1][q] # None
    <3>1. PICK b, x, e : /\ b = rlog[now - s - 1][q]
                         /\ x = read_pipeline[q][s]
                         /\ e = IF write_first THEN (now - s - 1) + 1 ELSE now - s - 1
      OBVIOUS
    <3>2. b \in Addr /\ e \in Nat /\ e <= now
      BY <2>2, <3>1 DEF TypeOK, Cycle, RStage
    <3>3. Promise!ValueAt(b, x, e)
      BY <2>1, <2>2, <3>1 DEF Promise!Captured, Promise!Cycle, Cycle
    <3>4. Promise!ValueAt(b, x, e)'
      BY <3>2, <3>3, WriteNotDue
    <3> QED
      BY <1>1, <2>2, <3>1, <3>4 DEF Promise!Captured, Promise!ValueAt, Promise!Due,
                                    Promise!WritesTo, Promise!Cycle, Cycle
  <2>3. CASE ~(now - s - 1 \in Cycle /\ rlog[now - s - 1][q] # None)
    BY <1>1, <2>1, <2>3 DEF Promise!Captured, Promise!Cycle, Cycle
  <2> QED
    BY <2>2, <2>3
<1>4. InFlightIsHistory'
  <2> DEFINE req == [addr |-> a, val |-> v]
  <2>1. /\ write_pipeline' = [write_pipeline EXCEPT ![p][0] = req]
        /\ wlog' = [wlog EXCEPT ![now][p] = req]
    BY DEF write
  <2> HIDE DEF req
  <2> QED
    BY <1>1, <2>1 DEF InFlightIsHistory, TypeOK, Cycle, WStage, WPort
<1>5. CallsAreHistory'
  BY <1>1 DEF CallsAreHistory, write, TypeOK, Cycle, WPort
<1> QED
  BY <1>2, <1>3, <1>4, <1>5

\* An edge moves every in-flight call one stage on, and the clock with it.
LEMMA EdgeKeeps ==
    ASSUME IInv, TypeOK', on_posedge
    PROVE  IInv'
<1> USE MemoryAssumption DEF IInv
<1>1. /\ now' = now + 1 /\ rlog' = rlog /\ wlog' = wlog /\ write_first' = write_first
      /\ data' = Committed /\ now \in Nat /\ now' \in Cycle
  BY DEF on_posedge, advance_write_pipelines, TypeOK, Cycle
<1>2. DataIsHistory'
  <2> SUFFICES ASSUME NEW b \in Addr
               PROVE  Promise!ValueAt(b, data[b], now)'
    BY DEF DataIsHistory
  <2>1. Promise!ValueAt(b, Committed[b], now + 1)
    BY CommitIsHistory
  <2> QED
    BY <1>1, <2>1 DEF Promise!ValueAt, Promise!Due, Promise!WritesTo
<1>3. ReadsAreHistory'
  <2> SUFFICES ASSUME NEW q \in RPort, NEW s \in RStage
               PROVE  Promise!Captured(now - s - 1, q, read_pipeline[q][s])'
    BY DEF ReadsAreHistory
  <2>1. CASE s = 0
    <3> DEFINE mem == IF write_first THEN Committed ELSE data
    <3>1. read_pipeline'[q][0] = IF rlog[now][q] = None THEN None ELSE mem[rlog[now][q]]
      BY DEF on_posedge, advance_read_pipelines, CallsAreHistory, RStage, Seen
    <3>2. ASSUME rlog[now][q] # None
          PROVE  Promise!ValueAt(rlog[now][q], mem[rlog[now][q]], IF write_first THEN now + 1 ELSE now)
      <4>1. rlog[now][q] \in Addr
        BY <3>2 DEF TypeOK
      <4>2. Promise!ValueAt(rlog[now][q], Committed[rlog[now][q]], now + 1)
        BY <4>1, CommitIsHistory
      <4>3. Promise!ValueAt(rlog[now][q], data[rlog[now][q]], now)
        BY <4>1 DEF DataIsHistory
      <4> QED
        BY <4>2, <4>3
    <3>3. now' - s - 1 = now /\ now \in Cycle
      BY <1>1, <2>1 DEF TypeOK
    <3> HIDE DEF mem
    <3> QED
      BY <1>1, <2>1, <3>1, <3>2, <3>3 DEF Promise!Captured, Promise!ValueAt, Promise!Due,
                                          Promise!WritesTo, Promise!Cycle, Cycle
  <2>2. CASE s # 0
    <3>1. s - 1 \in RStage /\ now' - s - 1 = now - (s - 1) - 1
      BY <1>1, <2>2 DEF RStage
    <3>2. read_pipeline'[q][s] = read_pipeline[q][s - 1]
      BY <2>2 DEF on_posedge, advance_read_pipelines, RStage
    <3>3. Promise!Captured(now - (s - 1) - 1, q, read_pipeline[q][s - 1])
      BY <3>1 DEF ReadsAreHistory
    <3> QED
      BY <1>1, <3>1, <3>2, <3>3 DEF Promise!Captured, Promise!ValueAt, Promise!Due,
                                    Promise!WritesTo
  <2> QED
    BY <2>1, <2>2
<1>4. InFlightIsHistory'
  <2> SUFFICES ASSUME NEW p \in WPort, NEW s \in WStage
               PROVE  write_pipeline'[p][s] = IF s <= now' THEN wlog'[now' - s][p] ELSE None
    BY DEF InFlightIsHistory
  <2>1. write_pipeline'[p][s] = IF s = 0 THEN None ELSE write_pipeline[p][s - 1]
    BY DEF on_posedge, advance_write_pipelines
  <2>2. CASE s = 0
    BY <1>1, <2>1, <2>2 DEF CallsAreHistory, Cycle
  <2>3. CASE s # 0
    <3>1. s - 1 \in WStage /\ now' - s = now - (s - 1) /\ (s <= now' <=> s - 1 <= now)
      BY <1>1, <2>3 DEF WStage
    <3> QED
      BY <1>1, <2>1, <2>3, <3>1 DEF InFlightIsHistory
  <2> QED
    BY <2>2, <2>3
<1>5. CallsAreHistory'
  BY <1>1 DEF CallsAreHistory, on_posedge, advance_read_pipelines, Cycle
<1> QED
  BY <1>2, <1>3, <1>4, <1>5

-----------------------------------------------------------------------------
\* Every step keeps the inductive invariant.
LEMMA Invariance == Spec => []IInv
<1>1. Init /\ TypeOK => IInv
  BY InitHistory DEF IInv
<1>2. ASSUME IInv, TypeOK', [Next]_vars
      PROVE  IInv'
  <2>1. CASE \E p \in RPort, a \in Addr : read(p, a)
    BY <1>2, <2>1, ReadKeeps
  <2>2. CASE \E p \in WPort, a \in Addr, v \in Val : write(p, a, v)
    BY <1>2, <2>2, WriteKeeps
  <2>3. CASE on_posedge
    BY <1>2, <2>3, EdgeKeeps
  <2>4. CASE (\E p \in RPort : data_not_ready(p)) \/ UNCHANGED vars
    <3>1. /\ data' = data /\ write_pipeline' = write_pipeline /\ read_pipeline' = read_pipeline
          /\ pending_read_addr' = pending_read_addr /\ write_first' = write_first
          /\ now' = now /\ wlog' = wlog /\ rlog' = rlog
      BY <2>4 DEF data_not_ready, vars, histVars
    <3> QED
      BY <1>2, <3>1 DEF IInv, DataIsHistory, ReadsAreHistory, InFlightIsHistory, CallsAreHistory,
                        Promise!Captured, Promise!ValueAt, Promise!Due, Promise!WritesTo
  <2> QED
    BY <1>2, <2>1, <2>2, <2>3, <2>4 DEF Next
<1> QED
  BY <1>1, <1>2, TypeCorrect, PTL DEF Spec

\* The array is the history of the writes (advance_write_pipelines).
THEOREM DataCorrect == Spec => []DataIsHistory
BY Invariance, PTL DEF IInv

\* The read pipelines hold the answers to past reads (advance_read_pipelines).
THEOREM ReadsCorrect == Spec => []ReadsAreHistory
BY Invariance, PTL DEF IInv

\* The pipelined memory implements the latency contract of MemorySpec: every call
\* and every on_posedge is a step of it, or leaves what it shows unchanged.
THEOREM Refinement == Spec => KeepsPromise
<1>1. Init => Promise!AbsInit
  BY MemoryAssumption DEF Init, Promise!AbsInit, output, Promise!Cycle, Promise!RPort, Promise!WPort,
                          Cycle, RPort, WPort, RStage
<1>2. ASSUME IInv, IInv', [Next]_vars
      PROVE  [Promise!AbsNext]_(Promise!absVars)
  <2> USE DEF Promise!RPort, Promise!WPort, RPort, WPort
  <2>1. ASSUME NEW p \in RPort, NEW a \in Addr, read(p, a)
        PROVE  Promise!AbsRead(p, a)
    BY <2>1 DEF read, Promise!AbsRead, output
  <2>2. ASSUME NEW p \in WPort, NEW a \in Addr, NEW v \in Val, write(p, a, v)
        PROVE  Promise!AbsWrite(p, a, v)
    BY <2>2 DEF write, Promise!AbsWrite, output
  <2>3. CASE on_posedge
    <3>1. \A p \in RPort : Promise!Captured(now' - READ_LAT, p, output'[p])
      <4> SUFFICES ASSUME NEW p \in RPort
                   PROVE  Promise!Captured(now' - READ_LAT, p, output'[p])
        OBVIOUS
      <4>1. READ_LAT - 1 \in RStage /\ now' - (READ_LAT - 1) - 1 = now' - READ_LAT
        BY <1>2, MemoryAssumption DEF IInv, TypeOK, RStage, Cycle
      <4>2. Promise!Captured(now - (READ_LAT - 1) - 1, p, read_pipeline[p][READ_LAT - 1])'
        BY <1>2, <4>1 DEF IInv, ReadsAreHistory
      <4> QED
        BY <2>3, <4>1, <4>2 DEF on_posedge, output, Promise!Captured, Promise!ValueAt,
                                Promise!Due, Promise!WritesTo
    <3> QED
      BY <2>3, <3>1 DEF on_posedge, Promise!AbsEdge, Promise!AbsNext, output
  <2>4. CASE (\E p \in RPort : data_not_ready(p)) \/ UNCHANGED vars
    BY <2>4 DEF data_not_ready, vars, histVars, Promise!absVars, output
  <2> QED
    BY <1>2, <2>1, <2>2, <2>3, <2>4 DEF Next, Promise!AbsNext
<1> QED
  BY <1>1, <1>2, Invariance, PTL DEF Spec, KeepsPromise, Promise!AbsSpec
=============================================================================
