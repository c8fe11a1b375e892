------------------------------- MODULE Memory --------------------------------
(***************************************************************************)
(* The pipelined multi-port memory of copper-core/src/memory.rs, with      *)
(* history variables (now, wlog, rlog) recording the calls, and shown to   *)
(* implement MemorySpec.                                                   *)
(***************************************************************************)
EXTENDS Integers

CONSTANTS Addr, Val, None, R, W, READ_LAT, WRITE_LAT, Contents, MaxEdges

VARIABLES data,
          write_pipeline,      \* [port][stage], stage 0 the most recent
          read_pipeline,       \* [port][stage], stage READ_LAT-1 the output
          pending_read_addr,
          write_first,         \* write_first_mode
          poisoned,            \* the mutex: a panic happened while it was held
          now, wlog, rlog      \* history

output == [p \in 1..R |-> read_pipeline[p][READ_LAT - 1]]

Promise == INSTANCE MemorySpec WITH out <- output

RPort == 1..R
WPort == 1..W
RStage == 0..(READ_LAT - 1)
WStage == 0..(WRITE_LAT - 1)
Cycle == 0..MaxEdges
WriteReq == [addr : Addr, val : Val]

histVars == <<now, wlog, rlog>>
vars == <<data, write_pipeline, read_pipeline, pending_read_addr, write_first, poisoned, histVars>>

ASSUME MemoryAssumption ==
    /\ R \in Nat /\ W \in Nat /\ MaxEdges \in Nat
    /\ READ_LAT \in Nat \ {0} /\ WRITE_LAT \in Nat \ {0}
    /\ Contents \in [Addr -> Val]
    /\ None \notin Val /\ None \notin Addr /\ None \notin WriteReq

\* from_data, then write_first() or read_first().
Init ==
    /\ data = Contents
    /\ write_pipeline = [p \in WPort |-> [s \in WStage |-> None]]
    /\ read_pipeline = [p \in RPort |-> [s \in RStage |-> None]]
    /\ pending_read_addr = [p \in RPort |-> None]
    /\ write_first \in BOOLEAN
    /\ poisoned = FALSE
    /\ now = 0
    /\ wlog = [c \in Cycle |-> [p \in WPort |-> None]]
    /\ rlog = [c \in Cycle |-> [p \in RPort |-> None]]

\* ReadPort::read of an address in range; any other panics before it stages
\* anything and after it has released the lock.
read(p, a) ==
    /\ ~poisoned
    /\ pending_read_addr' = [pending_read_addr EXCEPT ![p] = a]
    /\ rlog' = [rlog EXCEPT ![now][p] = a]
    /\ UNCHANGED <<data, write_pipeline, read_pipeline, write_first, poisoned, now, wlog>>

\* WritePort::write, likewise.
write(p, a, v) ==
    /\ ~poisoned
    /\ write_pipeline' = [write_pipeline EXCEPT ![p][0] = [addr |-> a, val |-> v]]
    /\ wlog' = [wlog EXCEPT ![now][p] = [addr |-> a, val |-> v]]
    /\ UNCHANGED <<data, read_pipeline, pending_read_addr, write_first, poisoned, now, rlog>>

is_ready(p) == output[p] # None

\* ReadPort::data before the output is valid: `expect` panics inside the lock.
data_not_ready(p) ==
    /\ ~poisoned
    /\ ~is_ready(p)
    /\ poisoned' = TRUE
    /\ UNCHANGED <<data, write_pipeline, read_pipeline, pending_read_addr, write_first, histVars>>

\* advance_write_pipelines: ports in ascending order, so the last port that
\* commits to an address wins; then every pipeline shifts by one.
Committing(a) == {p \in WPort : /\ write_pipeline[p][WRITE_LAT - 1] # None
                                /\ write_pipeline[p][WRITE_LAT - 1].addr = a}
LastPort_lowest(S) == CHOOSE p \in S : \A q \in S : p <= q
LastPort(S) == CHOOSE p \in S : \A q \in S : q <= p

Committed ==
    [a \in Addr |-> IF Committing(a) = {} THEN data[a]
                    ELSE write_pipeline[LastPort(Committing(a))][WRITE_LAT - 1].val]

advance_write_pipelines_overrun ==
    /\ data' = Committed
    /\ write_pipeline' = [p \in WPort |-> [s \in 0..WRITE_LAT |->
                             IF s = 0 THEN None ELSE write_pipeline[p][s - 1]]]

advance_write_pipelines ==
    /\ data' = Committed
    /\ write_pipeline' = [p \in WPort |-> [s \in WStage |->
                             IF s = 0 THEN None ELSE write_pipeline[p][s - 1]]]

\* advance_read_pipelines: shift, then capture from mem, which is the data before
\* or after the commit.
advance_read_pipelines(mem) ==
    /\ read_pipeline' = [p \in RPort |-> [s \in RStage |->
                            IF s > 0 THEN read_pipeline[p][s - 1]
                            ELSE IF pending_read_addr[p] = None THEN None
                            ELSE mem[pending_read_addr[p]]]]
    /\ pending_read_addr' = [p \in RPort |-> None]

Seen_swapped == IF write_first THEN data ELSE Committed

\* The contents the reads of this edge see: WriteFirst or ReadFirst.
Seen == IF write_first THEN Committed ELSE data

on_posedge ==
    /\ ~poisoned
    /\ now < MaxEdges
    /\ advance_write_pipelines
    /\ advance_read_pipelines(Seen)
    /\ now' = now + 1
    /\ UNCHANGED <<write_first, poisoned, wlog, rlog>>

Next ==
    \/ \E p \in RPort, a \in Addr : read(p, a)
    \/ \E p \in WPort, a \in Addr, v \in Val : write(p, a, v)
    \/ \E p \in RPort : data_not_ready(p)
    \/ on_posedge

Spec == Init /\ [][Next]_vars
-----------------------------------------------------------------------------
(* Properties.                                                             *)

\* Type invariant: the arrays of MemoryInner keep their element types.
TypeOK ==
    /\ data \in [Addr -> Val]
    /\ write_pipeline \in [WPort -> [WStage -> WriteReq \cup {None}]]
    /\ read_pipeline \in [RPort -> [RStage -> Val \cup {None}]]
    /\ pending_read_addr \in [RPort -> Addr \cup {None}]
    /\ write_first \in BOOLEAN
    /\ poisoned \in BOOLEAN
    /\ now \in Cycle
    /\ wlog \in [Cycle -> [WPort -> WriteReq \cup {None}]]
    /\ rlog \in [Cycle -> [RPort -> Addr \cup {None}]]

\* The array holds exactly the writes that are WRITE_LAT edges old, latest cycle
\* and highest port winning, and no write is lost or applied early
\* (advance_write_pipelines).
DataIsHistory == \A a \in Addr : Promise!ValueAt(a, data[a], now)

\* Every stage of a read pipeline holds the answer to the read presented that many
\* edges ago, with the contents of its own capture edge and not of a later one
\* (advance_read_pipelines, on_posedge).
ReadsAreHistory ==
    \A p \in RPort, s \in RStage : Promise!Captured(now - s - 1, p, read_pipeline[p][s])

\* The memory keeps its promise: each call and each edge is a step of MemorySpec,
\* with the visible output READ_LAT edges behind the read that asked for it.
KeepsPromise == Promise!AbsSpec
=============================================================================
