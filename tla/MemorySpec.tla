----------------------------- MODULE MemorySpec ------------------------------
(***************************************************************************)
(* What copper-core's Memory promises, in terms of the calls made so far:  *)
(* a read presented in cycle c shows at the output READ_LAT edges later,   *)
(* with the value the address had when the read was captured; a write      *)
(* issued in cycle c is in memory WRITE_LAT edges later.  Nothing here     *)
(* mentions pipelines.  Cycle c is the time between edges c and c+1.       *)
(***************************************************************************)
EXTENDS Integers

CONSTANTS Addr, Val, None,
          R, W,                  \* numbers of read and write ports
          READ_LAT, WRITE_LAT,
          Contents,              \* the data the memory is constructed with
          MaxEdges               \* bound on the clock

RPort == 1..R
WPort == 1..W
Cycle == 0..MaxEdges

VARIABLES now,          \* edges so far
          wlog, rlog,   \* the last call on each port in each cycle
          write_first,  \* WriteMode
          out           \* what data() returns, None while is_ready() is false

absVars == <<now, wlog, rlog, write_first, out>>

WritesTo(c, p, a) == wlog[c][p] # None /\ wlog[c][p].addr = a
Due(c, e) == c + WRITE_LAT <= e

\* v is what address a holds once the writes due by edge e are in: the latest
\* cycle's write, and among ports of one cycle the highest port's.
ValueAt(a, v, e) ==
    \/ /\ v = Contents[a]
       /\ \A c \in Cycle, p \in WPort : Due(c, e) => ~WritesTo(c, p, a)
    \/ \E c \in Cycle, p \in WPort :
          /\ Due(c, e) /\ WritesTo(c, p, a) /\ v = wlog[c][p].val
          /\ \A d \in Cycle, q \in WPort :
                Due(d, e) /\ WritesTo(d, q, a) => d < c \/ (d = c /\ q <= p)

\* The result of a read of port p presented in cycle c.  The capturing edge is
\* c + 1, and WriteFirst lets that edge's own writes through.
Captured(c, p, v) ==
    IF c \in Cycle /\ rlog[c][p] # None
    THEN ValueAt(rlog[c][p], v, IF write_first THEN c + 1 ELSE c)
    ELSE v = None

AbsInit ==
    /\ now = 0
    /\ wlog = [c \in Cycle |-> [p \in WPort |-> None]]
    /\ rlog = [c \in Cycle |-> [p \in RPort |-> None]]
    /\ write_first \in BOOLEAN
    /\ out = [p \in RPort |-> None]

AbsRead(p, a) ==
    /\ rlog' = [rlog EXCEPT ![now][p] = a]
    /\ UNCHANGED <<now, wlog, write_first, out>>

AbsWrite(p, a, v) ==
    /\ wlog' = [wlog EXCEPT ![now][p] = [addr |-> a, val |-> v]]
    /\ UNCHANGED <<now, rlog, write_first, out>>

AbsEdge ==
    /\ now < MaxEdges
    /\ now' = now + 1
    /\ DOMAIN out' = RPort
    /\ \A p \in RPort : Captured(now' - READ_LAT, p, out'[p])
    /\ UNCHANGED <<wlog, rlog, write_first>>

AbsNext ==
    \/ \E p \in RPort, a \in Addr : AbsRead(p, a)
    \/ \E p \in WPort, a \in Addr, v \in Val : AbsWrite(p, a, v)
    \/ AbsEdge

AbsSpec == AbsInit /\ [][AbsNext]_absVars
=============================================================================
