------------------------------ MODULE Hardware ------------------------------
(***************************************************************************)
(* What the emitted module does: always_comb settles, continuous assigns   *)
(* follow it, and at a clock edge every non-blocking assignment reads the  *)
(* values before the edge.  Registers and arrays power up at 0.  A state   *)
(* is [reg, mem]: the registers, held outputs and pipeline stages, and the *)
(* memory arrays.                                                          *)
(***************************************************************************)
EXTENDS VlirLower, AsyncBody

(* Run statements in sequence.  acc.env is what later statements read,     *)
(* acc.nb the non-blocking assignments so far.                             *)
ArmTaken(arms, v) ==            \* a case's statements for the value v
    LET at(p) == SelectInSeq(arms, LAMBDA a : a.p = p)
    IN IF at(v) # 0 THEN arms[at(v)].a ELSE IF at(Wild) # 0 THEN arms[at(Wild)].a ELSE <<>>
Counted(lo, hi) == [i \in 1..(IF hi > lo THEN hi - lo ELSE 0) |-> lo + i - 1]

RECURSIVE Exec(_, _, _)
Exec(ss, acc0, ins) ==
    LET step(acc, s) ==
          LET ev(e) == Eval(e, acc.env, ins, <<>>) IN
          CASE s.k \in {"wire", "drive", "assign"} -> [acc EXCEPT !.env = Bind(@, s.x, ev(s.e))]
            [] s.k = "nb" -> [acc EXCEPT !.nb = Bind(@, s.x, ev(s.e))]
            [] s.k = "if" -> Exec(IF ev(s.e) # 0 THEN s.a ELSE s.b, acc, ins)
            [] s.k = "match" -> Exec(ArmTaken(s.arms, ev(s.e)), acc, ins)
            [] s.k = "for" ->
                 FoldLeft(LAMBDA a, i : Exec(s.a, [a EXCEPT !.env = Bind(@, s.x, i)], ins),
                          acc, Counted(ev(s.lo), ev(s.hi)))
    IN FoldLeft(step, acc0, ss)

Multi(v) == Len(v.phases) > 1
CombWires(v) == UNION {OfKind(v.phases[i].comb, {"wire"}) : i \in DOMAIN v.phases}
CombPorts(v) == UNION {OfKind(v.phases[i].comb, {"drive"}) : i \in DOMAIN v.phases}
HeldOuts(v) == UNION {OfKind(v.phases[i].ff, {"nb"}) : i \in DOMAIN v.phases}
Staged(v) == {v.pipes[i].x : i \in DOMAIN v.pipes}

PowerUp(v, mod) ==
    [reg |-> [x \in v.regs \cup HeldOuts(v) \cup Staged(v) |-> 0],
     mem |-> [m \in DOMAIN mod.mems |-> mod.mems[m].init]
               @@ [m \in DOMAIN v.arrays |-> [a \in 0..(Word - 1) |-> 0]]]

(* The phases whose guard holds. *)
Active(v, hw) == IF Multi(v) THEN {hw.reg[PhaseReg] + 1} ELSE DOMAIN v.phases
InPhase(v, hw, Part(_)) ==
    FlattenSeq([i \in DOMAIN v.phases |-> IF i \in Active(v, hw) THEN Part(v.phases[i]) ELSE <<>>])

(* One pass of always_comb from env; with several phases its wires start   *)
(* at 0.  It runs again while a wire it read has changed.                  *)
comb_phase(v, hw, env, ins) ==
    LET zero == IF Multi(v) THEN [x \in CombWires(v) |-> 0] ELSE <<>>
    IN Exec(InPhase(v, hw, LAMBDA ph : ph.comb), [env |-> zero @@ env, nb |-> <<>>], ins).env

RECURSIVE Settled(_, _, _, _, _)
Settled(v, hw, env, ins, n) ==
    LET next == comb_phase(v, hw, env, ins)
    IN IF next = env \/ n = 0 THEN env ELSE Settled(v, hw, next, ins, n - 1)

(* Every net of the module: registers, wires, ports, read-data nets. *)
ReadNets(v, hw, env, ins) ==
    LET ev(e) == Eval(e, env, ins, <<>>)
        data(m) == LET n == v.nets[m] IN
                   IF ev(n.hit) # 0 THEN ev(n.data) ELSE hw.mem[m][ev(n.addr)]
    IN [x \in {mem_net(m, "rd_data") : m \in DOMAIN v.nets} |->
          data(CHOOSE m \in DOMAIN v.nets : mem_net(m, "rd_data") = x)]

Driven(v, hw, env, ins) == Exec(v.assigns, [env |-> ReadNets(v, hw, env, ins) @@ env, nb |-> <<>>], ins).env

Nets(v, hw, ins) ==
    Driven(v, hw, Settled(v, hw, hw.reg @@ hw.mem @@ [x \in CombWires(v) \cup CombPorts(v) |-> 0], ins, 4), ins)

(* always_ff, the memory pipelines and the array commits, all at once. *)
NonBlocking(v, hw, env, ins) ==
    LET ff(ph) == ph.ff \o Each(SetToSeq(DOMAIN ph.upd), LAMBDA x : NB(x, ph.upd[x]))
    IN Exec(InPhase(v, hw, ff) \o v.pipes, [env |-> env, nb |-> <<>>], ins).nb

Latched(v, hw, env, nb) ==
    LET commit(m) == LET c == v.commits[m] IN
                     IF env[c.en] # 0 THEN [hw.mem[m] EXCEPT ![env[c.addr]] = env[c.data]] ELSE hw.mem[m]
    IN [reg |-> [x \in DOMAIN hw.reg |-> IF x \in DOMAIN nb THEN nb[x] ELSE hw.reg[x]],
        mem |-> [m \in DOMAIN hw.mem |-> IF m \in DOMAIN v.commits THEN commit(m) ELSE hw.mem[m]]]

EdgeFrom(v, hw, env, ins) == Latched(v, hw, env, NonBlocking(v, hw, env, ins))
Edge(v, hw, ins) == EdgeFrom(v, hw, Nets(v, hw, ins), ins)

(* Output p, and the requests on the memory buses, when the nets are env. *)
Pin(env, p) == IF p \in DOMAIN env THEN env[p] ELSE 0

Requests(v, env) ==
    {<<"w", m, env[mem_net(m, "wr_addr")], env[mem_net(m, "wr_data")]>> :
       m \in {x \in DOMAIN v.commits : mem_net(x, "wr_en") \in DOMAIN env /\ env[mem_net(x, "wr_en")] # 0}}

-----------------------------------------------------------------------------
(* What the linter the emitted text must pass refuses (-Wall): a name with *)
(* no declaration or two drivers, and a wire read before it is assigned or *)
(* a port assigned on some paths only in one always_comb.                  *)

Declared(v, mod) == mod.ins \cup v.regs \cup DOMAIN v.arrays \cup HeldOuts(v) \cup Staged(v)
                      \cup CombWires(v) \cup CombPorts(v) \cup {v.assigns[i].x : i \in DOMAIN v.assigns}
                      \cup {mem_net(m, "rd_data") : m \in DOMAIN v.nets}
                      \cup UNION {OfKind(v.phases[i].comb, {"for"}) : i \in DOMAIN v.phases}

OneDriver(v) ==
    LET a == {v.assigns[i].x : i \in DOMAIN v.assigns}
    IN /\ a \cap (CombPorts(v) \cup HeldOuts(v)) = {} /\ CombPorts(v) \cap HeldOuts(v) = {}
       /\ CombWires(v) \cap (v.regs \cup Staged(v)) = {}

RECURSIVE InOrder(_, _, _)
InOrder(ss, done, mine) ==       \* no wire of mine is read before it is assigned
    \/ ss = <<>>
    \/ LET s == Head(ss) IN
       /\ UNION {Names(e) : e \in VExprs(s)} \cap mine \subseteq done
       /\ \A b \in ToSet(Blocks(s)) : InOrder(b, done, mine)
       /\ InOrder(Tail(ss), done \cup OfKind(<<s>>, {"wire"}), mine)

NoLatch(v) == ~Multi(v) \/ CombPorts(v) = {}

Lints(v, mod) ==
    /\ vlir_reads(v) \subseteq Declared(v, mod)
    /\ OneDriver(v)
    /\ NoLatch(v)
    /\ \A i \in DOMAIN v.phases :
          InOrder(v.phases[i].comb, {}, OfKind(v.phases[i].comb, {"wire"}))
=============================================================================
