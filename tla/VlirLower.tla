----------------------------- MODULE VlirLower ------------------------------
(***************************************************************************)
(* From scheduled phases to the shape of the emitted module                *)
(* (copper-codegen/src/vlir_lower.rs): one always_comb list per phase,     *)
(* continuous output assigns, and one always_ff list.  In always_comb a    *)
(* wire or port is assigned by `wire` or `drive`; in always_ff by `nb`.    *)
(* A match arm with pattern Wild is the case's default.  Every memory has  *)
(* one read and one write port; mems maps it to [rl, wl, write_first].     *)
(***************************************************************************)
EXTENDS ShirLower

NB(x, e) == [k |-> "nb", x |-> x, e |-> e]

(* The statements ss and all below them. *)
RECURSIVE Deep(_)
Deep(ss) == FlatMap(ss, LAMBDA s : <<s>> \o FlatMap(Blocks(s), Deep))

OfKind(ss, kinds) == {s.x : s \in {t \in ToSet(Deep(ss)) : t.k \in kinds}}

-----------------------------------------------------------------------------
(* Memory nets and pipelines.                                              *)

mem_net(m, suffix)     == m \o "_" \o suffix        \* rd_en, rd_addr, rd_data, wr_en, ...
read_stage(m, i, data) == m \o (IF data THEN "_rd_q" ELSE "_rd_v") \o ToString(i)
write_stage(m, i, suffix) == m \o "_wr_s" \o ToString(i) \o suffix

staged_read_ports(ss) == OfKind(ss, {"mread"})

(* What data() and is_ready() of m read.  A register update in the phase   *)
(* that stages a read latches at the edge that captures it, so it takes    *)
(* the value about to reach the port's output; all else takes the output.  *)
mem_binding(mems, staged, post) ==
    [m \in DOMAIN mems |->
        LET rl == mems[m].rl IN
        IF post /\ m \in staged
        THEN IF rl = 1 THEN [data |-> mem_net(m, "rd_data"), en |-> mem_net(m, "rd_en")]
             ELSE [data |-> read_stage(m, rl - 2, TRUE), en |-> read_stage(m, rl - 2, FALSE)]
        ELSE [data |-> read_stage(m, rl - 1, TRUE), en |-> read_stage(m, rl - 1, FALSE)]]

(* The updates of a phase, and which memory results each side observes. *)
Updates(phase) == {phase.post[x] : x \in DOMAIN phase.post}
Seen(es, kind) == UNION {ToSet(Leafs(e, kind)) : e \in es}

(* The expressions searched for memory results: both forms of a test, but  *)
(* of a drive only the one that is right after the edge.                   *)
collect_read_uses(ss) ==
    UNION {IF s.k = "drive" THEN {s.e} ELSE SExprs(s) : s \in ToSet(Deep(ss))}

(* The ports whose results (comb) are latched in the phase that stages the *)
(* read, and those (reg) observed any other time.                          *)
collect_phase_mem_use(phases) ==
    LET P == ToSet(phases) IN
    [reads  |-> UNION {staged_read_ports(ph.pre) : ph \in P},
     writes |-> UNION {OfKind(ph.pre, {"mwrite"}) : ph \in P},
     comb   |-> [kind \in {"data", "ready"} |->
                   UNION {Seen(Updates(ph), kind) \cap staged_read_ports(ph.pre) : ph \in P}],
     reg    |-> [kind \in {"data", "ready"} |->
                   UNION {Seen(collect_read_uses(ph.pre), kind)
                            \cup (Seen(Updates(ph), kind) \ staged_read_ports(ph.pre)) : ph \in P}]]

needs_read_en(use, m) == m \in use.comb.ready \cup use.reg.ready
needs_data_net(use, m) == m \in use.comb.data \cup use.reg.data
read_touched(use, m) == m \in use.reads \/ needs_data_net(use, m) \/ needs_read_en(use, m)

(* Stages 0..n-1 of a read port's data or valid chain are emitted. *)
read_chain_depth(mems, use, m, data) ==
    LET kind == IF data THEN "data" ELSE "ready" IN
    IF m \in use.reg[kind] THEN mems[m].rl ELSE IF m \in use.comb[kind] THEN mems[m].rl - 1 ELSE 0

mem_read_pipeline(mems, use) ==
    LET chain(m, data) ==
          [i \in 1..read_chain_depth(mems, use, m, data) |->
             NB(read_stage(m, i - 1, data),
                Var(IF i > 1 THEN read_stage(m, i - 2, data)
                    ELSE mem_net(m, IF data THEN "rd_data" ELSE "rd_en")))]
    IN FlatMap(SetToSeq(DOMAIN mems), LAMBDA m : chain(m, TRUE) \o chain(m, FALSE))

(* What commits at an edge: the nets themselves, or the last write stage. *)
write_commit_nets(mems, m) ==
    LET from(net, s) == IF mems[m].wl = 1 THEN mem_net(m, net) ELSE write_stage(m, mems[m].wl - 1, s)
    IN [en |-> from("wr_en", "v"), addr |-> from("wr_addr", "addr"), data |-> from("wr_data", "data")]

mem_write_pipeline(mems, use) ==
    LET stage(m, i, net, s) ==
          NB(write_stage(m, i, s), Var(IF i = 1 THEN mem_net(m, net) ELSE write_stage(m, i - 1, s)))
        chain(m) == FlattenSeq([i \in 1..(mems[m].wl - 1) |->
                       <<stage(m, i, "wr_en", "v"), stage(m, i, "wr_addr", "addr"),
                         stage(m, i, "wr_data", "data")>>])
    IN FlatMap(SetToSeq(use.writes), chain)

mem_write_commits(mems, use) == [m \in use.writes |-> write_commit_nets(mems, m)]

(* A read-data net is the array at the address net, or, in WriteFirst mode *)
(* when the addresses match, the write that commits at this edge.          *)
read_net_value(mems, use, m) ==
    LET w == write_commit_nets(mems, m)
        addr == Var(mem_net(m, "rd_addr"))
    IN IF mems[m].write_first /\ m \in use.writes
       THEN [addr |-> addr, hit |-> Bin("&", Var(w.en), Bin("==", Var(w.addr), addr)), data |-> Var(w.data)]
       ELSE [addr |-> addr, hit |-> Lit(0), data |-> Lit(0)]

lower_mem_decls(mems, use) ==
    [m \in {x \in DOMAIN mems : needs_data_net(use, x)} |-> read_net_value(mems, use, m)]

mem_net_defaults(use, reads, writes) ==
    LET zero(m, s) == Wire(mem_net(m, s), Lit(0)) IN
    FlatMap(SetToSeq(reads), LAMBDA m :
              (IF needs_read_en(use, m) THEN <<zero(m, "rd_en")>> ELSE <<>>) \o <<zero(m, "rd_addr")>>)
      \o FlatMap(SetToSeq(writes), LAMBDA m : <<zero(m, "wr_en"), zero(m, "wr_addr"), zero(m, "wr_data")>>)

unstaged_read_defaults(mems, use) ==
    mem_net_defaults(use, {m \in DOMAIN mems \ use.reads : read_touched(use, m)}, {})

-----------------------------------------------------------------------------
(* Statements.  b binds memory results.                                    *)

RECURSIVE lower_expr(_, _)
lower_expr(e, b) ==
    CASE e[1] = "data"  -> Var(b[e[2]].data)
      [] e[1] = "ready" -> Var(b[e[2]].en)
      [] OTHER -> MapOperands(e, LAMBDA o : lower_expr(o, b))

(* At an edge an array still holds what it held before it: where an array  *)
(* word is sampled there, the write that commits at the edge is muxed in.  *)
RECURSIVE forward_ff_mem_index(_, _, _)
forward_ff_mem_index(e, mems, use) ==
    LET m == MapOperands(e, LAMBDA o : forward_ff_mem_index(o, mems, use))
        w == write_commit_nets(mems, e[2])
    IN IF e[1] = "elem" /\ e[2] \in use.writes
       THEN Mux(Bin("&", Var(w.en), Bin("==", m[3], Var(w.addr))), Var(w.data), m)
       ELSE m

RECURSIVE forward_ff_stmts(_, _, _)
forward_ff_stmts(ss, mems, use) ==
    Each(ss, LAMBDA s : MapBlocks(MapExprs(s, LAMBDA e : forward_ff_mem_index(e, mems, use)),
                                  LAMBDA b : forward_ff_stmts(b, mems, use)))

lower_reg_updates(post, b) == [x \in DOMAIN post |-> lower_expr(post[x], b)]

lower_mem_access(s, use, b) ==
    LET e(x) == lower_expr(x, b) IN
    IF s.k = "mread"
    THEN (IF needs_read_en(use, s.x) THEN <<Wire(mem_net(s.x, "rd_en"), Lit(1))>> ELSE <<>>)
           \o <<Wire(mem_net(s.x, "rd_addr"), e(s.e))>>
    ELSE <<Wire(mem_net(s.x, "wr_en"), Lit(1)), Wire(mem_net(s.x, "wr_addr"), e(s.e)),
           Wire(mem_net(s.x, "wr_data"), e(s.v))>>

lower_comb_stmt(s, use, b) ==
    LET e(x) == lower_expr(x, b) IN
    CASE s.k \in {"mread", "mwrite"} -> lower_mem_access(s, use, b)
      [] s.k = "wire" -> <<Wire(s.x, e(s.e))>>
      [] s.k = "for"  -> <<[s EXCEPT !.lo = e(@), !.hi = e(@)]>>
      [] OTHER -> <<[s EXCEPT !.e = e(@), !.ee = e(@)]>>

RECURSIVE lower_comb_stmts(_, _, _)
lower_comb_stmts(ss, use, b) ==
    FlatMap(ss, LAMBDA s : lower_comb_stmt(MapBlocks(s, LAMBDA blk : lower_comb_stmts(blk, use, b)), use, b))

(* A drive outside any branch is a continuous assign, unless its port holds. *)
IsContinuous(s, hold) == s.k = "drive" /\ s.x \notin hold

lower_flat_stmts(ss, hold, use, b) ==
    [comb    |-> lower_comb_stmts(SelectSeq(ss, LAMBDA s : ~IsContinuous(s, hold)), use, b),
     assigns |-> Each(SelectSeq(ss, LAMBDA s : IsContinuous(s, hold)),
                      LAMBDA s : [k |-> "assign", x |-> s.x, e |-> lower_expr(s.e, b)])]

-----------------------------------------------------------------------------
(* Latches and held outputs.                                               *)

(* Labels without a default are the variants of an enum: they cover its    *)
(* encoding when there are a power of two of them.                         *)
case_is_exhaustive(arms) == Len(arms) \in {2, 4, 8}
Complete(arms) == case_is_exhaustive(arms) \/ \E i \in DOMAIN arms : arms[i].p = Wild

RECURSIVE OnAllPaths(_, _)
OnAllPaths(ss, kinds) ==
    UNION {LET s == ss[i] bs == Blocks(s) IN
             CASE s.k \in kinds -> {s.x}
               [] s.k = "if" \/ (s.k = "match" /\ Complete(s.arms)) ->
                    {x \in OnAllPaths(bs[1], kinds) : \A j \in DOMAIN bs : x \in OnAllPaths(bs[j], kinds)}
               [] OTHER -> {} : i \in DOMAIN ss}

assigned_on_all_paths(ss)  == OnAllPaths(ss, {"wire", "drive"})
assigned_on_any_path(ss)   == OfKind(ss, {"wire", "drive"})
ports_driven_all_paths(ss) == OnAllPaths(ss, {"drive"})
ports_driven_any_path(ss)  == OfKind(ss, {"drive"})

conditional_output_ports(ss) == ports_driven_any_path(ss) \ ports_driven_all_paths(ss)

check_no_latches(ss) == assigned_on_any_path(ss) \subseteq assigned_on_all_paths(ss)

(* The (port, expression) pairs of a phase's drives, and its wires. *)
shir_port_drives(ss) ==
    {<<s.x, s.e>> : s \in {t \in ToSet(Deep(ss)) : t.k = "drive"}}
shir_phase_local_wires(ss) == OfKind(ss, {"wire"})

phase_scoped_output_ports_none(phases) == {}

(* Plain Outs written in some phases only, from a wire of that phase. *)
phase_scoped_output_ports(phases) ==
    LET written(i) == OfKind(phases[i].pre, {"drive"}) IN
    IF Len(phases) < 2 THEN {}
    ELSE UNION {{d[1] : d \in {x \in shir_port_drives(phases[i].pre) :
                   /\ \E j \in DOMAIN phases : x[1] \notin written(j)
                   /\ Names(x[2]) \cap shir_phase_local_wires(phases[i].pre) # {}}} : i \in DOMAIN phases}

memory_driven_comb_outputs(phases, regouts) ==
    Len(phases) >= 2 /\ \E i \in DOMAIN phases : \E d \in shir_port_drives(phases[i].pre) :
        d[1] \notin regouts /\ Seen({d[2]}, "data") \cup Seen({d[2]}, "ready") # {}

(* An output every arm of an incomplete case drives gets a default, the    *)
(* first value an arm drives it with directly.                             *)
DrivesOf(ss, p) == SelectSeq(ss, LAMBDA s : s.k = "drive" /\ s.x = p)
first_direct_port_value(arms, p) ==
    FlatMap(arms, LAMBDA a : IF a.p = Wild THEN <<>> ELSE Each(DrivesOf(a.a, p), LAMBDA s : s.e))

(* The outputs of the list, among cond, that each of its cases defaults. *)
MooreOutputs(ss, cond) ==
    [i \in {j \in DOMAIN ss : ss[j].k = "match"} |->
        {p \in cond : /\ \A a \in ToSet(ss[i].arms) : p \in ports_driven_all_paths(a.a)
                      /\ first_direct_port_value(ss[i].arms, p) # <<>>}]

WithDefaults(ss, moore) ==
    LET default(p) ==
          LET i == CHOOSE i \in DOMAIN moore : p \in moore[i] /\ \A j \in DOMAIN moore : p \in moore[j] => i <= j
              e == first_direct_port_value(ss[i].arms, p)[1]
          IN Drive(p, e, e)
        open(i) == i \in DOMAIN moore /\ moore[i] # {} /\ \A a \in ToSet(ss[i].arms) : a.p # Wild
    IN Each(SetToSeq(UNION Range(moore)), default)
         \o [i \in DOMAIN ss |-> IF open(i) THEN [ss[i] EXCEPT !.arms = Append(@, Arm(Wild, <<>>))] ELSE ss[i]]

hoist_moore_output_defaults(ss) == WithDefaults(ss, MooreOutputs(ss, conditional_output_ports(ss)))

(* Drives of the held outputs T move to always_ff in their edge form, with *)
(* the branches around them; what is left empty is dropped.                *)
RECURSIVE split_output_regs(_, _)
split_output_reg(s, T) ==
    LET a == split_output_regs(s.a, T)
        b == split_output_regs(s.b, T)
        arms(part) == SelectSeq(Each(s.arms, LAMBDA r : Arm(r.p, split_output_regs(r.a, T)[part])),
                                LAMBDA r : r.a # <<>>)
    IN CASE s.k = "drive" /\ s.x \in T -> [comb |-> <<>>, ff |-> <<NB(s.x, s.ee)>>]
         [] s.k = "if" ->
              [comb |-> IF a.comb = <<>> /\ b.comb = <<>> THEN <<>> ELSE <<[s EXCEPT !.a = a.comb, !.b = b.comb]>>,
               ff   |-> IF a.ff = <<>> /\ b.ff = <<>> THEN <<>> ELSE <<If(s.ee, a.ff, b.ff)>>]
         [] s.k = "match" ->
              [comb |-> IF arms("comb") = <<>> THEN <<>> ELSE <<[s EXCEPT !.arms = arms("comb")]>>,
               ff   |-> IF arms("ff") = <<>> THEN <<>> ELSE <<Match(s.ee, arms("ff"))>>]
         [] OTHER -> [comb |-> <<s>>, ff |-> <<>>]
split_output_regs(ss, T) ==
    FoldLeft(LAMBDA acc, r : [comb |-> acc.comb \o r.comb, ff |-> acc.ff \o r.ff], [comb |-> <<>>, ff |-> <<>>],
             Each(ss, LAMBDA s : split_output_reg(s, T)))

(* Wires assigned only inside branches get a default ahead of everything:  *)
(* a literal first assignment moves there, any other leaves a zero there.  *)
RECURSIVE strip_nested_defaults(_, _, _, _)
strip_nested_defaults(ss, nested, keep, hoisted0) ==
    LET step(acc, s) ==
          LET r == FoldLeft(LAMBDA c, blk :
                       LET x == strip_nested_defaults(blk, TRUE, keep, c.hoisted)
                       IN [out |-> Append(c.out, x.out), hoisted |-> x.hoisted],
                     [out |-> <<>>, hoisted |-> acc.hoisted], Blocks(s))
              first == /\ nested /\ s.k = "wire" /\ s.x \notin keep
                       /\ \A i \in DOMAIN acc.hoisted : acc.hoisted[i].x # s.x
              literal == first /\ s.e[1] = "lit"
          IN [out     |-> IF literal THEN acc.out ELSE Append(acc.out, WithBlocks(s, r.out)),
              hoisted |-> IF literal THEN Append(r.hoisted, s)
                          ELSE IF first THEN Append(r.hoisted, Wire(s.x, Lit(0))) ELSE r.hoisted]
    IN FoldLeft(step, [out |-> <<>>, hoisted |-> hoisted0], ss)

hoist_branch_local_defaults(ss, protected) ==
    LET top == {s.x : s \in {t \in ToSet(ss) : t.k \in {"wire", "drive"}}}
        r   == strip_nested_defaults(ss, FALSE, top \cup protected, <<>>)
    IN r.hoisted \o r.out

-----------------------------------------------------------------------------
(* The module.                                                             *)

VExprs(s) == {s[f] : f \in {"e", "ee", "lo", "hi"} \cap DOMAIN s}
VStmts(v) == v.assigns \o v.pipes \o FlatMap(v.phases, LAMBDA ph : ph.comb \o ph.ff)

(* Every name the module reads. *)
vlir_reads(v) ==
    UNION {Names(e) : e \in UNION {VExprs(s) : s \in ToSet(Deep(VStmts(v)))}
                               \cup UNION {Range(ph.upd) : ph \in ToSet(v.phases)}
                               \cup UNION {{n.addr, n.hit, n.data} : n \in Range(v.nets)}}
      \cup UNION {{c.en, c.addr, c.data} : c \in Range(v.commits)}

RECURSIVE Prune(_, _)
Prune(ss, read) == Each(SelectSeq(ss, LAMBDA s : s.k # "wire" \/ s.x \in read),
                        LAMBDA s : MapBlocks(s, LAMBDA b : Prune(b, read)))
Pruned(v, read) == [v EXCEPT !.phases = Each(@, LAMBDA ph : [ph EXCEPT !.comb = Prune(@, read)])]

RECURSIVE drop_unread_wires(_)
drop_unread_wires(v) ==
    LET w == Pruned(v, vlir_reads(v)) IN IF w = v THEN v ELSE drop_unread_wires(w)

(* Phase i: its always_comb list, its continuous assigns, and its share of *)
(* always_ff, the held outputs (ff) and the register updates (upd).        *)
SplitHeld(moore, hold) == split_output_regs(moore, conditional_output_ports(moore) \cup hold)

lower_phase_parts(parts, upd, assigns, keep, mems, use) ==
    [comb    |-> hoist_branch_local_defaults(parts.comb, keep),
     ff      |-> forward_ff_stmts(parts.ff, mems, use),
     upd     |-> [x \in DOMAIN upd |-> forward_ff_mem_index(upd[x], mems, use)],
     assigns |-> assigns]

lower_phase(shir, mod, i, hold, use) ==
    LET ph     == shir.phases[i]
        staged == staged_read_ports(ph.pre)
        flat   == lower_flat_stmts(ph.pre, hold, use, mem_binding(mod.mems, staged, FALSE))
        nets   == mem_net_defaults(use, staged, OfKind(ph.pre, {"mwrite"}))
                    \o (IF i = 1 THEN unstaged_read_defaults(mod.mems, use) ELSE <<>>)
    IN lower_phase_parts(SplitHeld(hoist_moore_output_defaults(nets \o flat.comb), hold),
                         lower_reg_updates(ph.post, mem_binding(mod.mems, staged, TRUE)),
                         flat.assigns, shir.regs \cup mod.regouts, mod.mems, use)

Rejected(why) == [err |-> why]

HeldPorts_branched_only(phases, regouts) ==
    {p \in regouts : Len(phases) > 1 \/ DrivesOf(phases[1].pre, p) = <<>> \/ Len(DrivesOf(Deep(phases[1].pre), p)) # 1}
      \cup phase_scoped_output_ports(phases)

(* The outputs kept in a register of their own. *)
HeldPorts(phases, regouts) == regouts \cup phase_scoped_output_ports(phases)

(* The module with phases ps. *)
Assemble(ps, assigns, shir, mems, use) ==
    IF \E ph \in ToSet(ps) : ~check_no_latches(ph.comb) THEN Rejected("LatchInferred")
    ELSE IF \E i, j \in DOMAIN assigns : i # j /\ assigns[i].x = assigns[j].x THEN Rejected("MultiplyDrivenOutput")
    ELSE drop_unread_wires(
              [err |-> "", phases |-> ps, assigns |-> assigns, regs |-> shir.regs, arrays |-> shir.arrays,
               nets |-> lower_mem_decls(mems, use), commits |-> mem_write_commits(mems, use),
               pipes |-> mem_read_pipeline(mems, use) \o mem_write_pipeline(mems, use)])

Assembled(ps, shir, mems, use) == Assemble(ps, FlatMap(ps, LAMBDA ph : ph.assigns), shir, mems, use)

lower_phases(shir, mod, hold, use) ==
    Assembled([i \in DOMAIN shir.phases |-> lower_phase(shir, mod, i, hold, use)], shir, mod.mems, use)

lower_seq(shir, mod) ==
    IF memory_driven_comb_outputs(shir.phases, mod.regouts) THEN Rejected("MemoryResultDrivesPlainOutput")
    ELSE lower_phases(shir, [mod EXCEPT !.mems = shir.arrays @@ @],
                      HeldPorts(shir.phases, mod.regouts), collect_phase_mem_use(shir.phases))

(* A combinational module: no registers, nothing held. *)
CombModule(comb, assigns) ==
    IF ~check_no_latches(comb) THEN Rejected("LatchInferred")
    ELSE [err |-> "", phases |-> <<[comb |-> comb, ff |-> <<>>, upd |-> <<>>, assigns |-> assigns]>>,
          assigns |-> assigns, regs |-> {}, arrays |-> <<>>, nets |-> <<>>, commits |-> <<>>, pipes |-> <<>>]

lower_comb(ss) ==
    LET flat == lower_flat_stmts(ss, {}, <<>>, <<>>)
    IN CombModule(hoist_branch_local_defaults(flat.comb, {}), flat.assigns)
=============================================================================
