----------------------------- MODULE ShirLower ------------------------------
(***************************************************************************)
(* Cycle scheduling (copper-codegen/src/shir_lower.rs): the module loop is *)
(* cut at its ticks into segments; segment k becomes phase k.  A phase has *)
(* the combinational statements before its edge and the register updates   *)
(* at it.  What executes in sequence in the source is one simultaneous     *)
(* update here, so each update is rewritten over the values before it.     *)
(*                                                                         *)
(* Statements: wire [x, e]; drive [x, e, ee] and if, match with a second   *)
(* form ee of their expression, the one that is right when it is sampled   *)
(* at the edge; for, mread and mwrite as in the source.                    *)
(***************************************************************************)
EXTENDS Fir, FiniteSets, TLC

Wire(x, e)       == [k |-> "wire", x |-> x, e |-> e]
Drive(p, e, ee)  == [k |-> "drive", x |-> p, e |-> e, ee |-> ee]
IfS(e, ee, a, b) == [k |-> "if", e |-> e, ee |-> ee, a |-> a, b |-> b]
MatchS(e, ee, arms) == [k |-> "match", e |-> e, ee |-> ee, arms |-> arms]

PhaseReg == "phase_r"
RegOf(w) == w \o "_r"          \* the register a promoted wire is kept in

(* f[x], or the variable x itself. *)
Held(f, x) == IF x \in DOMAIN f THEN f[x] ELSE Var(x)

RECURSIVE subst_vars(_, _)
subst_vars(e, f) == IF e[1] = "var" THEN Held(f, e[2])
                    ELSE MapOperands(e, LAMBDA o : subst_vars(o, f))

-----------------------------------------------------------------------------
(* Register updates.  fwd maps a name to the value the statements so far   *)
(* have given it, over the values before the segment; upd maps each        *)
(* register assigned so far to its next value.                             *)

(* An assignment: later statements see the new value, a register is        *)
(* updated with it at the edge.                                            *)
Assigned(acc, x, v, regs) ==
    [fwd |-> (x :> v) @@ acc.fwd, upd |-> IF x \in regs THEN (x :> v) @@ acc.upd ELSE acc.upd]

contains_mem_index(e) == Leafs(e, "elem") # <<>>

(* A wire is forwarded by its definition when that reads a forwarded name  *)
(* or a word of an array, which at the edge is not the word seen before.   *)
Defined(acc, x, plain, resolved) ==
    IF resolved = plain /\ ~contains_mem_index(resolved) THEN acc ELSE [acc EXCEPT !.fwd = (x :> resolved) @@ @]

(* The last update a branch makes, or the value held without one. *)
last_update_for(upd, x, fwd) == IF x \in DOMAIN upd THEN upd[x] ELSE Held(fwd, x)

(* After an `if`: registers either branch updates, and then the other      *)
(* names whose forwarded value either branch has changed.                  *)
MergedRegs(acc, c, t, e) ==
    [x \in DOMAIN t.upd \cup DOMAIN e.upd |->
        Mux(c, last_update_for(t.upd, x, acc.fwd), last_update_for(e.upd, x, acc.fwd))]

MergedWires(acc, c, t, e) ==
    LET moved == {x \in (DOMAIN t.fwd \cup DOMAIN e.fwd) \ (DOMAIN t.upd \cup DOMAIN e.upd) :
                    Held(t.fwd, x) # Held(acc.fwd, x) \/ Held(e.fwd, x) # Held(acc.fwd, x)}
    IN [x \in moved |-> IF Held(t.fwd, x) = Held(e.fwd, x) THEN Held(t.fwd, x)
                        ELSE Mux(c, Held(t.fwd, x), Held(e.fwd, x))]

(* After a `match` on c, of whose arms us are the updates: registers only. *)
MergedArms(acc, c, arms, us) ==
    LET labels == SelectSeq([i \in DOMAIN us |-> i], LAMBDA i : arms[i].p # Wild)
        other  == {i \in DOMAIN us : arms[i].p = Wild}
        val(i, x) == last_update_for(us[i], x, acc.fwd)
    IN [x \in UNION {DOMAIN us[i] : i \in DOMAIN us} |->
          Case(c, [j \in DOMAIN labels |-> <<arms[labels[j]].p, val(labels[j], x)>>],
               IF other = {} THEN Held(acc.fwd, x) ELSE val(CHOOSE i \in other : TRUE, x))]

Merged(acc, wires, regval) == [fwd |-> wires @@ regval @@ acc.fwd, upd |-> regval @@ acc.upd]
AfterIf(acc, c, t, e) == Merged(acc, MergedWires(acc, c, t, e), MergedRegs(acc, c, t, e))

RECURSIVE extract_updates(_, _, _, _)
extract_updates(ss, regs, ren, fwd0) ==
    LET step(acc, s) ==
        LET plain(e)   == subst_vars(e, ren)
            resolve(e) == subst_vars(plain(e), acc.fwd)
            inner(b)   == extract_updates(b, regs, ren, acc.fwd)
        IN
        CASE s.k = "set" -> Assigned(acc, s.x, resolve(s.e), regs)
          [] s.k = "let" -> Defined(acc, s.x, plain(s.e), resolve(s.e))
          [] s.k = "if" -> AfterIf(acc, resolve(s.e), inner(s.a), inner(s.b))
          [] s.k = "match" ->
               Merged(acc, <<>>, MergedArms(acc, resolve(s.e), s.arms, Each(s.arms, LAMBDA a : inner(a.a).upd)))
          [] OTHER -> acc
    IN FoldLeft(step, [fwd |-> fwd0, upd |-> <<>>], ss)

-----------------------------------------------------------------------------
(* Combinational statements.                                               *)

(* Every wire a segment declares, at any depth. *)
RECURSIVE collect_wire_types(_)
collect_wire_types(ss) ==
    UNION {(IF s.k = "let" THEN {s.x} ELSE {}) \cup UNION {collect_wire_types(b) : b \in ToSet(Blocks(s))} :
             s \in ToSet(ss)}

(* Nothing but memory requests and wires, and at least one request. *)
RECURSIVE AllStaging(_)
AllStaging(ss) ==
    \A i \in DOMAIN ss :
        \/ ss[i].k \in {"mread", "mwrite", "wire"}
        \/ ss[i].k = "if" /\ AllStaging(ss[i].a) /\ AllStaging(ss[i].b)

RECURSIVE HasRequest(_)
HasRequest(ss) ==
    \E s \in ToSet(ss) : s.k \in {"mread", "mwrite"} \/ \E b \in ToSet(Blocks(s)) : HasRequest(b)

is_staging_only_never(ss) == FALSE

is_staging_only(ss) == AllStaging(ss) /\ HasRequest(ss)

(* cx: the registers, wires and renames of the segment; whether drives     *)
(* that no port read precedes take the forwarded form (opening); and       *)
(* whether values are forwarded at all, which they are not in a            *)
(* combinational module, whose assignments stay in sequence.               *)
RECURSIVE lower_stmt_list(_, _, _, _)
lower_stmt(s, cx, fwd, seen) ==
    LET plain(e)   == subst_vars(e, cx.ren)
        at_edge(e) == subst_vars(plain(e), fwd)
        inner(b)   == lower_stmt_list(b, cx, fwd, seen)
    IN CASE s.k = "let" \/ (s.k = "set" /\ s.x \in cx.wires) -> <<Wire(s.x, plain(s.e))>>
         [] s.k = "write" ->
              <<Drive(s.x, IF cx.opening /\ ~seen THEN at_edge(s.e) ELSE plain(s.e), at_edge(s.e))>>
         [] s.k = "if" ->
              LET a == inner(s.a) b == inner(s.b)
                  gate == is_staging_only(a) /\ (b = <<>> \/ is_staging_only(b))
              IN IF a = <<>> /\ b = <<>> THEN <<>>
                 ELSE <<IfS(IF gate THEN at_edge(s.e) ELSE plain(s.e), at_edge(s.e), a, b)>>
         [] s.k = "match" ->
              LET arms == Each(s.arms, LAMBDA a : Arm(a.p, inner(a.a)))
              IN IF \A a \in ToSet(arms) : a.a = <<>> THEN <<>>
                 ELSE <<MatchS(plain(s.e), at_edge(s.e), arms)>>
         [] s.k = "for" ->
              LET a == inner(s.a)
              IN IF a = <<>> THEN <<>> ELSE <<For(s.x, plain(s.lo), plain(s.hi), a)>>
         [] s.k = "mread"  -> <<MemRead(s.x, at_edge(s.e))>>
         [] s.k = "mwrite" -> <<MemWrite(s.x, at_edge(s.e), at_edge(s.v))>>
         [] OTHER -> <<>>

LoweredBy(acc, s, cx, seen) ==
    [out  |-> acc.out \o lower_stmt(s, cx, acc.fwd, seen), seen |-> seen,
     fwd  |-> IF cx.forward THEN extract_updates(<<s>>, cx.regs, cx.ren, acc.fwd).fwd ELSE <<>>]

lower_stmt_list(ss, cx, fwd0, seen0) ==
    FoldLeft(LAMBDA acc, s : LoweredBy(acc, s, cx, acc.seen \/ (cx.opening /\ Mentions(s, "in") # {})),
             [out |-> <<>>, fwd |-> fwd0, seen |-> seen0], ss).out

lower_pre_edge_stmts(ss, regs, ren, opening) ==
    lower_stmt_list(ss, [regs |-> regs, ren |-> ren, opening |-> opening, forward |-> TRUE,
                         wires |-> collect_wire_types(ss)], <<>>, FALSE)

lower_comb_body(ss) ==
    lower_stmt_list(ss, [regs |-> {}, ren |-> <<>>, opening |-> FALSE, forward |-> FALSE,
                         wires |-> collect_wire_types(ss)], <<>>, FALSE)

-----------------------------------------------------------------------------
(* The statements after the last tick run first in the next cycle, before  *)
(* the head's, except that head statements they read are moved ahead.      *)

RECURSIVE shir_stmt_defs(_)
shir_stmt_defs(s) ==
    (IF s.k \in {"wire", "drive"} THEN {s.x} ELSE {})
      \cup UNION {UNION {shir_stmt_defs(t) : t \in ToSet(b)} : b \in ToSet(Blocks(s))}

SExprs(s) == CASE s.k = "wire" -> {s.e}
               [] s.k \in {"drive", "if", "match"} -> {s.e, s.ee}
               [] OTHER -> ToSet(Exprs(s))

RECURSIVE shir_stmt_uses(_)
shir_stmt_uses(s) ==
    UNION {Names(e) : e \in SExprs(s)}
      \cup UNION {UNION {shir_stmt_uses(t) : t \in ToSet(b)} : b \in ToSet(Blocks(s))}

merge_trailing_in_order(trailing, head) == trailing \o head

(* The head statements to move, by what each defines and uses and what the *)
(* trailing ones define and use.                                           *)
Hoisted(defs, uses, tdefs, tuses) ==
    LET I == DOMAIN defs
        single(i) == \A x \in defs[i] : x \notin tdefs /\ \A j \in I \ {i} : x \notin defs[j]
        Chosen[H \in SUBSET I] ==
            LET needed == tuses \cup UNION {uses[i] : i \in H}
                more   == H \cup {i \in I : defs[i] \cap needed # {} /\ single(i) /\ uses[i] \cap tdefs = {}}
            IN IF more = H THEN H ELSE Chosen[more]
        Pruned[H \in SUBSET I] ==
            LET kept == UNION {defs[i] : i \in I \ H}
                less == {i \in H : uses[i] \cap kept = {}}
            IN IF less = H THEN H ELSE Pruned[less]
    IN Pruned[Chosen[{}]]

Around(trailing, head, hoist) ==
    LET pick(S) == FlattenSeq([i \in DOMAIN head |-> IF i \in S THEN <<head[i]>> ELSE <<>>])
    IN pick(hoist) \o trailing \o pick(DOMAIN head \ hoist)

merge_trailing_before_head(trailing, head) ==
    Around(trailing, head,
           Hoisted(Each(head, shir_stmt_defs), Each(head, shir_stmt_uses),
                   UNION {shir_stmt_defs(s) : s \in ToSet(trailing)},
                   UNION {shir_stmt_uses(s) : s \in ToSet(trailing)}))

-----------------------------------------------------------------------------
(* Segments and phases.                                                    *)

split_at_ticks(body) ==
    FoldLeft(LAMBDA segs, s : IF s.k = "tick" THEN Append(segs, <<>>)
                              ELSE [segs EXCEPT ![Len(segs)] = Append(@, s)],
             << <<>> >>, body)

phase_for_segment(seg, n) == IF seg >= n THEN n - 1 ELSE seg

validate_seq_chir(body) ==
    \A i \in DOMAIN body : body[i].k \in {"if", "match"} =>
        LET RECURSIVE NoTick(_)
            NoTick(s) == LET bs == Blocks(s) IN
                         \A j \in DOMAIN bs : \A n \in DOMAIN bs[j] :
                             bs[j][n].k # "tick" /\ (bs[j][n].k \in {"if", "match"} => NoTick(bs[j][n]))
        IN NoTick(body[i])

(* The last segment each top-level wire is declared in, counted from 0. *)
TopWires(seg) == {seg[i].x : i \in {j \in DOMAIN seg : seg[j].k = "let"}}

wire_segment(segs) ==
    [x \in UNION {TopWires(segs[i]) : i \in DOMAIN segs} |->
        (CHOOSE i \in DOMAIN segs : /\ x \in TopWires(segs[i])
                                    /\ \A j \in DOMAIN segs : x \in TopWires(segs[j]) => j <= i) - 1]

find_promoted_wires(segs, ws, n) ==
    {x \in DOMAIN ws : \E i \in DOMAIN segs :
        /\ phase_for_segment(i - 1, n) # phase_for_segment(ws[x], n)
        /\ \E j \in DOMAIN segs[i] : x \in Mentions(segs[i][j], "var")}

(* A module of one tick: its two segments commit at the same edge. *)
SinglePhase(segs, regs) ==
    LET u0 == extract_updates(segs[1], regs, <<>>, <<>>)
        u1 == extract_updates(segs[2], regs, <<>>, u0.fwd)
    IN << [pre  |-> merge_trailing_before_head(lower_pre_edge_stmts(segs[2], regs, <<>>, FALSE),
                                               lower_pre_edge_stmts(segs[1], regs, <<>>, TRUE)),
           post |-> u1.upd @@ u0.upd] >>

MultiPhase(segs, regs, ws, promoted) ==
    LET n == Len(segs) - 1
        declared(x) == phase_for_segment(ws[x], n)
        ren(k)   == [x \in {y \in promoted : declared(y) < k} |-> Var(RegOf(x))]
        own(k)   == extract_updates(segs[k + 1], regs, ren(k), <<>>)
        upd(k)   == IF k < n - 1 THEN own(k).upd
                    ELSE extract_updates(segs[n + 1], regs, ren(k), own(k).fwd).upd @@ own(k).upd
        captures(k) == [r \in {RegOf(x) : x \in {y \in promoted : declared(y) = k}} |->
                          Var(CHOOSE x \in promoted : RegOf(x) = r)]
        trailing == lower_pre_edge_stmts(segs[n + 1], regs, ren(n - 1), FALSE)
        pre(k)   == lower_pre_edge_stmts(segs[k + 1], regs, ren(k), TRUE)
    IN [i \in 1..n |->
          [pre  |-> IF i = 1 /\ trailing # <<>> THEN merge_trailing_before_head(trailing, pre(0)) ELSE pre(i - 1),
           post |-> (PhaseReg :> Lit(i % n)) @@ captures(i - 1) @@ upd(i - 1)]]

(* chir: the registers, array registers and body of the module. *)
lower_seq_body(chir) ==
    LET segs == split_at_ticks(chir.body)
        n    == Len(segs) - 1
        ws   == wire_segment(segs)
        promoted == find_promoted_wires(segs, ws, n)
        regs == chir.regs \cup {RegOf(x) : x \in promoted}
    IN IF ~validate_seq_chir(chir.body) \/ n = 0 THEN [err |-> "Shir", regs |-> {}, phases |-> <<>>]
       ELSE IF n = 1 THEN [err |-> "", regs |-> regs, arrays |-> chir.arrays, phases |-> SinglePhase(segs, regs)]
       ELSE [err |-> "", regs |-> regs \cup {PhaseReg}, arrays |-> chir.arrays,
             phases |-> MultiPhase(segs, regs, ws, promoted)]
=============================================================================
