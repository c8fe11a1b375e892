-------------------------------- MODULE Cfg ---------------------------------
(***************************************************************************)
(* The control-flow graph of a module's loop and the analyses that decide  *)
(* whether the module is accepted (copper-analysis/src/cfg.rs).            *)
(*                                                                         *)
(* A node stands for one statement.  Its successors are reached in the     *)
(* same cycle (Comb) or across a clock edge (Tick).  A nested loop is one  *)
(* folded node; a ticking one also has a graph of its own.  A module is    *)
(* [pre, body, ins, outs, regouts]: outs are its plain Out ports.          *)
(***************************************************************************)
EXTENDS Fir, FiniteSets

-----------------------------------------------------------------------------
(* Syntax. *)

RECURSIVE stmt_contains_tick(_)
stmt_contains_tick(s) ==
    \/ s.k = "tick"
    \/ LET bs == Blocks(s) IN \E i \in DOMAIN bs : \E j \in DOMAIN bs[i] : stmt_contains_tick(bs[i][j])

block_has_tick(ss) == \E i \in DOMAIN ss : stmt_contains_tick(ss[i])

(* Every identifier a statement mentions as an expression, at any depth:   *)
(* assigned names and port receivers included, `let` patterns not.         *)
RECURSIVE collect_reads(_)
collect_reads(s) ==
    LET es == Exprs(s) bs == Blocks(s) IN
    UNION {Names(es[i]) : i \in DOMAIN es}
      \cup (IF s.k \in {"write", "mread", "mwrite"} THEN {s.x} ELSE IF s.k = "let" THEN {} ELSE Targets(s))
      \cup UNION {UNION {collect_reads(bs[i][j]) : j \in DOMAIN bs[i]} : i \in DOMAIN bs}

(* What one statement reads on its own; an assignment's target is a def,   *)
(* an array of which it assigns a word is not: it is a use.                *)
terminal_defs_uses(s) ==
    LET es == Exprs(s) IN
    [defs |-> IF s.k = "eset" THEN {} ELSE Targets(s),
     uses |-> UNION {Names(es[i]) : i \in DOMAIN es}
                \cup (IF s.k \in {"write", "mread", "mwrite", "eset"} THEN {s.x} ELSE {})]

(* Memory accesses: staging a read or a write, observing a result. *)
Observed(e) ==
    LET ms == Leafs(e, "data") \o Leafs(e, "ready") IN [i \in DOMAIN ms |-> [mem |-> ms[i], kind |-> "Observe"]]

RECURSIVE mem_accesses(_)
mem_accesses(s) ==
    LET es == Exprs(s) bs == Blocks(s) IN
    (CASE s.k = "mread"  -> <<[mem |-> s.x, kind |-> "StageRead"]>>
       [] s.k = "mwrite" -> <<[mem |-> s.x, kind |-> "StageWrite"]>>
       [] OTHER -> <<>>)
    \o FlattenSeq([i \in DOMAIN es |-> Observed(es[i])])
    \o FlattenSeq([i \in DOMAIN bs |-> FlattenSeq([j \in DOMAIN bs[i] |-> mem_accesses(bs[i][j])])])

(* Register candidates: names bound or assigned anywhere in the loop, and  *)
(* the variable of a ticking `for`.                                        *)
RECURSIVE DefinedInLoop(_)
DefinedInLoop(ss) ==
    UNION {LET s == ss[i] bs == Blocks(s) IN
             Targets(s)
               \cup (IF s.k = "for" /\ s.x # "_" /\ block_has_tick(s.a) THEN {s.x} ELSE {})
               \cup UNION {DefinedInLoop(bs[j]) : j \in DOMAIN bs} : i \in DOMAIN ss}

RECURSIVE breaks_enclosing_loop(_)
breaks_enclosing_loop(s) ==
    \/ s.k = "break"
    \/ /\ s.k \in {"if", "match"}
       /\ LET bs == Blocks(s) IN
          \E i \in DOMAIN bs : \E j \in DOMAIN bs[i] : breaks_enclosing_loop(bs[i][j])

(* Can a ticking nested loop be left before it ticks?  A `for` is assumed  *)
(* to run its body.                                                        *)
RECURSIVE may_exit_without_tick(_)
RECURSIVE ticks_before_any_break(_)
may_exit_without_tick(s) ==
    s.k = "while" \/ (s.k = "loop" /\ ~ticks_before_any_break(s.a))
ticks_before_any_break(ss) ==
    /\ ss # <<>>
    /\ LET s == Head(ss) IN
       CASE s.k = "tick"    -> TRUE
         [] s.k = "let"     -> ticks_before_any_break(Tail(ss))
         [] IsLoop(s)       -> stmt_contains_tick(s) /\ ~may_exit_without_tick(s)
         [] OTHER -> /\ ~breaks_enclosing_loop(s)
                     /\ ~stmt_contains_tick(s)
                     /\ ticks_before_any_break(Tail(ss))

-----------------------------------------------------------------------------
(* Construction: blocks are built backwards, each statement before the     *)
(* node control continues at.  b holds the nodes so far, the graphs of     *)
(* nested ticking loops and where break and continue go.                   *)

EmptyNode == [defs |-> {}, uses |-> {}, is_tick |-> FALSE, succs |-> <<>>, writes |-> {},
              mem |-> <<>>, folded |-> FALSE, may_exit |-> FALSE]
Builder(sig) == [nodes |-> <<>>, nested |-> <<>>, brk |-> 0, cont |-> 0, sig |-> sig]
new_node(b, n) == [at |-> Len(b.nodes) + 1, b |-> [b EXCEPT !.nodes = Append(@, n)]]
Comb(n) == <<n, "Comb">>

MkCfg(b, head, defined, exit, nestedTick) ==
    [nodes |-> b.nodes, head |-> head, defined_in_loop |-> defined, exit |-> exit,
     comb_outputs |-> b.sig.outs, inputs |-> b.sig.ins,
     nested_ticking_loops |-> b.nested, has_nested_tick |-> nestedTick]

CombSuccs(c, n)  == {e[1] : e \in {x \in ToSet(c.nodes[n].succs) : x[2] = "Comb"}}
Nodes(c)         == DOMAIN c.nodes

(* The nodes reached from seen over same-cycle edges, none left at stop. *)
RECURSIVE Grow(_, _, _)
Grow(c, seen, stop) ==
    LET more == seen \cup UNION {CombSuccs(c, n) : n \in seen \ stop}
    IN IF more = seen THEN seen ELSE Grow(c, more, stop)

tick_free_reaches(c, a, b) == b \in Grow(c, {a}, {})

(* The accesses a loop makes in the cycle it is entered. *)
entry_cycle_mem(c) ==
    FlattenSeq([i \in Nodes(c) |-> IF tick_free_reaches(c, c.head, i) THEN c.nodes[i].mem ELSE <<>>])

RECURSIVE build_block(_, _, _)
RECURSIVE build_stmt(_, _, _)
RECURSIVE nested_loop_cfg(_, _)
build_block(ss, next, b) ==
    IF ss = <<>> THEN [at |-> next, b |-> b]
    ELSE LET r == build_block(Tail(ss), next, b) IN build_stmt(Head(ss), r.at, r.b)

build_stmt(s, next, b) ==
    LET du == terminal_defs_uses(s) IN
    CASE s.k = "tick" -> new_node(b, [EmptyNode EXCEPT !.is_tick = TRUE, !.succs = <<<<next, "Tick">>>>])
      [] s.k \in {"if", "match"} ->
           LET bs == Blocks(s)
               r  == FoldLeft(LAMBDA acc, blk :
                                LET x == build_block(blk, next, acc.b)
                                IN [succs |-> Append(acc.succs, Comb(x.at)), b |-> x.b],
                              [succs |-> <<>>, b |-> b], bs)
           IN new_node(r.b, [EmptyNode EXCEPT !.uses = du.uses, !.mem = Observed(s.e), !.succs = r.succs])
      [] s.k = "break"    -> new_node(b, [EmptyNode EXCEPT !.succs = <<Comb(IF b.brk = 0 THEN next ELSE b.brk)>>])
      [] s.k = "continue" -> new_node(b, [EmptyNode EXCEPT !.succs = <<Comb(b.cont)>>])
      [] IsLoop(s) ->
           LET ticks == stmt_contains_tick(s)
               sub   == nested_loop_cfg(s.a, b.sig)
               b2    == IF ticks THEN [b EXCEPT !.nested = Append(@, sub)] ELSE b
           IN new_node(b2, [EmptyNode EXCEPT
                 !.uses = collect_reads(s), !.is_tick = ticks, !.folded = TRUE,
                 !.mem = IF ticks THEN entry_cycle_mem(sub) ELSE mem_accesses(s),
                 !.may_exit = ticks /\ may_exit_without_tick(s),
                 !.succs = <<<<next, IF ticks THEN "Tick" ELSE "Comb">>>>,
                 !.writes = b.sig.outs])
      [] OTHER -> new_node(b, [EmptyNode EXCEPT
                 !.defs = du.defs, !.uses = du.uses, !.mem = mem_accesses(s), !.succs = <<Comb(next)>>,
                 !.writes = IF s.k = "write" THEN {s.x} \cap b.sig.outs ELSE {}])

(* Node 1 is the head of the nested loop, node 2 the target of its breaks. *)
nested_loop_cfg(body, sig) ==
    LET b0 == [Builder(sig) EXCEPT !.nodes = <<EmptyNode, EmptyNode>>, !.cont = 1, !.brk = 2]
        r  == build_block(body, 1, b0)
    IN MkCfg([r.b EXCEPT !.nodes[1].succs = <<Comb(r.at)>>], 1, {}, 0, TRUE)

(* The graph of the module's loop; its head is node 1. *)
build(mod) ==
    LET b0 == [Builder(mod) EXCEPT !.nodes = <<EmptyNode>>, !.cont = 1]
        r  == build_block(mod.body, 1, b0)
    IN MkCfg([r.b EXCEPT !.nodes[1].succs = <<Comb(r.at)>>], 1, DefinedInLoop(mod.body), 0,
             \E i \in DOMAIN mod.body : mod.body[i].k # "tick" /\ stmt_contains_tick(mod.body[i]))

(* The graph of a combinational body; node 1 is where every path ends. *)
build_combinational(mod) ==
    LET r == build_block(mod.body, 1, [Builder(mod) EXCEPT !.nodes = <<EmptyNode>>])
    IN MkCfg(r.b, r.at, {}, 1, FALSE)

-----------------------------------------------------------------------------
(* Registers: candidates live across a clock edge or the loop's back edge. *)

RECURSIVE LiveIn(_, _)
LiveIn(c, live) ==
    LET out(n) == UNION {live[e[1]] : e \in ToSet(c.nodes[n].succs)}
        step   == [n \in Nodes(c) |-> c.nodes[n].uses \cup (out(n) \ c.nodes[n].defs)]
    IN IF step = live THEN live ELSE LiveIn(c, step)

liveness(c) ==
    LET live == LiveIn(c, [n \in Nodes(c) |-> {}])
    IN [n \in Nodes(c) |-> UNION {live[e[1]] : e \in ToSet(c.nodes[n].succs)}]

registers(c) ==
    LET out == liveness(c)
    IN c.defined_in_loop \cap
         (out[c.head] \cup UNION {out[n] : n \in {m \in Nodes(c) : c.nodes[m].is_tick}})

-----------------------------------------------------------------------------
(* Regions of a cycle. *)

(* Within one iteration: a path stops at a tick and at the loop head. *)
comb_reaches(c, a, b) == b \in Grow(c, {a}, {c.head})

pre_tick_region(c) == Grow(c, CombSuccs(c, c.head), {c.head}) \ {c.head}

trailing_region(c) == {n \in Nodes(c) \ {c.head} : tick_free_reaches(c, n, c.head)}

leading_read_reaches(c, w) ==
    \E r \in Nodes(c) : c.nodes[r].uses \cap c.inputs # {} /\ comb_reaches(c, r, w)

(* Explicit writes; a folded loop only claims all outputs conservatively. *)
Writes(c, n) == IF c.nodes[n].folded THEN {} ELSE c.nodes[n].writes

RECURSIVE WritesOnAllPaths(_, _, _, _)
WritesOnAllPaths(c, p, n, path) ==
    \/ p \in Writes(c, n)
    \/ /\ n \notin path
       /\ LET next == CombSuccs(c, n) \ {c.head}
          IN next # {} /\ \A m \in next : WritesOnAllPaths(c, p, m, path \cup {n})

written_on_all_paths(c, p, entries) ==
    entries # {} /\ \A n \in entries : WritesOnAllPaths(c, p, n, {})

(* The clock phase of a node: its component under same-cycle edges. *)
RECURSIVE SamePhase(_, _)
SamePhase(c, S) ==
    LET more == S \cup UNION {CombSuccs(c, n) : n \in S}
                  \cup {n \in Nodes(c) : CombSuccs(c, n) \cap S # {}}
    IN IF more = S THEN S ELSE SamePhase(c, more)

comb_phases(c) == {SamePhase(c, {n}) : n \in Nodes(c)}

RECURSIVE ReachedFrom(_, _)
ReachedFrom(c, seen) ==
    LET more == seen \cup UNION {{e[1] : e \in ToSet(c.nodes[n].succs)} : n \in seen}
    IN IF more = seen THEN seen ELSE ReachedFrom(c, more)

clock_phase_count(c) ==
    Cardinality({P \in comb_phases(c) : P \cap ReachedFrom(c, {c.head}) # {}})

crosses_more_than_one_tick(c) ==
    LET ticks == {n \in Nodes(c) : c.nodes[n].is_tick}
    IN Cardinality(ticks) >= 2 \/ \E n \in ticks : c.nodes[n].folded

-----------------------------------------------------------------------------
(* The guards.  Each returns the ports it objects to, or whether it passes. *)

post_tick_writes(c, t) ==
    LET start == c.nodes[t].succs[1][1]
    IN UNION {Writes(c, n) : n \in {m \in Grow(c, {start}, {c.head}) \ {c.head} : ~c.nodes[m].is_tick}}

(* A plain Out written on both sides of a bare tick, the first write       *)
(* deferred to the pre-edge by a leading read.                             *)
RECURSIVE multi_write_collapse(_)
multi_write_collapse(c) ==
    {p \in c.comb_outputs : \E t \in Nodes(c) :
        /\ c.nodes[t].is_tick /\ ~c.nodes[t].folded
        /\ p \in post_tick_writes(c, t)
        /\ \E w \in Nodes(c) : /\ p \in Writes(c, w)
                               /\ comb_reaches(c, w, t)
                               /\ leading_read_reaches(c, w)}
    \cup UNION {multi_write_collapse(sub) : sub \in ToSet(c.nested_ticking_loops)}

(* A pre-tick segment that assigns a register no read protects, and drives *)
(* a plain Out whose value depends on when the write runs.                 *)
unprotected_pretick_out_write(c) ==
    LET region == pre_tick_region(c)
        regs   == registers(c)
        driven == {p \in c.comb_outputs : \E n \in region :
                     /\ p \in Writes(c, n)
                     /\ \/ c.nodes[n].uses \cap regs # {} /\ leading_read_reaches(c, n)
                        \/ ~written_on_all_paths(c, p, CombSuccs(c, c.head))}
    IN IF \E n \in region : c.nodes[n].defs \cap regs # {} /\ ~leading_read_reaches(c, n)
       THEN driven ELSE {}

unprotected_trailing_out_write(c) ==
    LET entries == {s \in trailing_region(c) :
                      \E n \in Nodes(c) : <<s, "Tick">> \in ToSet(c.nodes[n].succs)}
        regs    == registers(c)
    IN IF ~crosses_more_than_one_tick(c) \/ ~c.has_nested_tick THEN {}
       ELSE {p \in c.comb_outputs : \E n \in trailing_region(c) :
               /\ p \in Writes(c, n)
               /\ \/ c.nodes[n].uses \cap regs # {}
                  \/ ~written_on_all_paths(c, p, entries)}

WrittenBeforeUpdate_never(c, region, w) == FALSE

(* A plain Out written before the update of a register the write reads. *)
WrittenBeforeUpdate(c, region, w) ==
    \E a \in region \ {w} :
        /\ c.nodes[a].defs \cap c.nodes[w].uses \cap registers(c) # {}
        /\ comb_reaches(c, w, a)

pretick_out_write_before_update(c) ==
    LET pre   == pre_tick_region(c)
        trail == trailing_region(c)
    IN UNION {Writes(c, w) : w \in {n \in pre : /\ leading_read_reaches(c, n)
                                                /\ WrittenBeforeUpdate(c, pre, n)}}
         \cup UNION {Writes(c, w) : w \in {n \in trail : WrittenBeforeUpdate(c, trail, n)}}

multi_phase_out_write(c) ==
    {p \in c.comb_outputs :
        Cardinality({P \in comb_phases(c) : \E n \in P : p \in Writes(c, n)}) > 1}

ZeroTimeSuccs_loops_tick(c, n) == CombSuccs(c, n)

(* Every path round the loop crosses a clock edge.  A nested loop that may *)
(* be left before its tick is also a path without one.                     *)
ZeroTimeSuccs(c, n) ==
    IF c.nodes[n].may_exit THEN {e[1] : e \in ToSet(c.nodes[n].succs)} ELSE CombSuccs(c, n)

RECURSIVE ZeroTimeReach(_, _)
ZeroTimeReach(c, seen) ==
    LET more == seen \cup UNION {ZeroTimeSuccs(c, n) : n \in seen}
    IN IF more = seen THEN seen ELSE ZeroTimeReach(c, more)

RECURSIVE check_reachability(_)
check_reachability(c) ==
    /\ \A n \in ZeroTimeReach(c, {c.head}) : n \notin ZeroTimeReach(c, ZeroTimeSuccs(c, n))
    /\ \A i \in DOMAIN c.nested_ticking_loops : check_reachability(c.nested_ticking_loops[i])

(* Memory ports: one access per bus and cycle, a result observed only      *)
(* after the edge that produces it, and only where something is staged.    *)
RECURSIVE staged_ports(_)
staged_ports(c) ==
    UNION {{a.mem : a \in {x \in ToSet(c.nodes[n].mem) : x.kind = "StageRead"}} : n \in Nodes(c)}
      \cup UNION {staged_ports(sub) : sub \in ToSet(c.nested_ticking_loops)}

RECURSIVE check_memory_staging_inner(_, _)
check_memory_staging_inner(c, require_staging) ==
    LET acc(n)   == c.nodes[n].mem
        at(n, i) == acc(n)[i]
        sites    == {s \in UNION {{n} \X DOMAIN acc(n) : n \in Nodes(c)} :
                       /\ at(s[1], s[2]).kind # "Observe"
                       /\ c.nodes[s[1]].folded => \A j \in 1..(s[2] - 1) : at(s[1], j) # at(s[1], s[2])}
        staged(m) == {n \in Nodes(c) : \E i \in DOMAIN acc(n) : acc(n)[i] = [mem |-> m, kind |-> "StageRead"]}
    IN /\ \A n \in Nodes(c) : c.nodes[n].folded /\ ~c.nodes[n].is_tick => acc(n) = <<>>
       /\ \A s, t \in sites : s # t /\ acc(s[1])[s[2]] = acc(t[1])[t[2]] =>
                                 ~tick_free_reaches(c, s[1], t[1])
       /\ \A n \in Nodes(c) : \A i \in DOMAIN acc(n) : acc(n)[i].kind = "Observe" =>
             LET m == acc(n)[i].mem IN
             IF staged(m) = {} THEN ~require_staging \/ m \in staged_ports(c)
             ELSE \E s \in staged(m) : ~tick_free_reaches(c, s, n)
       /\ \A i \in DOMAIN c.nested_ticking_loops :
             check_memory_staging_inner(c.nested_ticking_loops[i], FALSE)

check_memory_staging(c) == check_memory_staging_inner(c, TRUE)

(* Plain Outs fed from a memory result, through same-cycle locals, in a    *)
(* module with more than one clock phase.                                  *)
Observes(c, n) == \E i \in DOMAIN c.nodes[n].mem : c.nodes[n].mem[i].kind = "Observe"

RECURSIVE MemTaint(_, _)
MemTaint(c, tainted) ==
    LET more == tainted \cup (UNION {c.nodes[n].defs : n \in
                   {m \in Nodes(c) : Observes(c, m) \/ c.nodes[m].uses \cap tainted # {}}} \ registers(c))
    IN IF more = tainted THEN tainted ELSE MemTaint(c, more)

memory_result_drives_plain_out(c) ==
    IF Cardinality(comb_phases(c)) < 2 THEN {}
    ELSE UNION {Writes(c, n) : n \in
           {m \in Nodes(c) : Observes(c, m) \/ c.nodes[m].uses \cap MemTaint(c, {}) # {}}}

(* Combinational bodies: an output assigned on some paths but not all. *)
RECURSIVE MustWrite(_, _, _)
MustWrite(c, n, p) ==
    \/ p \in c.nodes[n].writes
    \/ n # c.exit /\ \A m \in CombSuccs(c, n) : MustWrite(c, m, p)

check_definite_assignment(c) ==
    c.exit = 0 \/ \A p \in c.comb_outputs :
        (\E n \in Grow(c, {c.head}, {}) : p \in c.nodes[n].writes) => MustWrite(c, c.head, p)

-----------------------------------------------------------------------------
(* Read timing: a read is Deferred to the pre-edge settle iff a tick       *)
(* follows it within the iteration.  Tags are in source order.             *)

TimesIn(e, after) == LET rs == Leafs(e, "in")
                     IN [i \in DOMAIN rs |-> IF after THEN "Deferred" ELSE "Immediate"]

(* In a module without registers, what feeds a plain Out directly feeds a  *)
(* wire, and is read at once.                                              *)
passthrough_read(s, ctx) == ctx.combinational_segment /\ s.k = "write" /\ s.x \in ctx.outs

RECURSIVE classify_block(_, _, _)
RECURSIVE classify_stmt(_, _, _)
classify_block(ss, tail, ctx) ==
    FlattenSeq([i \in DOMAIN ss |->
        classify_stmt(ss[i], tail \/ block_has_tick(SubSeq(ss, i + 1, Len(ss))), ctx)])

classify_stmt(s, after, ctx) ==
    LET es   == Exprs(s) bs == Blocks(s)
        gate == /\ s.k # "for" /\ stmt_contains_tick(s)
        cond == FlattenSeq([i \in DOMAIN es |->
                   TimesIn(es[i], ~passthrough_read(s, ctx) /\ (after \/ gate))])
    IN cond \o FlattenSeq([i \in DOMAIN bs |-> classify_block(bs[i], ~IsLoop(s) /\ after, ctx)])

classify_reads(mod) ==
    IF mod.ins = {} THEN <<>>
    ELSE classify_block(mod.pre \o <<Loop(mod.body)>>, FALSE,
           [combinational_segment |-> registers(build(mod)) = {}, outs |-> mod.outs])
=============================================================================
