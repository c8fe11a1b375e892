--------------------------- MODULE ControlExtract ---------------------------
(***************************************************************************)
(* Control extraction: a module loop whose clock edges sit inside branches *)
(* or nested loops becomes a loop with one edge around `match pc`.  States *)
(* are numbered from 0 as in the code, so state n is states[n + 1] here.   *)
(***************************************************************************)
EXTENDS Fir

PC   == "pc"
GOTO == "goto"     \* __copper_goto, the zero-time transition
Anon == <<"ctr0", "ctr1", "ctr2">>   \* the counters of `for _ in ..`

pc_assign(n)   == Set(PC, Lit(n))
goto_marker_next_cycle(n) == Set(PC, Lit(n))

goto_marker(n) == Set(GOTO, Lit(n))
IsGoto(s)      == s.k = "set" /\ s.x = GOTO

-----------------------------------------------------------------------------
(* Where ticks, breaks and continues are. *)

RECURSIVE stmts_contain_tick(_)
stmts_contain_tick(ss) ==
    \E s \in ToSet(ss) : s.k = "tick" \/ \E b \in ToSet(Blocks(s)) : stmts_contain_tick(b)

(* A break or continue (kind) that leaves the list ss itself. *)
RECURSIVE Leaves(_, _)
Leaves(ss, kind) ==
    \E s \in ToSet(ss) : s.k = kind \/ (~IsLoop(s) /\ \E b \in ToSet(Blocks(s)) : Leaves(b, kind))

expr_diverges(s) ==
    stmts_contain_tick(<<s>>) \/ Leaves(<<s>>, "break") \/ Leaves(<<s>>, "continue")

loop_needs_extraction(body) ==
    \/ \E i \in DOMAIN body : body[i].k # "tick" /\ stmts_contain_tick(<<body[i]>>)
    \/ Leaves(body, "continue")

FirstTick(body) == IF \E i \in DOMAIN body : body[i].k = "tick"
                   THEN CHOOSE i \in DOMAIN body : /\ body[i].k = "tick"
                                                   /\ \A j \in 1..(i - 1) : body[j].k # "tick"
                   ELSE 0

RECURSIVE body_ends_at_a_clock_boundary(_)
body_ends_at_a_clock_boundary(body) ==
    IF FirstTick(body) # 0 THEN FirstTick(body) = Len(body)
    ELSE /\ body # <<>>
         /\ Last(body).k = "loop"
         /\ body_ends_at_a_clock_boundary(Last(body).a)

(* Control this pass declines; the module is then left as it is. *)
RECURSIVE unflattenable_in_stmts(_, _)
unflattenable_in_stmts(ss, inLoop) ==
    \E s \in ToSet(ss) :
        \/ s.k = "continue" /\ inLoop
        \/ s.k = "break" /\ ~inLoop
        \/ s.k = "loop" /\ ~body_ends_at_a_clock_boundary(s.a)
        \/ s.k \in {"while", "for"} /\ stmts_contain_tick(s.a)
        \/ s.k = "loop" /\ unflattenable_in_stmts(s.a, TRUE)
        \/ s.k \in {"if", "match"} /\ \E b \in ToSet(Blocks(s)) : unflattenable_in_stmts(b, inLoop)

-----------------------------------------------------------------------------
(* Desugaring: a ticking `while` is a loop that tests first; a ticking     *)
(* counted `for` is a loop that leaves before its last tick, followed by   *)
(* that tick.                                                              *)

ExitIf(c) == If(c, <<Break>>, <<>>)

RECURSIVE desugar_stmts(_)
desugar_stmts(ss) ==
    Each(ss, LAMBDA s0 :
        LET s == MapBlocks(s0, desugar_stmts) IN
        IF s.k = "while" /\ stmts_contain_tick(s.a) THEN Loop(<<ExitIf(Not(s.e))>> \o s.a) ELSE s)

(* The statements of a counted for; n anonymous counters are in use. *)
expand_counted_for(f, n) ==
    IF ~stmts_contain_tick(f.a) \/ Last(f.a).k # "tick" THEN [out |-> <<f>>, n |-> n]
    ELSE IF f.lo[1] = "lit" /\ f.hi[1] = "lit" /\ f.lo[2] >= f.hi[2]
         THEN [out |-> <<>>, n |-> n]
    ELSE LET var  == IF f.x = "_" THEN Anon[n + 1] ELSE f.x
             exit == ExitIf(Bin(">=", Var(var), f.hi))
             incr == Set(var, Bin("+", Var(var), Lit(1)))
         IN [out |-> <<Let(var, f.lo),
                       Loop(<<exit>> \o Front(f.a) \o <<incr, exit, Tick>>),
                       Tick>>,
             n   |-> IF f.x = "_" THEN n + 1 ELSE n]

RECURSIVE desugar_counted_loops(_, _)
RECURSIVE descend_counted(_, _)
desugar_counted_loops(ss, n) ==
    IF ss = <<>> THEN [out |-> <<>>, n |-> n]
    ELSE LET d == descend_counted(Head(ss), n)
             x == IF d.out.k = "for" THEN expand_counted_for(d.out, d.n)
                  ELSE [out |-> <<d.out>>, n |-> d.n]
             r == desugar_counted_loops(Tail(ss), x.n)
         IN [out |-> x.out \o r.out, n |-> r.n]

descend_counted(s, n) ==
    CASE s.k = "if" ->
           LET a == desugar_counted_loops(s.a, n)
               b == desugar_counted_loops(s.b, a.n)
           IN [out |-> [s EXCEPT !.a = a.out, !.b = b.out], n |-> b.n]
      [] s.k = "match" ->
           FoldLeft(LAMBDA acc, i :
                      LET a == desugar_counted_loops(s.arms[i].a, acc.n)
                      IN [out |-> [acc.out EXCEPT !.arms[i].a = a.out], n |-> a.n],
                    [out |-> s, n |-> n], [i \in DOMAIN s.arms |-> i])
      [] IsLoop(s) ->
           LET a == desugar_counted_loops(s.a, n)
           IN [out |-> [s EXCEPT !.a = a.out], n |-> a.n]
      [] OTHER -> [out |-> s, n |-> n]

desugar(body) == desugar_counted_loops(desugar_stmts(body), 0).out

-----------------------------------------------------------------------------
(* The flattening.  sm.states are the bodies so far, sm.brk the lowered    *)
(* continuation of each loop head whose break was met.  A context is the   *)
(* chain of enclosing loops, innermost last: its head state, what follows  *)
(* the loop, and whether running off the body's end stands for a tick.     *)

NewState(sm)          == [sm EXCEPT !.states = Append(@, <<>>)]
SetBody(sm, n, body)  == [sm EXCEPT !.states[n + 1] = body]
ModuleCtx == <<[head |-> 0, rest |-> <<>>, fallthrough |-> "ZeroTime"]>>

RECURSIVE lower_into(_, _, _)
RECURSIVE lower_loop(_, _, _, _)
lower_into(ss, sm, ctx) ==
  LET head == Last(ctx).head IN
  IF ss = <<>>
  THEN [out |-> <<IF Last(ctx).fallthrough = "AfterTick"
                  THEN pc_assign(head) ELSE goto_marker(head)>>, sm |-> sm]
  ELSE
  LET s == Head(ss) rest == Tail(ss) IN
  CASE s.k = "tick" /\ rest = <<>> -> [out |-> <<pc_assign(head)>>, sm |-> sm]
    [] s.k = "tick" /\ rest # <<>> ->
         LET next == Len(sm.states)
             r == lower_into(rest, NewState(sm), ctx)
         IN [out |-> <<pc_assign(next)>>, sm |-> SetBody(r.sm, next, r.out)]
    [] s.k = "continue" -> [out |-> <<goto_marker(head)>>, sm |-> sm]
    [] s.k = "break" ->
         IF head \in DOMAIN sm.brk THEN [out |-> sm.brk[head], sm |-> sm]
         ELSE LET r == lower_into(Last(ctx).rest, sm, Front(ctx))
              IN [out |-> r.out,
                  sm  |-> [r.sm EXCEPT !.brk = [h \in DOMAIN @ \cup {head} |->
                                                 IF h = head THEN r.out ELSE @[h]]]]
    [] s.k = "loop" -> lower_loop(s.a, rest, sm, ctx)
    [] s.k = "if" /\ expr_diverges(s) ->
         LET a == lower_into(s.a \o rest, sm, ctx)
             b == lower_into(s.b \o rest, a.sm, ctx)
         IN [out |-> <<If(s.e, a.out, b.out)>>, sm |-> b.sm]
    [] s.k = "match" /\ expr_diverges(s) ->
         LET r == FoldLeft(LAMBDA acc, arm :
                             LET a == lower_into(arm.a \o rest, acc.sm, ctx)
                             IN [arms |-> Append(acc.arms, Arm(arm.p, a.out)), sm |-> a.sm],
                           [arms |-> <<>>, sm |-> sm], s.arms)
         IN [out |-> <<Match(s.e, r.arms)>>, sm |-> r.sm]
    [] OTHER -> LET r == lower_into(rest, sm, ctx)
                IN [out |-> <<s>> \o r.out, sm |-> r.sm]

(* A nested loop `W; tick; C` repeats `C; W`, and is entered through W. *)
lower_loop(body, rest, sm, ctx) ==
    LET head  == Len(sm.states)
        inner == Append(ctx, [head |-> head, rest |-> rest, fallthrough |-> "AfterTick"])
        t     == FirstTick(body)
        W     == SubSeq(body, 1, t - 1)
    IN IF t # 0
       THEN LET h == lower_into(SubSeq(body, t + 1, Len(body)) \o W, NewState(sm), inner)
            IN lower_into(W, SetBody(h.sm, head, h.out), inner)
       ELSE LET h == lower_into(body, NewState(sm), inner)
            IN [out |-> h.out, sm |-> SetBody(h.sm, head, h.out)]

-----------------------------------------------------------------------------
(* Locals declared in one state and mentioned in another. *)

expr_mentions(e, x) == x \in ToSet(Leafs(e, "var") \o Leafs(e, "elem"))

RECURSIVE stmts_mention(_, _)
stmts_mention(ss, x) ==
    \E s \in ToSet(ss) :
        \/ s.k # "let" /\ x \in Targets(s)
        \/ \E e \in ToSet(Exprs(s)) : expr_mentions(e, x)
        \/ \E b \in ToSet(Blocks(s)) : stmts_mention(b, x)

RECURSIVE collect_locals(_)
collect_locals(ss) ==
    FlatMap(ss, LAMBDA s : IF s.k = "let" THEN <<s>> ELSE FlatMap(Blocks(s), collect_locals))

RECURSIVE convert_locals(_, _)
convert_locals(ss, names) ==
    Each(ss, LAMBDA s : IF s.k = "let" /\ s.x \in names THEN Set(s.x, s.e)
                        ELSE MapBlocks(s, LAMBDA b : convert_locals(b, names)))

MentionedElsewhere(states) ==
    FlattenSeq([i \in DOMAIN states |-> SelectSeq(collect_locals(states[i]), LAMBDA d :
                  \E j \in DOMAIN states \ {i} : stmts_mention(states[j], d.x))])

(* Each name is declared once, by the first of its declarations. *)
HoistLocals(states, decls) ==
    [hoisted |-> FoldLeft(LAMBDA ds, d : IF \E e \in ToSet(ds) : e.x = d.x THEN ds ELSE Append(ds, d), <<>>, decls),
     states  |-> Each(states, LAMBDA ss : convert_locals(ss, {d.x : d \in ToSet(decls)}))]

hoist_cross_state_locals(states) == HoistLocals(states, MentionedElsewhere(states))

-----------------------------------------------------------------------------
(* Zero-time gotos are replaced by the target's statements; a cycle of     *)
(* them makes the pass decline.  path: the states inlined so far.          *)

RECURSIVE HasGotoCycle(_, _, _)
HasGotoCycle(ss, states, path) ==
    \E s \in ToSet(ss) :
        \/ /\ IsGoto(s)
           /\ LET t == s.e[2] IN t \in path \/ HasGotoCycle(states[t + 1], states, path \cup {t})
        \/ \E b \in ToSet(Blocks(s)) : HasGotoCycle(b, states, path)

RECURSIVE splice_in_stmts(_, _)
splice_in_stmts(ss, states) ==
    FlatMap(ss, LAMBDA s : IF IsGoto(s) THEN splice_in_stmts(states[s.e[2] + 1], states)
                           ELSE <<MapBlocks(s, LAMBDA b : splice_in_stmts(b, states))>>)

-----------------------------------------------------------------------------
(* The pass.  mod.pre are the statements before the module's loop.         *)

IsAction(s) == s.k \in {"write", "mread", "mwrite", "set", "tset"}

(* The module with states S; lets are its locals before the loop. *)
MatchOnPc(mod, lets, hoisted, S) ==
    IF \E i \in DOMAIN S : HasGotoCycle(S[i], S, {i - 1}) THEN [mod EXCEPT !.pre = lets]
    ELSE [mod EXCEPT
            !.pre  = lets \o hoisted \o <<Let(PC, Lit(0))>>,
            !.body = <<Match(Var(PC), [i \in DOMAIN S |-> Arm(i - 1, splice_in_stmts(S[i], S))] \o <<Arm(Wild, <<>>)>>),
                       Tick>>]

(* h: the states and the locals hoisted out of them. *)
Extracted(mod, h) == MatchOnPc(mod, SelectSeq(mod.pre, LAMBDA s : ~IsAction(s)), h.hoisted, h.states)

extract_control(mod) ==
    IF ~loop_needs_extraction(mod.body) \/ unflattenable_in_stmts(mod.body, FALSE) THEN mod
    ELSE LET r == lower_into(mod.body, [states |-> << <<>> >>, brk |-> <<>>], ModuleCtx)
         IN Extracted(mod, hoist_cross_state_locals(SetBody(r.sm, 0, SelectSeq(mod.pre, IsAction) \o r.out).states))
=============================================================================
