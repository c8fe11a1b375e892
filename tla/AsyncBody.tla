----------------------------- MODULE AsyncBody -----------------------------
(***************************************************************************)
(* How a module body runs: the future the compiler makes of it, polled by  *)
(* the executor.  A run goes from one await to the next.  The control      *)
(* stack holds the statements left to do in every enclosing block,         *)
(* innermost first.                                                        *)
(***************************************************************************)
EXTENDS Fir, TLC

CONSTANT Word    \* number of values of a data word
CONSTANT Fuel    \* statements between two awaits before a run counts as stuck

Bool(b) == IF b THEN 1 ELSE 0

Apply2_no_wrap(op, a, b) == IF op = "+" THEN a + b ELSE IF op = "-" THEN (a + Word - b) % Word ELSE Bool(a = b)

(* An operator on words; arithmetic wraps. *)
Apply2(op, a, b) ==
    CASE op = "+"  -> (a + b) % Word
      [] op = "-"  -> (a + Word - b) % Word
      [] op = "==" -> Bool(a = b)
      [] op = ">=" -> Bool(a >= b)
      [] op = "&"  -> Bool(a # 0 /\ b # 0)
      [] op = "|"  -> Bool(a # 0 \/ b # 0)

(* The value of e with locals env, input ports ins and memory outputs mem,   *)
(* each [data, ready].                                                      *)
RECURSIVE Eval(_, _, _, _)
Eval(e, env, ins, mem) ==
    CASE e[1] = "lit"  -> e[2]
      [] e[1] = "var"  -> env[e[2]]
      [] e[1] = "in"   -> ins[e[2]]
      [] e[1] = "zeros" -> [a \in 0..(Word - 1) |-> 0]
      [] e[1] = "elem" -> env[e[2]][Eval(e[3], env, ins, mem)]
      [] e[1] = "data" -> mem[e[2]].data
      [] e[1] = "ready" -> mem[e[2]].ready
      [] e[1] = "not"  -> Bool(Eval(e[2], env, ins, mem) = 0)
      [] e[1] = "mux"  -> IF Eval(e[2], env, ins, mem) # 0 THEN Eval(e[3], env, ins, mem)
                          ELSE Eval(e[4], env, ins, mem)
      [] e[1] = "case" ->
           LET v == Eval(e[2], env, ins, mem)
               i == SelectInSeq(e[3], LAMBDA a : a[1] = v)
           IN Eval(IF i = 0 THEN e[4] ELSE e[3][i][2], env, ins, mem)
      [] e[1] = "bin"  -> Apply2(e[2], Eval(e[3], env, ins, mem), Eval(e[4], env, ins, mem))

Frame(kind, rest) == [kind |-> kind, rest |-> rest, body |-> rest, x |-> "", i |-> 0, hi |-> 0]
Start(mod) == <<Frame("block", mod.pre \o <<Loop(mod.body)>>)>>

RECURSIVE Unwind(_)      \* the frames from the innermost loop outwards
Unwind(st) == IF Head(st).kind = "block" THEN Unwind(Tail(st)) ELSE st

Bind(env, x, v) == (x :> v) @@ env

(* Run a task t = [st, env, outs, staged, at] until it awaits; at becomes  *)
(* "tick", "barrier", or "stuck" when a run has no end.                    *)
RECURSIVE Run(_, _, _, _)
Run(t, ins, mem, fuel) ==
    LET f    == Head(t.st)
        up   == Tail(t.st)
        ev(e) == Eval(e, t.env, ins, mem)
        go(u) == Run(u, ins, mem, fuel - 1)
    IN
    IF fuel = 0 THEN [t EXCEPT !.at = "stuck"]
    ELSE IF f.rest = <<>> THEN
        CASE f.kind = "block" -> go([t EXCEPT !.st = up])
          [] f.kind = "loop"  -> go([t EXCEPT !.st[1].rest = f.body])
          [] f.kind = "for" /\ f.i + 1 < f.hi ->
               go([t EXCEPT !.st[1].rest = f.body, !.st[1].i = f.i + 1,
                            !.env = Bind(t.env, f.x, f.i + 1)])
          [] f.kind = "for" /\ f.i + 1 >= f.hi -> go([t EXCEPT !.st = up])
    ELSE
    LET s    == Head(f.rest)
        next == <<[f EXCEPT !.rest = Tail(@)]>> \o up
        u    == [t EXCEPT !.st = next]
        into(fr) == [t EXCEPT !.st = <<fr>> \o next]
    IN CASE s.k \in {"tick", "barrier"} -> [u EXCEPT !.at = s.k]
         [] s.k \in {"let", "set"} -> go([u EXCEPT !.env = Bind(t.env, s.x, ev(s.e))])
         [] s.k = "eset" -> go([u EXCEPT !.env[s.x] = [@ EXCEPT ![ev(s.i)] = ev(s.e)]])
         [] s.k = "tset" ->
              LET vs == [i \in DOMAIN s.es |-> ev(s.es[i])]
              IN go([u EXCEPT !.env = FoldLeft(LAMBDA env, i : Bind(env, s.xs[i], vs[i]), t.env,
                                               [i \in DOMAIN vs |-> i])])
         [] s.k = "write"  -> go([u EXCEPT !.outs[s.x] = ev(s.e)])
         [] s.k = "mread"  -> go([u EXCEPT !.staged = Append(@, <<"r", s.x, ev(s.e), 0>>)])
         [] s.k = "mwrite" -> go([u EXCEPT !.staged = Append(@, <<"w", s.x, ev(s.e), ev(s.v)>>)])
         [] s.k = "if"     -> go(into(Frame("block", IF ev(s.e) # 0 THEN s.a ELSE s.b)))
         [] s.k = "match"  ->
              LET arm == SelectInSeq(s.arms, LAMBDA a : a.p = Wild \/ a.p = ev(s.e))
              IN go(into(Frame("block", IF arm = 0 THEN <<>> ELSE s.arms[arm].a)))
         [] s.k = "loop"   -> go(into(Frame("loop", s.a)))
         [] s.k = "while"  -> go(into(Frame("loop", <<If(Not(s.e), <<Break>>, <<>>)>> \o s.a)))
         [] s.k = "for"    ->
              LET lo == ev(s.lo) hi == ev(s.hi) IN
              IF lo >= hi THEN go(u)
              ELSE go([into([Frame("for", s.a) EXCEPT !.x = s.x, !.i = lo, !.hi = hi])
                        EXCEPT !.env = Bind(t.env, s.x, lo)])
         [] s.k = "break"    -> go([t EXCEPT !.st = Tail(Unwind(t.st))])
         [] s.k = "continue" -> go([t EXCEPT !.st = [Unwind(t.st) EXCEPT ![1].rest = <<>>]])
=============================================================================
