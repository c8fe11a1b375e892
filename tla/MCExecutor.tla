----------------------------- MODULE MCExecutor ------------------------------
(***************************************************************************)
(* Instances of Executor: wires, module bodies taken from the repository's *)
(* tests and library, and the local computations they use.                 *)
(***************************************************************************)
EXTENDS Executor

CONSTANTS in, a, b, c, r, A, B, MaxVal

MCValue == 0..MaxVal
MCRegClock == [w \in {r} |-> A]

MCApply(fn, x, v) ==
    CASE fn = "load" -> v
      [] fn = "incr" -> (v + 1) % (MaxVal + 1)
      [] fn = "add"  -> (x + v) % (MaxVal + 1)
      [] fn = "or"   -> IF x > v THEN x ELSE v
      [] fn = "id"   -> x

\* Instructions.
rd(w, f) == [fn |-> f, op |-> "read", wire |-> w]
wr(w)    == [fn |-> "id", op |-> "write", wire |-> w]
incr     == [fn |-> "incr", op |-> "let", wire |-> in]
await(o) == [fn |-> "id", op |-> o, wire |-> in]

Module(d, code, reads, dirties) ==
    [code |-> code, reads |-> reads, dirties |-> dirties, dom |-> d]

\* #[hardware(combinational)] modules: add_one, or_gate, buf, and one with two outputs.
add_one(x, y) == Module(A, <<rd(x, "load"), incr, wr(y), await("yield")>>, {x}, <<y>>)
or_gate(x, f, y) == Module(A, <<rd(x, "load"), rd(f, "or"), wr(y), await("yield")>>, {x, f}, <<y>>)
buf(x, y) == Module(A, <<rd(x, "load"), wr(y), await("yield")>>, {x}, <<y>>)

fork(x, y, z) == Module(A, <<rd(x, "load"), wr(y), wr(z), await("yield")>>, {x}, <<y, z>>)

\* #[hardware(sequential)] modules of domain d.
counter(d, y) == Module(d, <<wr(y), await("tick"), incr>>, {}, <<y>>)
dff(d, x, y) == Module(d, <<rd(x, "load"), wr(y), await("tick")>>, {x}, <<y>>)
accum(d, x, y) == Module(d, <<await("barrier"), rd(x, "add"), wr(y), await("tick")>>, {x}, <<y>>)
trailing(d, x, y) == Module(d, <<wr(y), await("tick"), rd(x, "load")>>, {x}, <<y>>)

\* Every kind of module, spawned in every order, in two domains.
LevelizedBodies == {or_gate(in, r, a), buf(a, b), counter(A, a), dff(A, a, b), accum(A, b, r),
                    trailing(A, r, a), trailing(B, a, b), accum(B, in, b)}

\* Combinational modules with and without loops, fed by a counter and a RegOut.
FixpointBodies == {counter(A, a), or_gate(in, b, a), add_one(in, a), add_one(a, b), buf(a, b),
                   or_gate(a, r, b), fork(in, a, b), accum(A, in, r)}

\* A task with as many outputs as the oscillation threshold.
Fanout == {Module(A, <<rd(in, "load"), wr(a), wr(b), wr(c), await("yield")>>, {in}, <<a, b, c>>)}
=============================================================================
