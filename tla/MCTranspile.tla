---------------------------- MODULE MCTranspile -----------------------------
(***************************************************************************)
(* The modules of tests/fixtures and of the repository's examples that the *)
(* transpiler is tested on, with words of Word values.                     *)
(***************************************************************************)
EXTENDS Transpile

Plus(a, b) == Bin("+", a, b)
Inc(x)     == Set(x, Plus(Var(x), Lit(1)))
IsZero(e)  == Not(e)

Clocked(pre, body, i, o, r) ==
    [pre |-> pre, body |-> body, ins |-> i, outs |-> o, regouts |-> r, mems |-> <<>>,
     clocked |-> TRUE, allow_pretick |-> FALSE]
WithMem(p, rl, wl, wf) ==
    [p EXCEPT !.mems = "m" :> [rl |-> rl, wl |-> wl, write_first |-> wf,
                               init |-> [a \in 0..(Word - 1) |-> (a + 1) % Word]]]
Zeroed(p) == [p EXCEPT !.mems["m"].init = [a \in 0..(Word - 1) |-> 0]]
Combinational(body, i, o) == [Clocked(<<>>, body, i, o, {}) EXCEPT !.clocked = FALSE]
Zero(xs) == [i \in DOMAIN xs |-> Let(xs[i], Lit(0))]

counter == Clocked(Zero(<<"n">>), <<Write("o", Var("n")), Tick, Inc("n")>>, {}, {"o"}, {})
accumulator_en ==
    Clocked(Zero(<<"acc">>),
        <<Write("o", Var("acc")), Tick,
          If(Read("en"), <<Set("acc", Plus(Var("acc"), Read("d")))>>, <<>>)>>, {"en", "d"}, {"o"}, {})
slow_counter == Clocked(Zero(<<"n">>), <<Write("o", Var("n")), Tick, Tick, Inc("n")>>, {}, {"o"}, {})
counted_delay ==
    Clocked(<<>>, <<Write("o", Read("n")), For("_", Lit(0), Lit(3), <<Tick>>)>>, {"n"}, {}, {"o"})
counted_repetition ==
    Clocked(<<>>, <<For("i", Lit(0), Lit(3), <<Write("o", Plus(Read("d"), Var("i"))),
                                          For("_", Lit(0), Lit(2), <<Tick>>)>>)>>, {"d"}, {}, {"o"})
sync_2ff ==
    Clocked(Zero(<<"ff1", "ff2">>),
        <<Write("q", Var("ff2")), Tick, Set("ff2", Var("ff1")), Set("ff1", Read("d"))>>, {"d"}, {"q"}, {})
while_waiter ==
    Clocked(Zero(<<"n">>),
        <<Write("o", Var("n")), While(IsZero(Read("go")), <<Tick>>), Inc("n"), Tick>>, {"go"}, {}, {"o"})
skip_on_halt ==
    Clocked(<<>>, <<For("_", Lit(0), Lit(2), <<Tick>>), If(Read("halt"), <<Continue>>, <<>>),
                Write("o", Read("n")), Tick>>, {"halt", "n"}, {}, {"o"})
regout_multiphase ==
    Clocked(<<>>, <<Let("lo", Read("d")), Tick, Let("hi", Read("d")),
                Write("o", Plus(Var("lo"), Plus(Var("hi"), Var("hi")))), Tick>>, {"d"}, {}, {"o"})
capture_after_wait ==
    Clocked(<<>>, <<While(IsZero(Read("go")), <<Tick>>), Let("c", Read("d")), Tick, Write("o", Var("c")), Tick>>,
        {"go", "d"}, {}, {"o"})
mac_pipeline ==
    Clocked(<<>>, <<Let("p", Read("a")), Let("c", Read("b")), Tick, Let("s", Plus(Var("p"), Var("c"))), Tick,
                Write("o", Var("s")), Tick>>, {"a", "b"}, {"o"}, {})
det_010 ==
    Clocked(Zero(<<"s">>),
        <<If(IsZero(Read("rstn")), <<Set("s", Lit(0))>>,
             <<Set("s", Case(Var("s"), <<<<0, Mux(Read("i"), Lit(0), Lit(1))>>, <<1, Mux(Read("i"), Lit(2), Lit(1))>>,
                                         <<2, Mux(Read("i"), Lit(0), Lit(3))>>>>,
                             Mux(Read("i"), Lit(0), Lit(1))))>>),
          Tick,
          If(Bin("==", Var("s"), Lit(3)), <<Write("o", Lit(1))>>, <<Write("o", Lit(0))>>)>>,
        {"rstn", "i"}, {"o"}, {})
branch_local_counter ==
    Clocked(Zero(<<"n">>),
        <<Tick,
          If(Read("rst"), <<Set("n", Lit(0))>>,
             <<Let("up", Read("up_i")), Let("dn", Read("dn_i")),
               If(Var("up"), <<Inc("n")>>, <<>>),
               If(Var("dn"), <<Set("n", Bin("-", Var("n"), Lit(1)))>>, <<>>)>>),
          Write("o", Var("n"))>>, {"rst", "up_i", "dn_i"}, {"o"}, {})
nested_boundary ==
    Clocked(Zero(<<"n">>),
        <<Write("busy", Lit(1)),
          Loop(<<Write("acc", Var("n")), Set("n", Plus(Var("n"), Read("step"))), Tick>>)>>,
        {"step"}, {}, {"acc", "busy"})
branch_on_updated_reg ==
    Clocked(Zero(<<"c">>),
        <<Inc("c"), If(Bin("==", Var("c"), Lit(3)), <<Write("o", Read("n")), Set("c", Lit(0))>>, <<>>), Tick>>,
        {"n"}, {}, {"o"})
match_on_updated_reg ==
    Clocked(Zero(<<"s">>),
        <<If(IsZero(Var("s")), <<Set("s", Lit(1))>>, <<Set("s", Lit(0))>>),
          Match(Var("s"), <<Arm(1, <<Write("o", Read("n"))>>), Arm(Wild, <<>>)>>), Tick>>, {"n"}, {}, {"o"})
out_from_reg_after_commit ==
    Clocked(Zero(<<"acc">>),
        <<Tick, Let("d", Read("step")), Set("acc", Plus(Var("acc"), Var("d"))), Write("q", Var("acc"))>>,
        {"step"}, {"q"}, {})
out_from_reg_before_commit ==
    Clocked(Zero(<<"acc">>),
        <<Tick, Let("d", Read("step")), Write("q", Var("acc")), Set("acc", Plus(Var("acc"), Var("d")))>>,
        {"step"}, {"q"}, {})
trailing_out ==
    Clocked(Zero(<<"r">>), <<Set("r", Read("a")), Tick, Write("mid", Var("r")), Tick, Write("tail", Var("r"))>>,
        {"a"}, {"mid"}, {"tail"})
trailing_local_into_head ==
    Clocked(Zero(<<"r", "w">>),
        <<Write("o", Plus(Var("w"), Var("r"))), Tick, Set("r", Read("a")), Tick, Set("w", Plus(Var("r"), Lit(1)))>>,
        {"a"}, {"o"}, {})
divider ==
    Clocked(Zero(<<"st", "t", "n">>),
        <<Write("o", Var("n")),
          Match(Var("st"), <<Arm(Wild, <<Inc("t"),
              If(Bin("==", Var("t"), Lit(3)), <<Set("t", Lit(0)), Inc("n")>>, <<>>), Set("st", Lit(0))>>)>>),
          Tick>>, {}, {}, {"o"})
wrapping_counter ==
    Clocked(Zero(<<"v">>),
        <<Write("o", Var("v")),
          If(Read("up"), <<Inc("v"), If(Bin("==", Var("v"), Lit(3)), <<Set("v", Lit(0))>>, <<>>)>>, <<>>), Tick>>,
        {"up"}, {}, {"o"})
waiter ==
    Clocked(Zero(<<"n">>),
        <<Write("o", Var("n")), Loop(<<If(Read("go"), <<Break>>, <<>>), Tick>>), Inc("n"), Tick>>, {"go"}, {}, {"o"})
handshake ==
    Clocked(Zero(<<"n">>),
        <<Write("o", Var("n")), Loop(<<If(Read("req"), <<Break>>, <<>>), Tick>>), Tick,
          Loop(<<If(Read("ack"), <<Break>>, <<>>), Tick>>), Inc("n"), Tick>>, {"req", "ack"}, {}, {"o"})
tick_first_waiter ==
    Clocked(Zero(<<"n">>),
        <<Write("o", Var("n")), Loop(<<Tick, If(Read("go"), <<Break>>, <<>>)>>), Inc("n"), Tick>>, {"go"}, {}, {"o"})
ex_reg_then_wire ==
    Clocked(Zero(<<"r">>),
        <<Tick, Let("h", Read("halt")), Let("xv", Read("x")), If(Var("h"), <<Loop(<<Tick>>)>>, <<>>),
          Set("r", Plus(Var("r"), Var("xv"))), Let("w", Plus(Var("r"), Lit(1))), Write("o", Var("w"))>>,
        {"halt", "x"}, {}, {"o"})
sample_hold_2 ==
    Clocked(<<>>, <<Let("x", Read("i")), Tick, Write("o", Var("x")), Tick>>, {"i"}, {"o"}, {})
plain_out_multiphase ==
    Clocked(<<>>, <<Let("v", Read("i")), Write("o", Var("v")), Tick, Tick>>, {"i"}, {"o"}, {})
accum_2 ==
    Clocked(Zero(<<"acc">>),
        <<Write("o", Var("acc")), Tick, Set("acc", Plus(Var("acc"), Read("step"))), Tick>>, {"step"}, {"o"}, {})
fib_swap ==
    Clocked(Zero(<<"a", "b">>),
        <<Write("o", Var("a")), Tick, SetAll(<<"a", "b">>, <<Var("b"), Plus(Var("a"), Plus(Var("b"), Read("i")))>>)>>,
        {"i"}, {"o"}, {})

-----------------------------------------------------------------------------
(* Memories: tests/fixtures/{multiphase_rom,extracted_rom,write_first_ram}. *)

MR(e) == MemRead("m", e)
rom_direct == WithMem(Clocked(<<>>, <<MR(Read("a")), Tick, Write("o", Data("m"))>>, {"a"}, {"o"}, {}), 1, 1, FALSE)
mp_rom == WithMem(Clocked(<<>>, <<MR(Read("a")), Tick, Write("o", Data("m")), Tick>>, {"a"}, {"o"}, {}), 1, 1, FALSE)
mp_reg ==
    WithMem(Clocked(Zero(<<"q">>), <<Write("o", Var("q")), MR(Read("a")), Tick,
                                 If(Ready("m"), <<Set("q", Data("m"))>>, <<>>), Tick>>, {"a"}, {"o"}, {}), 1, 1, FALSE)
mp_regout == WithMem(Clocked(<<>>, <<MR(Read("a")), Tick, Write("o", Data("m")), Tick>>, {"a"}, {}, {"o"}), 1, 1, FALSE)
rom_paced ==
    WithMem(Clocked(<<>>, <<MR(Read("a")), Tick, Write("o", Data("m")), For("_", Lit(0), Lit(2), <<Tick>>)>>,
                {"a"}, {}, {"o"}), 1, 1, FALSE)
rom_gated ==
    WithMem(Clocked(<<>>, <<While(IsZero(Read("go")), <<Tick>>), MR(Read("a")), Tick, Write("o", Data("m"))>>,
                {"go", "a"}, {}, {"o"}), 1, 1, FALSE)
ram_arms ==
    Zeroed(WithMem(Clocked(<<>>,
        <<If(Read("sel"), <<MemWrite("m", Read("a"), Read("d"))>>,
             <<MemWrite("m", Read("b"), Plus(Read("d"), Lit(1)))>>),
          MR(Read("a")), Tick, Write("o", Data("m"))>>, {"sel", "a", "b", "d"}, {}, {"o"}), 1, 1, FALSE))
ram(wf, rl, wl) ==
    Zeroed(WithMem(Clocked(Zero(<<"q">>),
        <<If(Read("we"), <<MemWrite("m", Read("a"), Read("d"))>>, <<>>), MR(Read("b")), Tick,
          If(Ready("m"), <<Set("q", Data("m"))>>, <<>>), Write("o", Var("q"))>>,
        {"we", "a", "b", "d"}, {"o"}, {}), rl, wl, wf))

(* A result kept in a register that drives a registered output, which the  *)
(* edge samples with the result itself in place of the register.           *)
Latch == If(Ready("m"), <<Set("q", Data("m"))>>, <<>>)
Show  == Write("o", Var("q"))
Fetched(head, tail, r, rl) ==
    WithMem(Clocked(Zero(<<"q">>), head \o <<MR(Read("a")), Tick>> \o tail, {"a"}, {}, r), rl, 1, FALSE)
MemResults ==
    UNION {{Fetched(<<>>, <<Latch, Show, Write("p", Data("m")), Write("v", Ready("m"))>>, {"o", "p", "v"}, rl),
            Fetched(<<>>, <<Latch, If(Var("q"), <<Write("o", Lit(1))>>, <<Write("o", Lit(0))>>)>>, {"o"}, rl)} :
              rl \in 1..2}
      \cup {Fetched(<<>>, <<Latch, Show, Tick>>, {"o"}, 1), Fetched(<<Show>>, <<Latch>>, {"o"}, 1)}

(* A write request whose condition reads a register assigned just before. *)
gate_on_updated_reg ==
    Zeroed(WithMem(Clocked(Zero(<<"c">>),
        <<Let("x", Read("d")), Inc("c"), If(Bin("==", Var("c"), Lit(2)), <<MemWrite("m", Var("c"), Var("x"))>>, <<>>),
          MR(Lit(2)), Tick, Write("o", Data("m"))>>, {"d"}, {"o"}, {}), 1, 1, FALSE))

(* Array registers: tests/fixtures/regfile_dut.rs, and a word of one kept  *)
(* in a register or in an output that holds.                               *)
Regs == <<Let("regs", Zeros)>>
Store == If(Read("wen"), <<SetElem("regs", Read("wa"), Read("wd"))>>, <<>>)
Word1 == Write("o3", Elem("regs", Lit(1)))
Fetch == Write("o", Elem("regs", Read("ra")))
regfile(body, o, r) == Clocked(Regs, <<Tick>> \o body, {"wen", "wa", "wd", "ra"}, o, r)
regfile_read_first    == regfile(<<Fetch, Word1, Store>>, {"o", "o3"}, {})
regfile_write_through == regfile(<<Word1, Store, Fetch>>, {"o", "o3"}, {})

Kept(body) == [regfile(body, {"o"}, {}) EXCEPT !.pre = Regs \o Zero(<<"q">>),
                                               !.body = <<Write("o", Var("q"))>> \o @]
Sometimes == If(Read("ra"), <<Write("o", Elem("regs", Lit(1)))>>, <<>>)
ArrayWords ==
    {Kept(<<Store, Let("w", Elem("regs", Read("ra"))), Set("q", Var("w"))>>),
     Kept(<<Let("w", Elem("regs", Read("ra"))), Store, Set("q", Var("w"))>>),
     Kept(<<Store, Set("q", Plus(Var("q"), Elem("regs", Read("ra"))))>>),
     regfile(<<Store, Sometimes>>, {"o"}, {}), regfile(<<Sometimes, Store>>, {"o"}, {})}

(* Two writes to an array register, which has one write port: one after    *)
(* the other, the second behind a condition, and in exclusive branches.    *)
TwoStores ==
    {regfile(<<Fetch, Word1>> \o stores, {"o", "o3"}, {}) :
       stores \in {<<Store, SetElem("regs", Lit(1), Read("wd"))>>,
                   <<Store, If(Read("ra"), <<SetElem("regs", Lit(1), Read("wd"))>>, <<>>)>>,
                   <<If(Read("wen"), <<SetElem("regs", Read("wa"), Read("wd"))>>,
                                     <<SetElem("regs", Read("ra"), Read("wd"))>>)>>}}

-----------------------------------------------------------------------------
(* Combinational modules: examples/combinational.                          *)

mux == Combinational(<<If(Read("s"), <<Write("o", Read("a"))>>, <<Write("o", Read("b"))>>)>>, {"s", "a", "b"}, {"o"})
priority_encode ==
    Combinational(<<Let("r", Lit(0)), Let("f", Lit(0)),
                    If(Read("a"), <<Set("r", Lit(1)), Set("f", Lit(1))>>, <<>>),
                    If(Bin("&", IsZero(Var("f")), Read("b")), <<Set("r", Lit(2))>>, <<>>), Write("o", Var("r"))>>,
                  {"a", "b"}, {"o"})
half_mux == Combinational(<<If(Read("s"), <<Write("o", Read("a"))>>, <<>>)>>, {"s", "a"}, {"o"})

-----------------------------------------------------------------------------
(* tests/sequential_forwarding_divergence.rs: where a plain Out is written *)
(* relative to the reads and updates of its segment.                       *)

R0 == Zero(<<"r">>)
Out1(body, i) == Clocked(R0, body, i, {"o"}, {})
Publish == Write("o", Var("r"))
Load    == Set("r", Plus(Var("r"), Read("i")))

add_then_write == Out1(<<Inc("r"), Publish, Tick>>, {})
add_read == Out1(<<If(Read("i"), <<Inc("r")>>, <<>>), Publish, Tick>>, {"i"})
v8a == Out1(<<Let("s", Read("i")), Publish, Set("r", Plus(Var("r"), Var("s"))), Tick>>, {"i"})
v8b == Out1(<<Let("s", Read("i")), Set("r", Plus(Var("r"), Var("s"))), Publish, Tick>>, {"i"})
v8c == Out1(<<Publish, Load, Tick>>, {"i"})
v8d == Out1(<<Let("n", Plus(Var("r"), Read("i"))), Publish, Set("r", Var("n")), Tick>>, {"i"})
v5 == Out1(<<Inc("r"), Publish, Let("late", Read("i")), Tick>>, {"i"})
v7 == Clocked(Zero(<<"r", "s">>), <<Inc("r"), Write("o", Var("s")), Tick, Set("s", Var("r"))>>, {"i"}, {"o"}, {})
w4 == Clocked(Zero(<<"r", "p">>),
              <<If(IsZero(Var("p")), <<Set("r", Read("i")), Set("p", Lit(1))>>, <<Inc("r"), Set("p", Lit(0))>>),
                Publish, Tick>>, {"i"}, {"o"}, {})
trailing_update == Out1(<<For("_", Lit(0), Lit(2), <<Tick>>), Inc("r"), Publish>>, {})
linear_trailing == Out1(<<Tick, Tick, Inc("r"), Publish>>, {})
branch_trailing == Out1(<<Tick, If(Read("i"), <<Tick>>, <<>>), Tick, Inc("r"), Publish>>, {"i"})
pc_arm(idle) ==
    Out1(<<Match(Var("r"), <<Arm(0, idle \o <<If(Read("i"), <<Set("r", Lit(1))>>, <<>>)>>),
                             Arm(1, <<Write("o", Lit(1)), Set("r", Lit(0))>>), Arm(Wild, <<>>)>>), Tick>>, {"i"})
pulse(outs, regouts) ==
    Clocked(<<>>, <<For("_", Lit(0), Lit(3), <<Tick>>), Write("o", Lit(1)), Tick, Write("o", Lit(0))>>,
            {}, outs, regouts)
hold_if == Clocked(<<>>, <<Let("d", Read("i")), Tick, If(Var("d"), <<Write("o", Lit(1))>>, <<Write("o", Lit(2))>>)>>,
                   {"i"}, {"o"}, {})
(* A repeating wait that can be left at once, in a loop with no other tick. *)
untimed == Clocked(<<>>, <<Write("o", Read("i")), Loop(<<If(Read("i"), <<Break>>, <<>>), Tick>>)>>, {"i"}, {}, {"o"})

-----------------------------------------------------------------------------
(* What the tests transpile and compare, and what they see refused.        *)

AcceptedByTests ==
    {counter, accumulator_en, slow_counter, counted_delay, counted_repetition, sync_2ff, while_waiter,
     skip_on_halt, regout_multiphase, capture_after_wait, mac_pipeline, det_010, branch_local_counter,
     nested_boundary, branch_on_updated_reg, match_on_updated_reg, out_from_reg_after_commit,
     trailing_out, trailing_local_into_head, divider, wrapping_counter, waiter, handshake,
     ex_reg_then_wire, sample_hold_2, plain_out_multiphase, accum_2, fib_swap, hold_if,
     rom_direct, mp_reg, mp_regout, rom_paced, rom_gated, ram_arms, gate_on_updated_reg,
     ram(TRUE, 1, 1), ram(FALSE, 1, 1), ram(FALSE, 2, 2), ram(TRUE, 2, 2), regfile_read_first,
     regfile_write_through, mux, priority_encode, add_then_write, add_read, v8b, v8c, v5, v7, linear_trailing, pulse({}, {"o"})}

RefusedByTests ==
    {out_from_reg_before_commit, tick_first_waiter, mp_rom, half_mux, untimed, v8a, v8d, w4,
     trailing_update, branch_trailing, pc_arm(<<>>), pc_arm(<<Write("o", Lit(0))>>), pulse({"o"}, {})}

(* Every body of up to two of these statements and a closing tick, with a  *)
(* registered output.                                                      *)
Statements ==
    {Tick, Publish, Write("o", Read("i")), Set("r", Read("i")), Inc("r"),
     Let("w", Plus(Var("r"), Read("i"))), Write("o", Var("w")),
     If(Read("i"), <<Inc("r")>>, <<>>), If(Var("r"), <<Write("o", Lit(2))>>, <<>>),
     If(Var("r"), <<Tick>>, <<>>), While(Read("i"), <<Tick>>),
     For("k", Lit(0), Lit(2), <<Write("o", Var("k")), Tick>>),
     Match(Var("r"), <<Arm(0, <<Inc("r")>>), Arm(1, <<Write("o", Lit(3)), Tick>>), Arm(Wild, <<Set("r", Lit(0))>>)>>)}
InScope(b) == \A i \in DOMAIN b : "w" \in Mentions(b[i], "var") => \E j \in 1..(i - 1) : b[j].k = "let"
Sweep == {Clocked(R0, Append(b, Tick), {"i"}, {}, {"o"}) :
            b \in {x \in UNION {[1..n -> Statements] : n \in 0..2} : InScope(x)}}

Corpus == AcceptedByTests \cup RefusedByTests \cup MemResults \cup ArrayWords \cup TwoStores \cup Sweep

\* The macro and the transpiler refuse exactly the bodies the repository's tests
\* expect them to refuse; what was measured to diverge is among them.  A second
\* write to an array register in one cycle is refused too, in whichever branch.
VerdictsHold == /\ err # "" => mod \notin AcceptedByTests
                /\ Emitted => mod \notin RefusedByTests \cup TwoStores

-----------------------------------------------------------------------------
(* Bodies on which the two sides disagree.                                 *)

\* A register reaches the output through a local, and is updated after the write.
GuardThroughWire ==
    {Out1(<<Let("w", Plus(Var("r"), Read("i"))), Write("o", Var("w")), Set("r", Var("w")), Tick>>, {"i"})}

\* An arm that does nothing, before a default that drives the output.
EmptyArmDropped ==
    {Out1(<<Match(Read("i"), <<Arm(0, <<>>), Arm(1, <<Write("o", Lit(1))>>), Arm(Wild, <<Write("o", Lit(2))>>)>>),
            Tick>>, {"i"})}

\* A memory result that only the edge form of a drive mentions.
ReadStageUndeclared == {Fetched(<<>>, <<Latch, Show>>, {"o"}, 1)}
=============================================================================
