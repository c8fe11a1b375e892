----------------------------- MODULE Transpile ------------------------------
(***************************************************************************)
(* A module is compiled for the simulator and transpiled to hardware       *)
(* (copper-codegen/src/lib.rs), and then both run in lockstep on the same  *)
(* inputs, one tick_clock at a time.                                       *)
(***************************************************************************)
EXTENDS ControlExtract, HardwareMacro, ChirLower, Hardware

CONSTANTS Programs,      \* the modules to transpile, a set
          Samples,       \* the values an input may have
          MaxCycles

VARIABLES mod,          \* the module at hand
          stage,         \* how far its compilation is, then the clock phase
          err,           \* why it was rejected
          ir,            \* what the last stage made of it
          sim,           \* the simulated body
          src, fsm,      \* the captured body, before and after extraction
          hw,            \* the emitted module's registers and arrays
          ins,           \* the inputs
          cyc

runVars == <<sim, src, fsm, hw>>
vars == <<mod, stage, err, ir, runVars, ins, cyc>>

-----------------------------------------------------------------------------
(* A body at run time: its task, its memories and its registered outputs.  *)

NoReq == [v |-> 0, a |-> 0, d |-> 0]
Machine(body) ==
    [task |-> [st |-> Start(body), env |-> <<>>, outs |-> [p \in mod.outs \cup mod.regouts |-> 0],
               staged |-> <<>>, at |-> "start"],
     mem  |-> [m \in DOMAIN mod.mems |->
                 [arr |-> mod.mems[m].init,
                  rp  |-> [i \in 1..mod.mems[m].rl |-> [v |-> 0, d |-> 0]],
                  wp  |-> [i \in 1..mod.mems[m].wl |-> NoReq]]],
     com  |-> [p \in mod.regouts |-> 0]]

MemView(k) == [m \in DOMAIN k.mem |-> [data |-> Last(k.mem[m].rp).d, ready |-> Last(k.mem[m].rp).v]]

(* Run the body past at most n barriers; one that would pass more is stuck. *)
MaxBarriers == 10

RECURSIVE Poll(_, _, _)
Past(u, v, n) ==
    IF n = 0 \/ u.task.at # "barrier" THEN u
    ELSE IF n = 1 THEN [u EXCEPT !.task.at = "stuck"] ELSE Poll(u, v, n - 1)
Poll(k, v, n) == Past([k EXCEPT !.task = Run(@, v, MemView(k), Fuel)], v, n)

(* Settle before the edge: barriers open, and a body waiting for the edge  *)
(* is not polled.  After the edge barriers are closed.                     *)
Idle == [task |-> [at |-> "none"]]
PreEdge(k, v) == IF k = Idle \/ (mod.clocked /\ k.task.at = "tick") THEN k ELSE Poll(k, v, MaxBarriers)
PostEdge(k, v) == IF k = Idle \/ ~mod.clocked THEN k ELSE Poll(k, v, 0)

(* The edge: memories advance and registered outputs commit. *)
LastOf(k, kind, m) == SelectLastInSeq(k.task.staged, LAMBDA r : r[1] = kind /\ r[2] = m)

MemEdge(k, m) ==
    LET c == mod.mems[m]
        s == k.mem[m]
        r == LastOf(k, "r", m)
        w == LastOf(k, "w", m)
        q == k.task.staged
        wp == IF w = 0 THEN s.wp ELSE [s.wp EXCEPT ![1] = [v |-> 1, a |-> q[w][3], d |-> q[w][4]]]
        arr == IF wp[c.wl].v = 1 THEN [s.arr EXCEPT ![wp[c.wl].a] = wp[c.wl].d] ELSE s.arr
        got == IF r = 0 THEN [v |-> 0, d |-> 0]
               ELSE [v |-> 1, d |-> IF c.write_first THEN arr[q[r][3]] ELSE s.arr[q[r][3]]]
    IN [arr |-> arr, rp |-> <<got>> \o Front(s.rp), wp |-> <<NoReq>> \o Front(wp)]

OnEdge(k) == IF k = Idle THEN k ELSE
             [task |-> [k.task EXCEPT !.staged = <<>>],
              mem  |-> [m \in DOMAIN k.mem |-> MemEdge(k, m)],
              com  |-> [p \in mod.regouts |-> k.task.outs[p]]]

(* What a reader of output p sees. *)
Shown(k, p) == IF p \in mod.regouts THEN k.com[p] ELSE k.task.outs[p]

-----------------------------------------------------------------------------
(* The pipeline.  A module the macro refuses does not exist; one the       *)
(* transpiler refuses is still simulated.                                  *)

Init == /\ mod \in Programs
        /\ stage = "source" /\ err = "" /\ ir = <<>> /\ hw = <<>>
        /\ sim = Idle /\ src = Idle /\ fsm = Idle
        /\ ins = [p \in mod.ins |-> 0] /\ cyc = 0

Proceed(why, next, made) ==
    /\ err' = why
    /\ stage' = CASE why = "" -> next
                  [] stage = "source" -> "rejected"
                  [] OTHER -> "low"
    /\ ir' = IF why = "" THEN made ELSE <<>>

Made(next, made) == Proceed(made.err, next, made)     \* by a pass that may refuse

(* The awaitable a combinational body yields at is its tick. *)
wrap_combinational(m) == [m EXCEPT !.body = Append(@, Tick)]
Simulated == IF mod.clocked THEN inject_synced_reads(mod) ELSE wrap_combinational(mod)

Attribute ==
    /\ stage = "source"
    /\ Proceed(hardware(mod), "compiled", mod)
    /\ sim' = IF err' = "" THEN Machine(Simulated) ELSE Idle
    /\ UNCHANGED <<mod, src, fsm, hw, ins, cyc>>

transpile_target ==
    /\ stage = "compiled"
    /\ Proceed(transpile_checks(mod), "captured", mod)
    /\ UNCHANGED <<mod, runVars, ins, cyc>>

ExtractControl ==
    /\ stage = "captured"
    /\ Proceed("", "extracted", IF mod.clocked THEN extract_control([ir EXCEPT !.body = desugar(@)]) ELSE ir)
    /\ src' = IF mod.clocked THEN Machine(mod) ELSE Idle
    /\ fsm' = IF mod.clocked THEN Machine(ir') ELSE Idle
    /\ UNCHANGED <<mod, sim, hw, ins, cyc>>

NewLocals == {s.x : s \in ToSet(PreLocals(ir))} \ {s.x : s \in ToSet(PreLocals(mod))}

LowerToChir ==
    /\ stage = "extracted"
    /\ Made("chir", IF mod.clocked THEN chir_seq_body(ir, registers(build(mod)) \cup NewLocals)
                     ELSE chir_comb_body(ir))
    /\ UNCHANGED <<mod, runVars, ins, cyc>>

LowerToShir ==
    /\ stage = "chir"
    /\ Made("shir", IF mod.clocked THEN lower_seq_body(ir)
                     ELSE [err |-> "", body |-> lower_comb_body(ir.body)])
    /\ UNCHANGED <<mod, runVars, ins, cyc>>

LowerToVlir ==
    /\ stage = "shir"
    /\ Made("low", IF mod.clocked THEN lower_seq(ir, mod) ELSE lower_comb(ir.body))
    /\ hw' = IF err' = "" THEN PowerUp(ir', mod) ELSE <<>>
    /\ UNCHANGED <<mod, sim, src, fsm, ins, cyc>>

-----------------------------------------------------------------------------
(* tick_clock: inputs and the settle before the edge, the edge, the settle *)
(* after it.                                                               *)

Emitted == stage \in {"low", "settled", "high"} /\ err = ""

PreEdgeSettle ==
    /\ stage = "low" /\ cyc < MaxCycles
    /\ stage' = "settled"
    /\ \E v \in [mod.ins -> Samples] :
          /\ ins' = v
          /\ sim' = PreEdge(sim, v) /\ src' = PreEdge(src, v) /\ fsm' = PreEdge(fsm, v)
    /\ UNCHANGED <<mod, err, ir, hw, cyc>>

ClockEdge ==
    /\ stage = "settled"
    /\ stage' = "high"
    /\ sim' = OnEdge(sim) /\ src' = OnEdge(src) /\ fsm' = OnEdge(fsm)
    /\ hw' = IF mod.clocked /\ Emitted THEN Edge(ir, hw, ins) ELSE hw
    /\ UNCHANGED <<mod, err, ir, ins, cyc>>

PostEdgeSettle ==
    /\ stage = "high"
    /\ stage' = "low"
    /\ cyc' = cyc + 1
    /\ sim' = PostEdge(sim, ins) /\ src' = PostEdge(src, ins) /\ fsm' = PostEdge(fsm, ins)
    /\ UNCHANGED <<mod, err, ir, hw, ins>>

Next == \/ Attribute \/ transpile_target \/ ExtractControl
        \/ LowerToChir \/ LowerToShir \/ LowerToVlir
        \/ PreEdgeSettle \/ ClockEdge \/ PostEdgeSettle

Spec == Init /\ [][Next]_vars
-----------------------------------------------------------------------------
(* Properties.                                                             *)

Words  == 0..(Word - 1)
Stages == {"source", "compiled", "captured", "extracted", "chir", "shir", "low", "settled", "high", "rejected"}

\* Once a module runs, every output of the simulated body and every register
\* and array cell of the emitted module is a word: arithmetic wraps on both
\* sides, and only the state and phase counters are wider.
TypeOK ==
    /\ mod \in Programs /\ stage \in Stages /\ cyc \in 0..MaxCycles
    /\ ins \in [mod.ins -> Samples]
    /\ stage = "rejected" => err # ""
    /\ stage \in {"low", "settled", "high"} =>
         /\ sim.task.outs \in [mod.outs \cup mod.regouts -> Words]
         /\ sim.com \in [mod.regouts -> Words]
    /\ Emitted =>
         /\ \A x \in DOMAIN hw.reg : hw.reg[x] \in IF x \in {PC, PhaseReg} THEN Nat ELSE Words
         /\ hw.mem \in [DOMAIN mod.mems \cup DOMAIN ir.arrays -> [Words -> Words]]

\* The emitted module and the simulated one agree: after every clock edge, each
\* output pin of the hardware carries the value a reader of that port sees in
\* the simulator, for every input sequence.  This is what the generated
\* testbench compares (generate_testbench), and what control extraction,
\* register inference, cycle scheduling, forwarding, output holding, memory
\* pipelining and the read rewriting of the macro must preserve together.
HardwareAgrees ==
    Emitted /\ stage = "low" /\ cyc > 0 =>
        LET env == Nets(ir, hw, ins)
        IN \A p \in mod.outs \cup mod.regouts : Shown(sim, p) = Pin(env, p)

\* Control extraction preserves a body's behaviour: whenever the source body
\* waits for an edge the extracted machine waits for it too, having driven the
\* same outputs, committed the same registered ones and staged the same memory
\* requests (extract_control).
ExtractionAgrees ==
    stage \in {"low", "settled"} /\ src.task.at \notin {"none", "start"} =>
        /\ src.task.at = fsm.task.at
        /\ src.task.outs = fsm.task.outs
        /\ src.com = fsm.com
        /\ ToSet(src.task.staged) = ToSet(fsm.task.staged)

\* A body the macro accepts never runs for ever between two clock edges, on any
\* path through its loops (check_reachability).
AcceptedNeverStuck == sim.task.at # "stuck"

\* When an edge is about to happen, the memory buses of the hardware carry the
\* requests the simulated body has staged: the same writes, and the address of
\* every read.  Staging is combinational, so a request gated on a register the
\* same segment updates must be gated on the new value (is_staging_only).
MemoryRequestsAgree ==
    Emitted /\ stage = "settled" =>
        \E env \in {Nets(ir, hw, ins)} :
        /\ {r \in Requests(ir, env) : r[2] \in DOMAIN mod.mems} = {r \in ToSet(sim.task.staged) : r[1] = "w"}
        /\ \A r \in ToSet(sim.task.staged) :
              r[1] = "r" /\ r[2] \in DOMAIN ir.nets => env[mem_net(r[2], "rd_addr")] = r[3]

\* What the transpiler emits passes the linter: every name it reads is declared,
\* the stages of memory results among them, which one pass tallies
\* (collect_phase_mem_use) and others emit reads of; one driver per signal, no
\* wire read before it is assigned, no inferred latch.
EmittedLegal == Emitted /\ stage = "low" => Lints(ir, mod)

\* A registered output of the hardware does not move when only the inputs do:
\* between two edges its pin is constant.
HardwareRegOutsHold ==
    [][Emitted /\ stage = "low" /\ stage' = "settled" =>
         \A p \in mod.regouts : Pin(Nets(ir', hw', ins'), p) = Pin(Nets(ir, hw, ins), p)]_vars
=============================================================================
