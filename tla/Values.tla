------------------------------- MODULE Values -------------------------------
(***************************************************************************)
(* Transpiled statements.  To the operations of Bits this adds the step in *)
(* which a statement over the register (a) and an operand (b) is evaluated *)
(* by Rust on one side and by the emitted Verilog on the other.            *)
(***************************************************************************)
EXTENDS VerilogExpr, BitsRegister

CONSTANT Programs(_)     \* the statements tried at a width

ASSUME WidthAssumption == DEFAULT_LIT_WIDTH > MaxWidth

----------------------------------------------------------------------------
(* Statements: `let t[: T] = bind; target(e)`, where the target is an      *)
(* output port of width m, a condition, or the index of a 2^m-word array.  *)

NoBind == [e |-> "none"]
Statement(bind, ann, e, tgt, m) == [bind |-> bind, ann |-> ann, e |-> e, tgt |-> tgt, m |-> m]

(* What Rust computes: indexing out of bounds panics. *)
Simulated(p, a, b) ==
    LET ports == [x \in {"a", "b"} |-> [k |-> "bits", v |-> IF x = "a" THEN a ELSE b]]
        t     == Rust(p.bind, ports)
        r     == Rust(p.e, IF p.bind = NoBind THEN ports
                           ELSE [x \in {"a", "b", "t"} |-> IF x = "t" THEN t ELSE ports[x]])
    IN CASE p.bind # NoBind /\ t.k = "panic" -> Panic
         [] r.k = "panic" -> Panic
         [] p.tgt = "index" -> IF Value(r) < 2^p.m THEN Wrapped("u", p.m, Value(r)) ELSE Panic
         [] OTHER -> r

WireWidth(p, n) ==
    IF p.bind = NoBind THEN NoWidth
    ELSE OrElse(p.ann, infer_type_from_expr(p.bind, [x \in {"a", "b"} |-> n]))

Symbols(p, n) == [x \in {"a", "b", "t"} |-> IF x = "t" THEN WireWidth(p, n) ELSE n]

lower_wire(p, n) ==
    resize_to_target(retype_default_literals_in_values(lower_expr(p.bind, Symbols(p, n)), WireWidth(p, n)),
                     WireWidth(p, n), Symbols(p, n))

lower_target(p, n) ==
    LET v == lower_expr(p.e, Symbols(p, n)) IN
    CASE p.tgt = "out" -> retype_default_literals_in_values(v, p.m)
      [] p.tgt = "cond" -> v
      [] p.tgt = "index" -> resize_index(v, p.m, Symbols(p, n))

(* A wire whose only use is under a narrowing cast takes that width. *)
narrow_sole_resize_wires(p, n) ==
    LET w == lower_wire(p, n)
        v == lower_target(p, n)
    IN IF v = Resize(VVar("t"), p.m) /\ p.m < WireWidth(p, n)
       THEN [wire |-> Resize(w, p.m), width |-> p.m] ELSE [wire |-> w, width |-> WireWidth(p, n)]

Emitted(p, n) ==
    LET t == IF p.bind = NoBind THEN [wire |-> VVar("a"), width |-> n] ELSE narrow_sole_resize_wires(p, n)
    IN [wire |-> t.wire, target |-> lower_target(p, n), m |-> p.m,
        sym |-> [Symbols(p, n) EXCEPT !["t"] = t.width]]

(* Accepted by Verilator -Wall. *)
LintClean(v) ==
    /\ WidthClean(v.wire, v.sym) /\ SelfWidth(v.wire, v.sym) = v.sym["t"]
    /\ WidthClean(v.target, v.sym) /\ SelfWidth(v.target, v.sym) = v.m

Computed(v, x, y) ==
    LET nets == [z \in {"a", "b"} |-> IF z = "a" THEN x ELSE y]
        t    == Assigned(v.wire, nets, v.sym, v.sym["t"])
    IN Assigned(v.target, [z \in {"a", "b", "t"} |-> IF z = "t" THEN t ELSE nets[z]], v.sym, v.m)

(* The derived == of Bits takes X for a value: it is equal to X alone. *)
RECURSIVE Equates(_)
Equates(e) ==
    CASE e.e = "bin" -> e.op \in {"==", "!="} \/ Equates(e.l) \/ Equates(e.r)
      [] e.e = "if" -> Equates(e.c)
      [] e.e \in {"un", "cast", "index"} -> Equates(e.x)
      [] OTHER -> FALSE

(* A transpiled statement that Rust evaluates and Verilator accepts. *)
Execute(p) ==
    LET v == Emitted(p, N(acc)) IN
    /\ p.bind # NoBind => WireWidth(p, N(acc)) # NoWidth
    /\ LintClean(v)
    /\ \E b \in Operands(N(acc)) :
         LET r == Simulated(p, acc, b) IN
         /\ r.k # "panic"
         /\ Equates(p.e) => is_valid(acc) /\ is_valid(b)
         /\ \E x \in Resolutions(b) : Become(r.v, Computed(v, hw, x))
         /\ Taint(b)

Next == BitsNext \/ \E p \in Programs(N(acc)) : Execute(p)

Spec == Init /\ [][Next]_vars
=============================================================================
