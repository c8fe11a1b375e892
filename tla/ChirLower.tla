----------------------------- MODULE ChirLower ------------------------------
(***************************************************************************)
(* From FIR to CHIR (copper-codegen/src/chir_lower.rs): which locals are   *)
(* registers and which are wires, and which statements a module may hold   *)
(* once control extraction has run.  A CHIR body uses the statements of    *)
(* Fir; a `let` is a wire.                                                 *)
(***************************************************************************)
EXTENDS Cfg

Next_val(x) == x \o "_next_val"

(* A tuple assignment evaluates every element into a wire of its own and   *)
(* then assigns the targets, so each element reads the old values.         *)
lower_tuple_assign(s) ==
    [i \in DOMAIN s.xs |-> Let(Next_val(s.xs[i]), s.es[i])]
      \o [i \in DOMAIN s.xs |-> Set(s.xs[i], Var(Next_val(s.xs[i])))]

(* An array register is a memory of its own, read by selecting a word and  *)
(* written through one write port whose requests commit an edge late.      *)
ArrayMemory == [rl |-> 1, wl |-> 2, write_first |-> FALSE]
array_wr(x, suffix) == x \o "_wr_" \o suffix

(* A word read after the segment has written the array is the one written, *)
(* if the addresses match.                                                 *)
RECURSIVE lower_index(_, _)
lower_index(e, written) ==
    LET m == MapOperands(e, LAMBDA o : lower_index(o, written)) IN
    IF e[1] = "elem" /\ e[2] \in written
       THEN Mux(Bin("&", Var(array_wr(e[2], "en")), Bin("==", m[3], Var(array_wr(e[2], "addr")))),
                Var(array_wr(e[2], "data")), m)
       ELSE m

(* written holds the arrays the segment has written so far, in whichever   *)
(* branch; writing one of them again is refused.                           *)
RECURSIVE lower_stmts(_, _)
lower_stmt_blocks(acc, s) ==
    FoldLeft(LAMBDA c, b : LET r == lower_stmts(b, c.written)
                           IN [bs |-> Append(c.bs, r.out), written |-> r.written, ok |-> c.ok /\ r.ok],
             [bs |-> <<>>, written |-> acc.written, ok |-> acc.ok], Blocks(s))
WithStmt(acc, s, in) == [out |-> Append(acc.out, WithBlocks(s, in.bs)), written |-> in.written, ok |-> in.ok]
LoweredStmt(acc, s) ==
    CASE s.k = "tick" -> [acc EXCEPT !.out = Append(@, s), !.written = {}]
      [] s.k = "eset" -> [out |-> Append(acc.out, MemWrite(s.x, s.i, s.e)),
                          written |-> acc.written \cup {s.x}, ok |-> acc.ok /\ s.x \notin acc.written]
      [] s.k = "tset" -> [acc EXCEPT !.out = @ \o lower_tuple_assign(s)]
      [] OTHER -> WithStmt(acc, s, lower_stmt_blocks(acc, s))
lower_stmts(ss, written0) ==
    FoldLeft(LAMBDA acc, s : LoweredStmt(acc, MapExprs(s, LAMBDA e : lower_index(e, acc.written))),
             [out |-> <<>>, written |-> written0, ok |-> TRUE], ss)

(* Statements with no hardware form.  A tick-free `for` is kept and        *)
(* unrolled by the emitted loop; what still loops otherwise is refused.    *)
RECURSIVE Refused(_)
Refused(s) ==
    \/ s.k \in {"while", "loop", "break", "continue"}
    \/ s.k = "for" /\ stmt_contains_tick(s)
    \/ s.k = "if" /\ \E i \in DOMAIN s.a : s.a[i].k = "tick"
    \/ \E b \in ToSet(Blocks(s)) : \E t \in ToSet(b) : Refused(t)

(* Every variable is in scope where it is used; known is what is in scope. *)
RECURSIVE validate_stmts(_, _)
validate_stmts(ss, known0) ==
    FoldLeft(LAMBDA acc, s :
               LET inside == IF s.k = "for" THEN acc.known \cup {s.x} ELSE acc.known
               IN [known |-> IF s.k = "let" THEN acc.known \cup {s.x} ELSE acc.known,
                   ok    |-> /\ acc.ok
                             /\ \A e \in ToSet(Exprs(s)) : ToSet(Leafs(e, "var")) \subseteq acc.known
                             /\ \A b \in ToSet(Blocks(s)) : validate_stmts(b, inside).ok],
             [known |-> known0, ok |-> TRUE], ss)

(* What stands before the loop: a local the analysis found to be a         *)
(* register is one (an array of zeros, an array register), any other is a  *)
(* wire recomputed every cycle.  Statements that are not locals are not    *)
(* looked at.                                                              *)
PreLocals(mod)  == SelectSeq(mod.pre, LAMBDA s : s.k = "let")
PreRegs(mod, inferred) == {s.x : s \in {t \in ToSet(PreLocals(mod)) : t.e # Zeros}} \cap inferred
array_regs(mod, inferred) ==
    [x \in {s.x : s \in {t \in ToSet(PreLocals(mod)) : t.e = Zeros}} \cap inferred |-> ArrayMemory]
pre_loop_wires(mod, inferred) == SelectSeq(PreLocals(mod), LAMBDA s : s.x \notin inferred)

Chir(mod, low, regs, arrays) ==
    LET nets == {array_wr(x, n) : x \in DOMAIN arrays, n \in {"en", "addr", "data"}}
    IN [err |-> IF ~low.ok \/ \E s \in ToSet(mod.body) : Refused(s) THEN "UnsupportedConstruct"
                ELSE IF mod.clocked /\ \A s \in ToSet(mod.body) : s.k # "tick" THEN "NoTick"
                ELSE IF ~validate_stmts(low.out, regs \cup nets).ok THEN "UndefinedVariable"
                ELSE "",
        regs |-> regs, arrays |-> arrays, body |-> low.out]

chir_seq_body(mod, inferred) ==
    Chir(mod, lower_stmts(pre_loop_wires(mod, inferred) \o mod.body, {}),
         PreRegs(mod, inferred), array_regs(mod, inferred))

chir_comb_body(mod) == Chir(mod, lower_stmts(mod.body, {}), {}, <<>>)
=============================================================================
