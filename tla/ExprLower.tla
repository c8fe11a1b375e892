----------------------------- MODULE ExprLower -----------------------------
(***************************************************************************)
(* chir_lower::lower_expr with its width and signedness rules, and what    *)
(* the Verilog emitted for the result computes.  SHIR and VLIR copy these  *)
(* expressions node for node.  sym gives the width of each signal.         *)
(***************************************************************************)
EXTENDS TypedExpr

CONSTANT DEFAULT_LIT_WIDTH    \* the width of a literal whose source has none

NoWidth == 0                  \* Option::None of a width

VVar(x) == [c |-> "var", x |-> x]
VLit(w, v) == [c |-> "lit", w |-> w, v |-> v]
VBin(op, l, r) == [c |-> "bin", op |-> op, l |-> l, r |-> r]
VUn(op, x) == [c |-> "un", op |-> op, x |-> x]
VMux(c, t, f) == [c |-> "mux", i |-> c, t |-> t, f |-> f]
SignCast(signed, x) == [c |-> "sign", signed |-> signed, x |-> x]
Slice(x, i) == [c |-> "slice", x |-> x, i |-> i]
Resize(x, w) == [c |-> "resize", x |-> x, w |-> w]

IsSigned(v) == v.c = "sign" /\ v.signed
IsDefaultLit(v) == v.c = "lit" /\ v.w = DEFAULT_LIT_WIDTH

----------------------------------------------------------------------------
(* Widths. *)

OrElse(w1, w2) == IF w1 # NoWidth THEN w1 ELSE w2

RECURSIVE width_of_chir_expr(_, _)
width_of_chir_expr(v, sym) ==
    LET of(x) == width_of_chir_expr(x, sym) IN
    CASE v.c = "var" -> sym[v.x]
      [] v.c \in {"lit", "resize"} -> v.w
      [] v.c = "bin" -> OrElse(of(v.l), of(v.r))
      [] v.c \in {"un", "sign"} -> of(v.x)
      [] v.c = "mux" -> OrElse(of(v.t), of(v.f))
      [] v.c = "slice" -> 1

(* The width that can be read off an expression. *)
expr_width(v, sym) ==
    CASE v.c = "var" -> sym[v.x] [] v.c \in {"lit", "resize"} -> v.w
      [] v.c = "slice" -> 1 [] OTHER -> NoWidth

resize_to_target(v, w, sym) == IF expr_width(v, sym) \in {NoWidth, w} THEN v ELSE Resize(v, w)

RECURSIVE retype_literals(_, _)
retype_literals(v, w) ==
    CASE v.c = "lit" -> VLit(w, v.v)
      [] v.c = "bin" -> VBin(v.op, retype_literals(v.l, w), retype_literals(v.r, w))
      [] v.c = "un" -> VUn(v.op, retype_literals(v.x, w))
      [] OTHER -> v

RECURSIVE retype_default_literals_in_values(_, _)
retype_default_literals_in_values(v, w) ==
    LET of(x) == retype_default_literals_in_values(x, w) IN
    CASE IsDefaultLit(v) -> VLit(w, v.v)
      [] v.c = "mux" -> VMux(v.i, of(v.t), of(v.f))
      [] v.c = "bin" -> VBin(v.op, of(v.l), of(v.r))
      [] OTHER -> v

(* A literal of default width takes the width of the other operand. *)
balance_binop_literals(l, r, sym) ==
    LET fit(v, other) == IF IsDefaultLit(v) /\ ~IsDefaultLit(other)
                            /\ width_of_chir_expr(other, sym) # NoWidth
                         THEN retype_literals(v, width_of_chir_expr(other, sym)) ELSE v
    IN <<fit(l, r), fit(r, l)>>

resize_index(v, w, sym) ==
    LET u == retype_default_literals_in_values(v, w)
    IN IF width_of_chir_expr(u, sym) = w THEN u ELSE Resize(u, w)

(* The width of `let x = e` with no annotation. *)
RECURSIVE infer_type_from_expr(_, _)
infer_type_from_expr(e, sym) ==
    LET of(x) == infer_type_from_expr(x, sym) IN
    CASE e.e = "name" -> sym[e.x]
      [] e.e = "lit" -> IF e.sfx THEN e.w ELSE NoWidth
      [] e.e = "const" -> IF e.pinned THEN e.w ELSE NoWidth
      [] e.e \in {"cast", "from_u"} -> e.w
      [] e.e \in {"un", "as_u", "asr"} -> of(e.x)
      [] e.e = "bin" -> IF e.op \in Compare \cup Logical THEN 1 ELSE OrElse(of(e.l), of(e.r))
      [] e.e = "wrapping" -> of(e.l)
      [] e.e = "if" -> OrElse(of(e.t), of(e.f))
      [] e.e = "index" -> 1

----------------------------------------------------------------------------
(* Signedness. *)

(* Variant: the wrapper stays on the operand that had it. *)
signed_binop_one_sided(op, left, right) == VBin(op, left, right)

(* The wrapper moves to the result, except where the sign is observable. *)
signed_binop(op, left, right) ==
    LET peel(v) == IF IsSigned(v) THEN v.x ELSE v
        li == peel(left)
        ri == peel(right)
        wrap(v) == SignCast(TRUE, v)
    IN CASE ~IsSigned(left) /\ ~IsSigned(right) -> VBin(op, left, right)
         [] op \in Ordered -> VBin(op, wrap(li), wrap(ri))
         [] op = "%" -> wrap(VBin(op, wrap(li), wrap(ri)))
         [] op = ">>" -> wrap(VBin(op, wrap(li), ri))
         [] op \in {"==", "!="} \cup Logical -> VBin(op, li, ri)
         [] OTHER -> wrap(VBin(op, li, ri))

(* `!` is bitwise on a vector, logical on a bool. *)
lower_not(v, sym) ==
    IF ~(v.c = "bin" /\ v.op \in Compare \cup Logical) /\ width_of_chir_expr(v, sym) > 1
    THEN "~" ELSE "!"

lower_cast(k, v) ==
    CASE k = "i" -> SignCast(TRUE, IF v.c = "sign" THEN v.x ELSE v)
      [] k # "i" /\ v.c = "sign" -> SignCast(FALSE, v.x)
      [] OTHER -> v

RECURSIVE lower_expr(_, _)
lower_expr(e, sym) ==
    LET of(x) == lower_expr(x, sym)
        binop(op, l, r) == LET b == balance_binop_literals(l, r, sym) IN signed_binop(op, b[1], b[2])
    IN CASE e.e = "name" -> VVar(e.x)
         [] e.e = "lit" -> VLit(IF e.sfx THEN e.w ELSE DEFAULT_LIT_WIDTH, e.v)
         [] e.e = "const" -> VLit(IF e.pinned THEN e.w ELSE DEFAULT_LIT_WIDTH, e.v)
         [] e.e = "as_u" -> of(e.x)
         [] e.e = "from_u" -> retype_literals(of(e.x), e.w)
         [] e.e = "bin" -> binop(e.op, of(e.l), of(e.r))
         [] e.e = "un" -> LET x  == of(e.x)
                              op == IF e.op = "!" THEN lower_not(x, sym) ELSE e.op
                          IN IF IsSigned(x) THEN SignCast(TRUE, VUn(op, x.x)) ELSE VUn(op, x)
         [] e.e = "if" -> LET b == balance_binop_literals(of(e.t), of(e.f), sym)
                          IN VMux(of(e.c), b[1], b[2])
         [] e.e = "cast" -> lower_cast(e.k, of(e.x))
         [] e.e = "wrapping" -> VBin(e.op, of(e.l), of(e.r))
         [] e.e = "asr" -> signed_binop(">>", SignCast(TRUE, of(e.x)), VLit(DEFAULT_LIT_WIDTH, e.n))
         [] e.e = "index" -> Slice(of(e.x), e.i)
=============================================================================
