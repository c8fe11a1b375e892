---------------------------- MODULE VerilogExpr ----------------------------
(***************************************************************************)
(* What the text emit.rs renders for an expression computes, by the sizing *)
(* rules of IEEE 1800: an operand that is not self-determined is extended  *)
(* to the width w of its context before it is used, with its sign only if  *)
(* every operand of that context is signed (sg).  Every net is unsigned.   *)
(***************************************************************************)
EXTENDS ExprLower

Max2(m, n) == IF m > n THEN m ELSE n

RECURSIVE SelfWidth(_, _)
SelfWidth(v, sym) ==
    LET of(x) == SelfWidth(x, sym) IN
    CASE v.c = "var" -> sym[v.x]
      [] v.c \in {"lit", "resize"} -> v.w
      [] v.c = "slice" -> 1
      [] v.c = "sign" -> of(v.x)
      [] v.c = "un" -> IF v.op = "!" THEN 1 ELSE of(v.x)
      [] v.c = "mux" -> Max2(of(v.t), of(v.f))
      [] v.c = "bin" -> IF v.op \in Compare \cup Logical THEN 1
                        ELSE IF v.op \in Shifts THEN of(v.l) ELSE Max2(of(v.l), of(v.r))

RECURSIVE SelfSigned(_)
SelfSigned(v) ==
    CASE v.c = "sign" -> v.signed
      [] v.c = "un" -> v.op # "!" /\ SelfSigned(v.x)
      [] v.c = "resize" -> SelfSigned(v.x)
      [] v.c = "mux" -> SelfSigned(v.t) /\ SelfSigned(v.f)
      [] v.c = "bin" -> /\ v.op \notin Compare \cup Logical
                        /\ SelfSigned(v.l)
                        /\ v.op \in Shifts \/ SelfSigned(v.r)
      [] OTHER -> FALSE

(* A value of width n as one of width w. *)
Extend(x, n, w, sg) ==
    IF w > n /\ sg /\ x >= 2^(n - 1) THEN x + 2^w - 2^n ELSE x % 2^w

OfBits(w, B(_)) == MapThenSumSet(LAMBDA i : B(i) * 2^i, 0 .. w-1)
Bitwise(op, x, y, w) ==
    OfBits(w, LAMBDA i : LET ones == BitOf(x, i) + BitOf(y, i) IN
                         CASE op = "&" -> ones \div 2 [] op = "|" -> Max2(BitOf(x, i), BitOf(y, i))
                           [] op = "^" -> ones % 2)

RECURSIVE VEval(_, _, _, _, _)
VEval(v, net, sym, w, sg) ==
    LET own(x) == VEval(x, net, sym, SelfWidth(x, sym), SelfSigned(x))
        here(x) == VEval(x, net, sym, w, sg)
        extended(x, n) == Extend(x, n, w, sg)
        signed(x, n, s) == IF s /\ x >= 2^(n - 1) THEN x - 2^n ELSE x
        num(x) == signed(here(x), w, sg)
    IN CASE v.c = "var" -> extended(net[v.x], sym[v.x])
         [] v.c = "lit" -> extended(v.v % 2^v.w, v.w)
         [] v.c = "sign" -> extended(own(v.x), SelfWidth(v.x, sym))
         [] v.c = "resize" -> extended(Extend(own(v.x), SelfWidth(v.x, sym), v.w, SelfSigned(v.x)), v.w)
         [] v.c = "slice" -> extended((own(v.x) \div 2^v.i) % 2, 1)
         [] v.c = "mux" -> IF own(v.i) # 0 THEN here(v.t) ELSE here(v.f)
         [] v.c = "un" /\ v.op = "~" -> 2^w - 1 - here(v.x)
         [] v.c = "un" /\ v.op = "-" -> (-here(v.x)) % 2^w
         [] v.c = "un" /\ v.op = "!" -> extended(from_bool(own(v.x) = 0), 1)
         [] v.c = "bin" /\ v.op \in Compare ->
              LET wc == Max2(SelfWidth(v.l, sym), SelfWidth(v.r, sym))
                  sc == SelfSigned(v.l) /\ SelfSigned(v.r)
                  in(x) == signed(VEval(x, net, sym, wc, sc), wc, sc)
              IN extended(from_bool(Holds(v.op, in(v.l), in(v.r))), 1)
         [] v.c = "bin" /\ v.op = "&&" -> extended(from_bool(own(v.l) # 0 /\ own(v.r) # 0), 1)
         [] v.c = "bin" /\ v.op = "||" -> extended(from_bool(own(v.l) # 0 \/ own(v.r) # 0), 1)
         [] v.c = "bin" /\ v.op = "<<" -> (here(v.l) * 2^own(v.r)) % 2^w
         [] v.c = "bin" /\ v.op = ">>" ->          \* >>> when the left operand is $signed
              (IF IsSigned(v.l) THEN num(v.l) \div 2^own(v.r) ELSE here(v.l) \div 2^own(v.r)) % 2^w
         [] v.c = "bin" /\ v.op = "%" ->
              IF here(v.r) = 0 THEN 0 ELSE TruncRem(num(v.l), num(v.r)) % 2^w
         [] v.c = "bin" /\ v.op \in {"+", "-", "*"} -> Arith(v.op, here(v.l), here(v.r)) % 2^w
         [] v.c = "bin" /\ v.op \in {"&", "|", "^"} ->
              Bitwise(v.op, here(v.l), here(v.r), w)

(* The value a target of width m gets from `assign target = v`. *)
Assigned(v, net, sym, m) ==
    VEval(v, net, sym, Max2(m, SelfWidth(v, sym)), SelfSigned(v)) % 2^m

(* Verilator's width warnings, errors under -Wall: operands and targets    *)
(* have one width, a condition is one bit, and a literal fits its size.    *)
RECURSIVE WidthClean(_, _)
WidthClean(v, sym) ==
    LET w(x) == SelfWidth(x, sym)
        clean(x) == WidthClean(x, sym)
    IN CASE v.c = "var" -> TRUE
         [] v.c = "lit" -> v.v < 2^v.w
         [] v.c \in {"sign", "resize", "slice"} -> clean(v.x)
         [] v.c = "un" -> clean(v.x) /\ (v.op # "!" \/ w(v.x) = 1)
         [] v.c = "mux" -> clean(v.i) /\ clean(v.t) /\ clean(v.f) /\ w(v.i) = 1 /\ w(v.t) = w(v.f)
         [] v.c = "bin" -> /\ clean(v.l) /\ clean(v.r)
                           /\ v.op \in Shifts \/ w(v.l) = w(v.r)
                           /\ v.op \in Logical => w(v.l) = 1
=============================================================================
