----------------------------- MODULE TypedExpr -----------------------------
(***************************************************************************)
(* A typed Rust expression over Bits<N>, machine integers and bool, and    *)
(* what Rust computes for it.  A value is [k, v]: k is "bits", "u", "i" or *)
(* "bool", and v its bits; an expression that panics has the value Panic.  *)
(***************************************************************************)
EXTENDS LogicBits

----------------------------------------------------------------------------
(* Source expressions. *)

Name(x) == [e |-> "name", x |-> x]
AsU(w, x) == [e |-> "as_u", w |-> w, x |-> x]
IntLit(k, w, v, sfx) == [e |-> "lit", k |-> k, w |-> w, v |-> v, sfx |-> sfx]
Const(w, v, pinned) == [e |-> "const", w |-> w, v |-> v, pinned |-> pinned]
FromU(w, x) == [e |-> "from_u", w |-> w, x |-> x]
Binary(op, l, r) == [e |-> "bin", op |-> op, l |-> l, r |-> r]
Unary(op, x) == [e |-> "un", op |-> op, x |-> x]
IfExpr(c, t, f) == [e |-> "if", c |-> c, t |-> t, f |-> f]
Cast(k, w, x) == [e |-> "cast", k |-> k, w |-> w, x |-> x]
Wrapping(op, l, r) == [e |-> "wrapping", op |-> op, l |-> l, r |-> r]
Asr(x, n) == [e |-> "asr", x |-> x, n |-> n]
Index(x, i) == [e |-> "index", x |-> x, i |-> i]

Compare == {"==", "!=", "<", "<=", ">", ">="}
Ordered == {"<", "<=", ">", ">="}
Logical == {"&&", "||"}
Shifts == {"<<", ">>"}

----------------------------------------------------------------------------
(* Rust. *)

Panic == [k |-> "panic", v |-> all(1, X)]
Truth(c) == [k |-> "bool", v |-> from_uint(1, from_bool(c))]
Value(r) == as_uint(r.v) - (IF r.k = "i" /\ r.v[N(r.v) - 1] = 1 THEN 2^N(r.v) ELSE 0)
Wrapped(k, w, n) == [k |-> k, v |-> from_uint(w, n % 2^w)]
Checked(k, w, n) == IF Value(Wrapped(k, w, n)) = n THEN Wrapped(k, w, n) ELSE Panic

Abs(n) == IF n < 0 THEN -n ELSE n
TruncRem(m, n) == (IF m < 0 THEN -1 ELSE 1) * (Abs(m) % Abs(n))
Holds(op, m, n) ==
    CASE op = "==" -> m = n  [] op = "!=" -> m # n  [] op = "<"  -> m < n
      [] op = "<=" -> m <= n [] op = ">"  -> m > n  [] op = ">=" -> m >= n
Bitwise2(op, u, v) ==
    CASE op = "&" -> bits_and(u, v) [] op = "|" -> bits_or(u, v) [] op = "^" -> bits_xor(u, v)
Arith(op, m, n) == CASE op = "+" -> m + n [] op = "-" -> m - n [] op = "*" -> m * n

(* The operators of Bits<N>.  == is the derived equality, X equal to X. *)
BitsBinary(op, l, r) ==
    CASE op = "+" -> [k |-> "bits", v |-> bits_add(l.v, r.v)]
      [] op = "-" -> [k |-> "bits", v |-> bits_sub(l.v, r.v)]
      [] op = "*" -> [k |-> "bits", v |-> bits_mul(l.v, r.v)]
      [] op = "%" -> [k |-> "bits", v |-> bits_rem(l.v, r.v)]
      [] op \in {"&", "|", "^"} -> [k |-> "bits", v |-> Bitwise2(op, l.v, r.v)]
      [] op = "<<" -> [k |-> "bits", v |-> shift_left(l.v, Value(r))]
      [] op = ">>" -> [k |-> "bits", v |-> shift_right(l.v, Value(r))]
      [] op \in {"==", "!="} -> Truth((l.v = r.v) <=> (op = "=="))

(* Machine integers, overflow checks on. *)
IntBinary(op, l, r) ==
    LET w == N(l.v) IN
    CASE op \in {"+", "-", "*"} -> Checked(l.k, w, Arith(op, Value(l), Value(r)))
      [] op = "%" -> IF Value(r) = 0 \/ (Value(r) = -1 /\ Value(l) = -2^(w - 1)) THEN Panic
                     ELSE Wrapped(l.k, w, TruncRem(Value(l), Value(r)))
      [] op \in {"&", "|", "^"} -> [l EXCEPT !.v = Bitwise2(op, l.v, r.v)]
      [] op \in Shifts /\ Value(r) >= w -> Panic
      [] op = "<<" -> [l EXCEPT !.v = shift_left(l.v, Value(r))]
      [] op = ">>" -> [l EXCEPT !.v = IF l.k = "i" THEN arithmetic_shift_right(l.v, Value(r))
                                       ELSE shift_right(l.v, Value(r))]
      [] op \in Compare -> Truth(Holds(op, Value(l), Value(r)))

RECURSIVE Rust(_, _)
Rust(e, env) ==
    LET of(x) == Rust(x, env)
        strict(r, F(_)) == IF r.k = "panic" THEN Panic ELSE F(r)
        strict2(l, r, F(_, _)) == IF "panic" \in {l.k, r.k} THEN Panic ELSE F(l, r)
    IN CASE e.e = "name" -> env[e.x]
         [] e.e = "as_u" -> strict(of(e.x), LAMBDA u : IF is_valid(u.v)
                                                       THEN Wrapped("u", e.w, as_uint(u.v)) ELSE Panic)
         [] e.e = "lit" -> Wrapped(e.k, e.w, e.v)
         [] e.e = "const" -> [k |-> "bits", v |-> from_uint(e.w, e.v)]
         [] e.e = "from_u" -> strict(of(e.x), LAMBDA u : [k |-> "bits", v |-> from_uint(e.w, as_uint(u.v))])
         [] e.e = "bin" /\ e.op \in Logical ->
              strict(of(e.l), LAMBDA u : IF (u.v[0] = 1) = (e.op = "&&") THEN of(e.r) ELSE u)
         [] e.e = "bin" /\ e.op \notin Logical ->
              strict2(of(e.l), of(e.r), LAMBDA u, v : IF u.k = "bits" THEN BitsBinary(e.op, u, v)
                                                      ELSE IntBinary(e.op, u, v))
         [] e.e = "un" -> strict(of(e.x), LAMBDA u : IF e.op = "!" THEN [u EXCEPT !.v = bits_not(u.v)]
                                                     ELSE IF u.k = "bits" THEN [u EXCEPT !.v = bits_neg(u.v)]
                                                     ELSE Checked(u.k, N(u.v), -Value(u)))
         [] e.e = "if" -> strict(of(e.c), LAMBDA c : IF c.v[0] = 1 THEN of(e.t) ELSE of(e.f))
         [] e.e = "cast" -> strict(of(e.x), LAMBDA u : Wrapped(e.k, e.w, Value(u)))
         [] e.e = "wrapping" -> strict2(of(e.l), of(e.r),
                                      LAMBDA u, v : Wrapped(u.k, N(u.v), Arith(e.op, Value(u), Value(v))))
         [] e.e = "asr" -> strict(of(e.x), LAMBDA u : [u EXCEPT !.v = arithmetic_shift_right(u.v, e.n)])
         [] e.e = "index" -> strict(of(e.x), LAMBDA u : [k |-> "bits", v |-> [i \in {0} |-> u.v[e.i]]])
=============================================================================
