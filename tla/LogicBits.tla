----------------------------- MODULE LogicBits -----------------------------
(***************************************************************************)
(* The value types of copper-core/src/types.rs: Logic, a bit that is 0, 1  *)
(* or unknown, and Bits<N>, N of them, bit 0 least significant.  A vector  *)
(* is a function on 0..N-1.                                                *)
(***************************************************************************)
EXTENDS Integers, FiniteSets, FiniteSetsExt, Folds

X == 2
Logic == {0, 1, X}
Bits(n) == [0 .. n-1 -> Logic]
N(b) == Cardinality(DOMAIN b)

(* Variant: the X case is missing. *)
not_without_x(l) == 1 - l
not(l) == IF l = X THEN X ELSE 1 - l
bitand(l, r) == IF 0 \in {l, r} THEN 0 ELSE IF X \in {l, r} THEN X ELSE 1
bitor(l, r) == IF 1 \in {l, r} THEN 1 ELSE IF X \in {l, r} THEN X ELSE 0
bitxor(l, r) == IF X \in {l, r} THEN X ELSE (l + r) % 2

all(n, l) == [i \in 0 .. n-1 |-> l]
is_valid(b) == \A i \in DOMAIN b : b[i] # X

(* 2^i, as a function the proofs can expand. *)
pow2[i \in Nat] == IF i = 0 THEN 1 ELSE 2 * pow2[i - 1]
BitOf(x, i) == (x \div pow2[i]) % 2

from_uint(n, v) == [i \in 0 .. n-1 |-> BitOf(v, i)]
as_uint(b) ==
    LET result[i \in 0 .. N(b)] == IF i = 0 THEN 0 ELSE result[i - 1] + b[i - 1] * pow2[i - 1]
    IN result[N(b)]
from_bool(c) == IF c THEN 1 ELSE 0

with_bit(b, i, l) == [b EXCEPT ![i] = l]
(* Variant: the result starts as x() instead of zero(). *)
shift_left_from_x(b, n) == [i \in DOMAIN b |-> IF i >= n THEN b[i - n] ELSE X]
shift_left(b, n) == [i \in DOMAIN b |-> IF i >= n THEN b[i - n] ELSE 0]
shift_right(b, n) == [i \in DOMAIN b |-> IF i + n < N(b) THEN b[i + n] ELSE 0]
arithmetic_shift_right(b, n) ==
    [i \in DOMAIN b |-> IF i + n < N(b) THEN b[i + n] ELSE b[N(b) - 1]]

and_reduce(b) == MapThenFoldSet(bitand, 1, LAMBDA i : b[i], LAMBDA S : CHOOSE i \in S : TRUE, DOMAIN b)
or_reduce(b) == MapThenFoldSet(bitor, 0, LAMBDA i : b[i], LAMBDA S : CHOOSE i \in S : TRUE, DOMAIN b)
xor_reduce(b) == MapThenFoldSet(bitxor, 0, LAMBDA i : b[i], LAMBDA S : CHOOSE i \in S : TRUE, DOMAIN b)

(* X when an operand has an unknown bit, even if the known bits decide. *)
cmp_logic(Holds(_, _), a, b) ==
    IF is_valid(a) /\ is_valid(b) THEN from_bool(Holds(as_uint(a), as_uint(b))) ELSE X
eq_logic(a, b) == cmp_logic(LAMBDA u, v : u = v, a, b)
lt_logic(a, b) == cmp_logic(LAMBDA u, v : u < v, a, b)
le_logic(a, b) == cmp_logic(LAMBDA u, v : u <= v, a, b)

zero_extend(b, m) == [i \in 0 .. m-1 |-> IF i < N(b) THEN b[i] ELSE 0]
sign_extend(b, m) == [i \in 0 .. m-1 |-> IF i < N(b) THEN b[i] ELSE b[N(b) - 1]]
truncate(b, m) == [i \in 0 .. m-1 |-> b[i]]
part_select(b, lo, len) == [i \in 0 .. len-1 |-> b[lo + i]]
concat(hi, lo) == [i \in 0 .. N(hi) + N(lo) - 1 |-> IF i < N(lo) THEN lo[i] ELSE hi[i - N(lo)]]
replicate(b, m) == [i \in 0 .. m-1 |-> b[i % N(b)]]

mux(sel, a, b) ==
    CASE sel = 1 -> a
      [] sel = 0 -> b
      [] OTHER   -> [i \in DOMAIN a |-> IF a[i] = b[i] THEN a[i] ELSE X]

bits_not(a) == [i \in DOMAIN a |-> not(a[i])]
bits_and(a, b) == [i \in DOMAIN a |-> bitand(a[i], b[i])]
bits_or(a, b) == [i \in DOMAIN a |-> bitor(a[i], b[i])]
bits_xor(a, b) == [i \in DOMAIN a |-> bitxor(a[i], b[i])]

(* Arithmetic wraps, and is all X on an unknown operand or a zero divisor. *)
wrapping(F(_, _), a, b) ==
    IF is_valid(a) /\ is_valid(b)
    THEN from_uint(N(a), F(as_uint(a), as_uint(b)) % pow2[N(a)]) ELSE all(N(a), X)
bits_add(a, b) == wrapping(LAMBDA u, v : u + v, a, b)
bits_sub(a, b) == wrapping(LAMBDA u, v : u - v, a, b)
bits_mul(a, b) == wrapping(LAMBDA u, v : u * v, a, b)
bits_neg(a) == wrapping(LAMBDA u, v : -u, a, a)
divided(F(_, _), a, b) == IF b = all(N(b), 0) THEN all(N(a), X) ELSE wrapping(F, a, b)
bits_div(a, b) == divided(LAMBDA u, v : u \div v, a, b)
bits_rem(a, b) == divided(LAMBDA u, v : u % v, a, b)
=============================================================================
