---------------------------- MODULE BitsRegister ----------------------------
(***************************************************************************)
(* One register of type Bits, in the simulator and in hardware.  acc is    *)
(* its value as Logic and Bits compute it, unknown bits included; hw is    *)
(* the number hardware holds when each unknown bit fell one way or the     *)
(* other.  A step puts both through one operation of types.rs, hw through  *)
(* what the operation means for numbers.  tainted says that an unknown bit *)
(* or a zero divisor came in.                                              *)
(***************************************************************************)
EXTENDS LogicBits

CONSTANTS MaxWidth,        \* bound on the register's width
          Operands(_)      \* the operands tried at a width

ASSUME RegisterAssumption ==
    /\ MaxWidth \in 1 .. 128     \* as_uint and from_uint go through a u128
    /\ \A n \in 1 .. MaxWidth : Operands(n) \subseteq Bits(n)

VARIABLES acc, hw, tainted
vars == <<acc, hw, tainted>>

(* The numbers a vector stands for. *)
Numbers(n) == 0 .. pow2[n] - 1
Covers(b, x) == x \in Numbers(N(b)) /\ \A i \in DOMAIN b : b[i] = X \/ b[i] = BitOf(x, i)
Resolutions(b) == {x \in Numbers(N(b)) : Covers(b, x)}

(* The numbers of n bits whose bit i is B(i): there is one. *)
WithBits(n, B(_)) == {x \in Numbers(n) : \A i \in 0 .. n-1 : BitOf(x, i) = B(i)}

(* x in two's complement. *)
Signed(x, n) == IF x >= pow2[n - 1] THEN x - pow2[n] ELSE x

Become(b, x) == acc' = b /\ hw' = x
Taint(b) == tainted' = (tainted \/ ~is_valid(b))

----------------------------------------------------------------------------
Init == \E b \in Operands(1) : acc = b /\ hw \in Resolutions(b) /\ tainted = ~is_valid(b)

Load(b, x) == Become(b, x) /\ tainted' = ~is_valid(b)

SetBit(i, l, x) ==
    /\ Become(with_bit(acc, i, l), hw + (x - BitOf(hw, i)) * pow2[i])
    /\ tainted' = (tainted \/ l = X)

Bit(l) == [i \in {0} |-> l]

Reduce ==
    /\ LET ones == Cardinality({i \in DOMAIN acc : BitOf(hw, i) = 1}) IN
       \/ Become(Bit(and_reduce(acc)), from_bool(ones = N(acc)))
       \/ Become(Bit(or_reduce(acc)), from_bool(ones > 0))
       \/ Become(Bit(xor_reduce(acc)), ones % 2)
       \/ Become(Bit(not(and_reduce(acc))), from_bool(ones < N(acc)))
       \/ Become(Bit(not(or_reduce(acc))), from_bool(ones = 0))
       \/ Become(Bit(not(xor_reduce(acc))), (ones + 1) % 2)
    /\ UNCHANGED tainted

CompareLogic(b, x) ==
    /\ \/ Become(Bit(eq_logic(acc, b)), from_bool(hw = x))
       \/ Become(Bit(not(eq_logic(acc, b))), from_bool(hw # x))
       \/ Become(Bit(lt_logic(acc, b)), from_bool(hw < x))
       \/ Become(Bit(le_logic(acc, b)), from_bool(hw <= x))
       \/ Become(Bit(lt_logic(b, acc)), from_bool(hw > x))
       \/ Become(Bit(le_logic(b, acc)), from_bool(hw >= x))
    /\ Taint(b)

(* Width conversions, within the widths their assertions allow. *)
Convert(m) ==
    /\ \/ m >= N(acc) /\ Become(zero_extend(acc, m), hw)
       \/ m >= N(acc) /\ Become(sign_extend(acc, m), Signed(hw, N(acc)) % pow2[m])
       \/ m <= N(acc) /\ Become(truncate(acc, m), hw % pow2[m])
       \/ /\ m % N(acc) = 0
          /\ \E z \in WithBits(m, LAMBDA i : BitOf(hw, i % N(acc))) : Become(replicate(acc, m), z)
       \/ \E lo \in 0 .. N(acc) - m : Become(part_select(acc, lo, m), (hw \div pow2[lo]) % pow2[m])
    /\ UNCHANGED tainted

Concat(b, x) ==
    /\ N(acc) + N(b) <= MaxWidth
    /\ Become(concat(acc, b), hw * pow2[N(b)] + x)
    /\ Taint(b)

Mux(sel, s, b, x) ==
    /\ Become(mux(sel, acc, b), IF s = 1 THEN hw ELSE x)
    /\ tainted' = (tainted \/ sel = X \/ ~is_valid(b))

Invert ==
    /\ \/ Become(bits_not(acc), pow2[N(acc)] - 1 - hw)
       \/ Become(bits_neg(acc), (-hw) % pow2[N(acc)])
    /\ UNCHANGED tainted

Shift(k) ==
    /\ \/ Become(shift_left(acc, k), (hw * pow2[k]) % pow2[N(acc)])
       \/ Become(shift_right(acc, k), hw \div pow2[k])
       \/ Become(arithmetic_shift_right(acc, k), (Signed(hw, N(acc)) \div pow2[k]) % pow2[N(acc)])
    /\ UNCHANGED tainted

Combine(b, x) ==
    /\ \/ \E z \in WithBits(N(acc), LAMBDA i : BitOf(hw, i) * BitOf(x, i)) : Become(bits_and(acc, b), z)
       \/ \E z \in WithBits(N(acc), LAMBDA i : from_bool(BitOf(hw, i) + BitOf(x, i) > 0)) : Become(bits_or(acc, b), z)
       \/ \E z \in WithBits(N(acc), LAMBDA i : (BitOf(hw, i) + BitOf(x, i)) % 2) : Become(bits_xor(acc, b), z)
       \/ Become(bits_add(acc, b), (hw + x) % pow2[N(acc)])
       \/ Become(bits_sub(acc, b), (hw - x) % pow2[N(acc)])
       \/ Become(bits_mul(acc, b), (hw * x) % pow2[N(acc)])
    /\ Taint(b)

(* `/` is not transpiled; both divide by zero into X. *)
Divide(b, x) ==
    /\ \/ Become(bits_div(acc, b), IF x = 0 THEN 0 ELSE hw \div x)
       \/ Become(bits_rem(acc, b), IF x = 0 THEN 0 ELSE hw % x)
    /\ tainted' = (tainted \/ ~is_valid(b) \/ x = 0)

BitsNext ==
    \/ \E n \in 1 .. MaxWidth : \E b \in Operands(n) : \E x \in Resolutions(b) :
          Load(b, x) \/ Concat(b, x)
    \/ \E i \in DOMAIN acc, l \in Logic : \E x \in Resolutions(Bit(l)) : SetBit(i, l, x)
    \/ Reduce \/ Invert
    \/ \E b \in Operands(N(acc)) : \E x \in Resolutions(b) :
          \/ CompareLogic(b, x)
          \/ Combine(b, x)
          \/ Divide(b, x)
          \/ \E sel \in Logic : \E s \in Resolutions(Bit(sel)) : Mux(sel, s, b, x)
    \/ \E m \in 1 .. MaxWidth : Convert(m)
    \/ \E k \in 0 .. MaxWidth : Shift(k)

BitsSpec == Init /\ [][BitsNext]_vars

----------------------------------------------------------------------------
(* The vector keeps a width and logic values, whatever is done to it; the *)
(* hardware's number fits the widest vector (Bits is an array of Logic).   *)
TypeOK ==
    /\ acc \in UNION {Bits(n) : n \in 1 .. MaxWidth}
    /\ hw \in Numbers(MaxWidth)
    /\ tainted \in BOOLEAN

(* The hardware's number is one the simulated vector stands for: every bit *)
(* the simulator knows is the bit the hardware computes, whichever way the *)
(* unknown bits fell, through any sequence of Bits operations and, in      *)
(* Values, transpiled statements (types.rs, chir_lower::lower_expr,        *)
(* emit.rs).                                                               *)
HardwareCovered == Covers(acc, hw)

(* An unknown bit comes only from an unknown bit or a zero divisor: no     *)
(* operation of Bits invents one.                                          *)
UnknownHasCause == tainted \/ is_valid(acc)
=============================================================================
