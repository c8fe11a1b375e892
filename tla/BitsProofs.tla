----------------------------- MODULE BitsProofs ------------------------------
(***************************************************************************)
(* The operations of Bits, for every width and every operand: they keep    *)
(* the vector well-formed, never invent an unknown bit, and answer a known *)
(* bit only where the number behind the vector has that bit.               *)
(***************************************************************************)
EXTENDS BitsRegister, TLAPS, FiniteSetTheorems, WellFoundedInduction

(***************************************************************************)
(* Powers of two.                                                          *)
(***************************************************************************)

\* A set of numbers that holds 0 and every successor holds all numbers.
LEMMA AllNumbers ==
    ASSUME NEW P, 0 \in P, \A k \in Nat : k \in P => k + 1 \in P
    PROVE  Nat \subseteq P
<1> SUFFICES ASSUME Nat \ P # {} PROVE FALSE
  OBVIOUS
<1>1. PICK m \in Nat \ P : \A k \in Nat \ P : ~(<<k, m>> \in OpToRel(<, Nat))
  BY WFMin, NatLessThanWellFounded, Zenon
<1>2. \A k \in Nat \ P : ~(k < m)
  BY <1>1 DEF OpToRel
<1>3. m \in Nat /\ m # 0
  BY <1>1
<1>4. m - 1 \in Nat /\ m - 1 < m /\ (m - 1) + 1 = m
  BY <1>3
<1>5. m - 1 \in P
  BY <1>2, <1>4
<1> QED
  BY <1>1, <1>4, <1>5

\* The first n powers, as a function.
Powers(n, h) == h \in [0..n -> Nat \ {0}] /\ \A i \in 0..n : h[i] = IF i = 0 THEN 1 ELSE 2 * h[i - 1]

\* Each power is positive and twice the one before.
LEMMA PowerDef ==
    /\ \A i \in Nat : pow2[i] \in Nat \ {0} /\ pow2[i + 1] = 2 * pow2[i]
    /\ pow2[0] = 1
<1>1. \A n \in Nat : \E h : Powers(n, h)
  <2> DEFINE P == {n \in Nat : \E h : Powers(n, h)}
  <2>1. 0 \in P
    <3>1. Powers(0, [i \in 0..0 |-> 1])
      BY DEF Powers
    <3> QED
      BY <3>1
  <2>2. ASSUME NEW k \in Nat, k \in P PROVE k + 1 \in P
    <3>1. PICK h : Powers(k, h)
      BY <2>2
    <3>2. Powers(k + 1, [i \in 0..(k + 1) |-> IF i = k + 1 THEN 2 * h[k] ELSE h[i]])
      BY <3>1 DEF Powers
    <3> QED
      BY <3>2
  <2>3. Nat \subseteq P
    <3> HIDE DEF P
    <3> QED
      BY <2>1, <2>2, AllNumbers
  <2> QED
    BY <2>3
<1>2. ASSUME NEW m \in Nat, NEW n \in Nat, m <= n, NEW g, NEW h, Powers(m, g), Powers(n, h)
      PROVE  \A i \in 0..m : g[i] = h[i]
  <2> DEFINE P == {i \in Nat : i <= m => g[i] = h[i]}
  <2>1. 0 \in P
    BY <1>2 DEF Powers
  <2>2. ASSUME NEW k \in Nat, k \in P PROVE k + 1 \in P
    <3> SUFFICES ASSUME k + 1 <= m PROVE g[k + 1] = h[k + 1]
      OBVIOUS
    <3>1. g[k] = h[k] /\ k + 1 \in 0..m /\ k + 1 \in 0..n /\ k + 1 # 0 /\ (k + 1) - 1 = k
      BY <1>2, <2>2
    <3> QED
      BY <1>2, <3>1 DEF Powers
  <2>3. Nat \subseteq P
    <3> HIDE DEF P
    <3> QED
      BY <2>1, <2>2, AllNumbers
  <2> QED
    BY <2>3
<1> DEFINE Full(g) == g = [i \in Nat |-> IF i = 0 THEN 1 ELSE 2 * g[i - 1]]
           w == [i \in Nat |-> (CHOOSE h : Powers(i, h))[i]]
<1>3. \A i \in Nat : Powers(i, CHOOSE h : Powers(i, h))
  BY <1>1
<1>4. \A i \in Nat : w[i] \in Nat \ {0} /\ w[i] = IF i = 0 THEN 1 ELSE 2 * w[i - 1]
  <2> TAKE i \in Nat
  <2> DEFINE h == CHOOSE h : Powers(i, h)
             g == CHOOSE g : Powers(i - 1, g)
  <2>1. Powers(i, h) /\ w[i] = h[i]
    BY <1>3
  <2> HIDE DEF h
  <2>2. w[i] \in Nat \ {0}
    BY <2>1 DEF Powers
  <2>3. CASE i = 0
    BY <2>1, <2>2, <2>3 DEF Powers
  <2>4. CASE i # 0
    <3>1. i - 1 \in Nat /\ i - 1 \in 0..i /\ i - 1 <= i
      BY <2>4
    <3>2. Powers(i - 1, g) /\ w[i - 1] = g[i - 1]
      BY <1>3, <3>1
    <3> HIDE DEF g
    <3>3. g[i - 1] = h[i - 1]
      BY <1>2, <2>1, <3>1, <3>2
    <3> QED
      BY <2>1, <2>2, <2>4, <3>2, <3>3 DEF Powers
  <2> QED
    BY <2>3, <2>4
<1> HIDE DEF w
<1>5. Full(w)
  <2>1. w = [i \in Nat |-> w[i]]
    BY DEF w
  <2> QED
    BY <1>4, <2>1
<1>6. Full(pow2)
  <2>1. pow2 = CHOOSE g : Full(g)
    BY DEF pow2
  <2> HIDE DEF Full
  <2> QED
    BY <1>5, <2>1
<1>7. pow2[0] = 1 /\ \A i \in Nat : pow2[i + 1] = 2 * pow2[i]
  <2>1. \A i \in Nat : i + 1 \in Nat /\ i + 1 # 0 /\ (i + 1) - 1 = i
    OBVIOUS
  <2> QED
    BY <1>6, <2>1
<1>8. \A i \in Nat : pow2[i] \in Nat \ {0}
  <2> DEFINE P == {i \in Nat : pow2[i] \in Nat \ {0}}
  <2>1. 0 \in P
    BY <1>7
  <2>2. ASSUME NEW k \in Nat, k \in P PROVE k + 1 \in P
    BY <1>7, <2>2
  <2>3. Nat \subseteq P
    <3> HIDE DEF P
    <3> QED
      BY <2>1, <2>2, AllNumbers
  <2> QED
    BY <2>3
<1> QED
  BY <1>7, <1>8

-----------------------------------------------------------------------------
(***************************************************************************)
(* The reductions fold a vector: a recursive function on the sets of its   *)
(* bits, taking one bit out at a time.                                     *)
(***************************************************************************)

Rest(s) == s \ {CHOOSE i \in s : TRUE}

\* Two functions that agree on the empty set, and on a set if they do with one bit less,
\* agree.
LEMMA BitByBit ==
    ASSUME NEW S, IsFiniteSet(S), NEW f, NEW w, f[{}] = w[{}],
           \A s \in SUBSET S : s # {} /\ f[Rest(s)] = w[Rest(s)] => f[s] = w[s]
    PROVE  f[S] = w[S]
<1> DEFINE Bad == {s \in SUBSET S : f[s] # w[s]}
<1> SUFFICES ASSUME Bad # {} PROVE FALSE
  OBVIOUS
<1>1. IsWellFoundedOn(StrictSubsetOrdering(S), FiniteSubsetsOf(S))
  BY FS_StrictSubsetOrderingWellFounded
<1>2. Bad \subseteq FiniteSubsetsOf(S)
  BY FS_Subset DEF FiniteSubsetsOf
<1>3. PICK s \in Bad : \A t \in Bad : <<t, s>> \notin StrictSubsetOrdering(S)
  BY <1>1, <1>2, WFMin
<1>4. s # {} /\ s \in SUBSET S
  BY <1>3
<1>5. Rest(s) \in SUBSET S /\ Rest(s) \subseteq s /\ Rest(s) # s
  BY <1>4 DEF Rest
<1>6. Rest(s) \notin Bad
  BY <1>3, <1>4, <1>5 DEF StrictSubsetOrdering
<1> QED
  BY <1>3, <1>4, <1>5, <1>6

\* and_reduce: 0 if any bit is 0, else X if any is unknown, else 1.
LEMMA AndReduce ==
    ASSUME NEW S, IsFiniteSet(S), NEW b \in [S -> Logic]
    PROVE  and_reduce(b) = IF \E i \in S : b[i] = 0 THEN 0 ELSE IF is_valid(b) THEN 1 ELSE X
<1> DEFINE w == [s \in SUBSET S |-> IF \E i \in s : b[i] = 0 THEN 0 ELSE IF \E i \in s : b[i] = X THEN X ELSE 1]
           Folded(g) == g = [s \in SUBSET S |-> IF s = {} THEN 1 ELSE bitand(b[CHOOSE i \in s : TRUE], g[Rest(s)])]
           f == CHOOSE g : Folded(g)
<1>1. ASSUME NEW s \in SUBSET S, s # {}
      PROVE  w[s] = bitand(b[CHOOSE i \in s : TRUE], w[Rest(s)])
  <2>1. PICK x \in s : x = CHOOSE i \in s : TRUE
    BY <1>1
  <2>2. Rest(s) \in SUBSET S /\ s = Rest(s) \cup {x}
    BY <2>1 DEF Rest
  <2>3. b[x] \in {0, 1, 2}
    BY DEF Logic, X
  <2> QED
    BY <2>1, <2>2, <2>3 DEF bitand, X
<1>2. w[{}] = 1
  OBVIOUS
<1>3. Folded(w)
  <2> HIDE DEF w
  <2>1. w = [s \in SUBSET S |-> w[s]]
    BY DEF w
  <2> QED
    BY <1>1, <1>2, <2>1
<1>4. Folded(f)
  <2> HIDE DEF w, Folded
  <2> QED
    BY <1>3
<1>5. and_reduce(b) = f[S]
  BY DEF and_reduce, MapThenFoldSet, Rest
<1>6. f[S] = w[S]
  <2> HIDE DEF w, f
  <2>1. f[{}] = w[{}]
    BY <1>2, <1>4
  <2>2. \A s \in SUBSET S : s # {} /\ f[Rest(s)] = w[Rest(s)] => f[s] = w[s]
    BY <1>1, <1>4
  <2> QED
    BY <2>1, <2>2, BitByBit
<1> QED
  BY <1>5, <1>6 DEF is_valid

\* or_reduce: 1 if any bit is 1, else X if any is unknown, else 0.
LEMMA OrReduce ==
    ASSUME NEW S, IsFiniteSet(S), NEW b \in [S -> Logic]
    PROVE  or_reduce(b) = IF \E i \in S : b[i] = 1 THEN 1 ELSE IF is_valid(b) THEN 0 ELSE X
<1> DEFINE w == [s \in SUBSET S |-> IF \E i \in s : b[i] = 1 THEN 1 ELSE IF \E i \in s : b[i] = X THEN X ELSE 0]
           Folded(g) == g = [s \in SUBSET S |-> IF s = {} THEN 0 ELSE bitor(b[CHOOSE i \in s : TRUE], g[Rest(s)])]
           f == CHOOSE g : Folded(g)
<1>1. ASSUME NEW s \in SUBSET S, s # {}
      PROVE  w[s] = bitor(b[CHOOSE i \in s : TRUE], w[Rest(s)])
  <2>1. PICK x \in s : x = CHOOSE i \in s : TRUE
    BY <1>1
  <2>2. Rest(s) \in SUBSET S /\ s = Rest(s) \cup {x}
    BY <2>1 DEF Rest
  <2>3. b[x] \in {0, 1, 2}
    BY DEF Logic, X
  <2> QED
    BY <2>1, <2>2, <2>3 DEF bitor, X
<1>2. w[{}] = 0
  BY DEF X
<1>3. Folded(w)
  <2> HIDE DEF w
  <2>1. w = [s \in SUBSET S |-> w[s]]
    BY DEF w
  <2> QED
    BY <1>1, <1>2, <2>1
<1>4. Folded(f)
  <2> HIDE DEF w, Folded
  <2> QED
    BY <1>3
<1>5. or_reduce(b) = f[S]
  BY DEF or_reduce, MapThenFoldSet, Rest
<1>6. f[S] = w[S]
  <2> HIDE DEF w, f
  <2>1. f[{}] = w[{}]
    BY <1>2, <1>4
  <2>2. \A s \in SUBSET S : s # {} /\ f[Rest(s)] = w[Rest(s)] => f[s] = w[s]
    BY <1>1, <1>4
  <2> QED
    BY <2>1, <2>2, BitByBit
<1> QED
  BY <1>5, <1>6 DEF is_valid

\* xor_reduce: X if any bit is unknown, else the parity of the ones.
LEMMA XorReduce ==
    ASSUME NEW S, IsFiniteSet(S), NEW b \in [S -> Logic]
    PROVE  xor_reduce(b) = IF is_valid(b) THEN Cardinality({i \in S : b[i] = 1}) % 2 ELSE X
<1> DEFINE Ones(s) == {i \in s : b[i] = 1}
           w == [s \in SUBSET S |-> IF \E i \in s : b[i] = X THEN X ELSE Cardinality(Ones(s)) % 2]
           Folded(g) == g = [s \in SUBSET S |-> IF s = {} THEN 0 ELSE bitxor(b[CHOOSE i \in s : TRUE], g[Rest(s)])]
           f == CHOOSE g : Folded(g)
<1>0. \A s \in SUBSET S : IsFiniteSet(Ones(s)) /\ Cardinality(Ones(s)) \in Nat
  BY FS_Subset, FS_CardinalityType
<1>1. ASSUME NEW s \in SUBSET S, s # {}
      PROVE  w[s] = bitxor(b[CHOOSE i \in s : TRUE], w[Rest(s)])
  <2>1. PICK x \in s : x = CHOOSE i \in s : TRUE
    BY <1>1
  <2>2. Rest(s) \in SUBSET S /\ s = Rest(s) \cup {x} /\ x \notin Rest(s)
    BY <2>1 DEF Rest
  <2>3. b[x] \in {0, 1, 2}
    BY DEF Logic, X
  <2> DEFINE c == Cardinality(Ones(s))
             r == Cardinality(Ones(Rest(s)))
  <2>4. c \in Nat /\ r \in Nat
    BY <1>0, <2>2
  <2>5. b[x] = 1 => c = r + 1
    <3> SUFFICES ASSUME b[x] = 1 PROVE c = r + 1
      OBVIOUS
    <3>1. Ones(s) = Ones(Rest(s)) \cup {x} /\ x \notin Ones(Rest(s))
      BY <2>2
    <3> HIDE DEF Ones
    <3> QED
      BY <1>0, <2>2, <3>1, FS_AddElement
  <2>6. b[x] = 0 => c = r
    <3> SUFFICES ASSUME b[x] = 0 PROVE c = r
      OBVIOUS
    <3>1. Ones(s) = Ones(Rest(s))
      BY <2>2
    <3> QED
      BY <3>1
  <2>7. w[s] = IF \E i \in s : b[i] = X THEN X ELSE c % 2
    OBVIOUS
  <2>8. w[Rest(s)] = IF \E i \in Rest(s) : b[i] = X THEN X ELSE r % 2
    BY <2>2
  <2>9. (1 + (r % 2)) % 2 = (r + 1) % 2 /\ (0 + (r % 2)) % 2 = r % 2 /\ r % 2 \in {0, 1}
    <3> HIDE DEF r
    <3> QED
      BY <2>4
  <2> DEFINE U(t) == \E i \in t : b[i] = X
  <2>10. U(s) <=> U(Rest(s)) \/ b[x] = X
    BY <2>2
  <2> HIDE DEF w, c, r, U
  <2>11. w[s] = IF U(s) THEN X ELSE c % 2
    BY <2>7 DEF U
  <2>12. w[Rest(s)] = IF U(Rest(s)) THEN X ELSE r % 2
    BY <2>8 DEF U
  <2>13. CASE U(s)
    BY <2>1, <2>10, <2>11, <2>12, <2>13 DEF bitxor
  <2>14. CASE ~U(s) /\ b[x] = 0
    BY <2>1, <2>6, <2>9, <2>10, <2>11, <2>12, <2>14 DEF bitxor, X
  <2>15. CASE ~U(s) /\ b[x] = 1
    BY <2>1, <2>5, <2>9, <2>10, <2>11, <2>12, <2>15 DEF bitxor, X
  <2> QED
    BY <2>3, <2>10, <2>13, <2>14, <2>15 DEF X
<1>2. w[{}] = 0
  <2>1. Ones({}) = {}
    OBVIOUS
  <2> QED
    BY <2>1, FS_EmptySet
<1>3. Folded(w)
  <2> HIDE DEF w
  <2>1. w = [s \in SUBSET S |-> w[s]]
    BY DEF w
  <2> QED
    BY <1>1, <1>2, <2>1
<1>4. Folded(f)
  <2> HIDE DEF w, Folded
  <2> QED
    BY <1>3
<1>5. xor_reduce(b) = f[S]
  BY DEF xor_reduce, MapThenFoldSet, Rest
<1>6. f[S] = w[S]
  <2> HIDE DEF w, f
  <2>1. f[{}] = w[{}]
    BY <1>2, <1>4
  <2>2. \A s \in SUBSET S : s # {} /\ f[Rest(s)] = w[Rest(s)] => f[s] = w[s]
    BY <1>1, <1>4
  <2> QED
    BY <2>1, <2>2, BitByBit
<1>7. w[S] = IF \E i \in S : b[i] = X THEN X ELSE Cardinality(Ones(S)) % 2
  OBVIOUS
<1> QED
  BY <1>5, <1>6, <1>7 DEF is_valid

-----------------------------------------------------------------------------
(***************************************************************************)
(* Bits of numbers.                                                        *)
(***************************************************************************)

\* Powers of two add their exponents.
LEMMA PowerSum ==
    ASSUME NEW i \in Nat, NEW j \in Nat
    PROVE  pow2[i + j] = pow2[i] * pow2[j]
<1> DEFINE P == {k \in Nat : pow2[i + k] = pow2[i] * pow2[k]}
<1>1. 0 \in P
  BY PowerDef
<1>2. ASSUME NEW k \in Nat, k \in P PROVE k + 1 \in P
  <2>1. pow2[i + (k + 1)] = 2 * pow2[i + k] /\ pow2[k + 1] = 2 * pow2[k]
    <3>1. i + k \in Nat /\ i + (k + 1) = (i + k) + 1
      OBVIOUS
    <3> QED
      BY <3>1, PowerDef
  <2>2. \A x, y \in Nat : 2 * (x * y) = x * (2 * y)
    OBVIOUS
  <2> QED
    BY <1>2, <2>1, <2>2, PowerDef
<1>3. Nat \subseteq P
  <2> HIDE DEF P
  <2> QED
    BY <1>1, <1>2, AllNumbers
<1> QED
  BY <1>3

\* Division with remainder.
LEMMA Division ==
    ASSUME NEW x \in Int, NEW d \in Nat \ {0}
    PROVE  x \div d \in Int /\ x % d \in 0..(d - 1) /\ x = (x \div d) * d + (x % d)
OBVIOUS

\* There is only one quotient and remainder.
LEMMA DivisionUnique ==
    ASSUME NEW q \in Int, NEW d \in Nat \ {0}, NEW r \in 0..(d - 1)
    PROVE  (q * d + r) \div d = q /\ (q * d + r) % d = r
<1> DEFINE x == q * d + r
           p == x \div d
           s == x % d
<1>1. x \in Int
  OBVIOUS
<1>2. p \in Int /\ s \in 0..(d - 1) /\ x = p * d + s
  BY <1>1, Division
<1>3. (p - q) * d = r - s
  BY <1>2
<1> HIDE DEF x, p, s
<1>4. ~(p - q >= 1)
  <2> SUFFICES ASSUME p - q >= 1 PROVE FALSE
    OBVIOUS
  <2>1. \A k \in Int : k >= 1 => k * d >= d
    OBVIOUS
  <2> QED
    BY <1>2, <1>3, <2>1
<1>5. ~(p - q <= -1)
  <2> SUFFICES ASSUME p - q <= -1 PROVE FALSE
    OBVIOUS
  <2>1. \A k \in Int : k <= -1 => k * d <= -d
    OBVIOUS
  <2> QED
    BY <1>2, <1>3, <2>1
<1>6. p = q
  BY <1>2, <1>4, <1>5
<1>7. s = r
  BY <1>2, <1>3, <1>6
<1> QED
  BY <1>6, <1>7 DEF p, s, x

\* Dividing by a product.
LEMMA DivisionTwice ==
    ASSUME NEW x \in Int, NEW a \in Nat \ {0}, NEW b \in Nat \ {0}
    PROVE  x \div (a * b) = (x \div a) \div b
<1> DEFINE q == x \div a
           r == x % a
           u == q \div b
           v == q % b
<1>1. q \in Int /\ r \in 0..(a - 1) /\ x = q * a + r
  BY Division
<1>2. u \in Int /\ v \in 0..(b - 1) /\ q = u * b + v
  BY <1>1, Division
<1> HIDE DEF q, r, u, v
<1>3. x = u * (a * b) + (v * a + r)
  <2>1. q * a = (u * b) * a + v * a
    BY <1>2
  <2>2. (u * b) * a = u * (a * b)
    BY <1>2
  <2> QED
    BY <1>1, <1>2, <2>1, <2>2
<1>4. v * a + r \in 0..(a * b - 1)
  <2>1. v * a <= (b - 1) * a /\ v * a >= 0
    BY <1>2
  <2>2. (b - 1) * a = a * b - a
    OBVIOUS
  <2> QED
    BY <1>1, <1>2, <2>1, <2>2
<1>5. a * b \in Nat \ {0}
  OBVIOUS
<1> QED
  BY <1>2, <1>3, <1>4, <1>5, DivisionUnique DEF u, q

-----------------------------------------------------------------------------
\* A bit is 0 or 1.
LEMMA BitType ==
    ASSUME NEW x \in Int, NEW i \in Nat
    PROVE  BitOf(x, i) \in {0, 1} /\ x \div pow2[i] \in Int
<1>1. x \div pow2[i] \in Int
  BY PowerDef, Division
<1>2. \A y \in Int : y % 2 \in {0, 1}
  OBVIOUS
<1> QED
  BY <1>1, <1>2 DEF BitOf

\* A power of two in terms of a smaller one.
LEMMA PowerSplit ==
    ASSUME NEW n \in Nat, NEW i \in 0..n
    PROVE  /\ n - i \in Nat
           /\ pow2[n] = pow2[n - i] * pow2[i]
           /\ i < n => n - i - 1 \in Nat /\ pow2[n - i] = 2 * pow2[n - i - 1]
<1>1. n - i \in Nat /\ (n - i) + i = n
  OBVIOUS
<1>2. pow2[n] = pow2[n - i] * pow2[i]
  BY <1>1, PowerSum
<1>3. ASSUME i < n PROVE n - i - 1 \in Nat /\ pow2[n - i] = 2 * pow2[n - i - 1]
  <2>1. n - i - 1 \in Nat /\ (n - i - 1) + 1 = n - i
    BY <1>3
  <2> QED
    BY <2>1, PowerDef
<1> QED
  BY <1>1, <1>2, <1>3

\* The bits above n do not disturb those below.
LEMMA LowBits ==
    ASSUME NEW x \in Int, NEW z \in Int, NEW n \in Nat, NEW i \in 0..(n - 1)
    PROVE  BitOf(z * pow2[n] + x, i) = BitOf(x, i)
<1> DEFINE d == pow2[i]
           q == x \div d
           r == x % d
           h == pow2[n - i - 1]
<1>1. d \in Nat \ {0} /\ h \in Nat \ {0} /\ pow2[n] = (2 * h) * d
  <2>1. i \in 0..n /\ i < n
    OBVIOUS
  <2>2. n - i - 1 \in Nat /\ pow2[n] = pow2[n - i] * pow2[i] /\ pow2[n - i] = 2 * pow2[n - i - 1]
    BY <2>1, PowerSplit
  <2> QED
    BY <2>2, PowerDef
<1>2. q \in Int /\ r \in 0..(d - 1) /\ x = q * d + r
  BY <1>1, Division
<1>3. z * pow2[n] + x = (2 * (z * h) + q) * d + r
  <2> HIDE DEF q, r, d, h
  <2>1. z * ((2 * h) * d) = (2 * (z * h)) * d
    BY <1>1
  <2>2. (2 * (z * h) + q) * d = (2 * (z * h)) * d + q * d
    BY <1>1, <1>2
  <2> QED
    BY <1>1, <1>2, <2>1, <2>2
<1>4. (z * pow2[n] + x) \div d = 2 * (z * h) + q
  <2> HIDE DEF q, r, d, h
  <2> DEFINE u == 2 * (z * h) + q
  <2>1. u \in Int
    BY <1>1, <1>2
  <2>2. z * pow2[n] + x = u * d + r
    BY <1>3
  <2> HIDE DEF u
  <2>3. (u * d + r) \div d = u
    BY <1>1, <1>2, <2>1, DivisionUnique
  <2>4. (z * pow2[n] + x) \div d = u
    BY <2>2, <2>3
  <2> QED
    BY <2>4 DEF u
<1>5. \A y, p \in Int : (2 * y + p) % 2 = p % 2
  OBVIOUS
<1>6. z * h \in Int
  BY <1>1
<1> QED
  BY <1>2, <1>4, <1>5, <1>6 DEF BitOf

\* The bits of a remainder are the low bits.
LEMMA BitsOfRemainder ==
    ASSUME NEW x \in Int, NEW n \in Nat, NEW i \in 0..(n - 1)
    PROVE  BitOf(x % pow2[n], i) = BitOf(x, i)
<1> DEFINE d == pow2[n]
           q == x \div d
           r == x % d
<1>1. d \in Nat \ {0}
  BY PowerDef
<1>2. q \in Int /\ r \in 0..(d - 1) /\ x = q * d + r
  <2> HIDE DEF d
  <2> QED
    BY <1>1, Division
<1>3. BitOf(q * d + r, i) = BitOf(r, i)
  <2> HIDE DEF q, r
  <2> QED
    BY <1>1, <1>2, LowBits
<1> QED
  BY <1>2, <1>3

\* The bits of a quotient are the high bits.
LEMMA BitsOfQuotient ==
    ASSUME NEW x \in Int, NEW k \in Nat, NEW i \in Nat
    PROVE  BitOf(x \div pow2[k], i) = BitOf(x, k + i)
<1>1. pow2[k + i] = pow2[k] * pow2[i]
  BY PowerSum
<1>2. pow2[k] \in Nat \ {0} /\ pow2[i] \in Nat \ {0}
  BY PowerDef
<1> QED
  BY <1>1, <1>2, DivisionTwice DEF BitOf

\* The bits of a number written behind another.
LEMMA BitsOfJoin ==
    ASSUME NEW y \in Int, NEW n \in Nat, NEW x \in Numbers(n), NEW i \in Nat
    PROVE  BitOf(y * pow2[n] + x, i) = IF i < n THEN BitOf(x, i) ELSE BitOf(y, i - n)
<1>1. pow2[n] \in Nat \ {0} /\ x \in 0..(pow2[n] - 1) /\ x \in Int
  BY PowerDef DEF Numbers
<1>2. CASE i < n
  BY <1>1, <1>2, LowBits
<1>3. CASE i >= n
  <2>1. (y * pow2[n] + x) \div pow2[n] = y /\ y * pow2[n] + x \in Int
    <3> DEFINE d == pow2[n]
    <3> HIDE DEF d
    <3>1. d \in Nat \ {0} /\ x \in 0..(d - 1)
      BY <1>1 DEF d
    <3>2. (y * d + x) \div d = y /\ y * d + x \in Int
      BY <3>1, DivisionUnique
    <3> QED
      BY <3>2 DEF d
  <2>2. i - n \in Nat /\ n + (i - n) = i
    BY <1>3
  <2>3. BitOf((y * pow2[n] + x) \div pow2[n], i - n) = BitOf(y * pow2[n] + x, i)
    BY <2>1, <2>2, BitsOfQuotient
  <2> QED
    BY <1>3, <2>1, <2>3
<1> QED
  BY <1>2, <1>3

\* A number has no bits beyond its width.
LEMMA BitsBeyond ==
    ASSUME NEW n \in Nat, NEW x \in Numbers(n), NEW i \in Nat, n <= i
    PROVE  BitOf(x, i) = 0
<1>1. BitOf(0 * pow2[n] + x, i) = BitOf(0, i - n)
  BY BitsOfJoin
<1>2. 0 * pow2[n] + x = x
  BY PowerDef DEF Numbers
<1>3. pow2[i - n] \in Nat \ {0}
  BY PowerDef
<1>4. 0 \div pow2[i - n] = 0
  <2>1. 0 * pow2[i - n] + 0 = 0
    BY <1>3
  <2> QED
    BY <1>3, <2>1, DivisionUnique
<1> QED
  BY <1>1, <1>2, <1>4 DEF BitOf

\* Narrower numbers are wider ones too.
LEMMA NumbersWiden ==
    ASSUME NEW n \in Nat, NEW m \in Nat, n <= m
    PROVE  Numbers(n) \subseteq Numbers(m)
<1>1. pow2[m] = pow2[m - n] * pow2[n] /\ m - n \in Nat
  BY PowerSplit
<1>2. pow2[n] \in Nat \ {0} /\ pow2[m - n] \in Nat \ {0} /\ pow2[m] \in Nat
  BY <1>1, PowerDef
<1>3. \A x, y \in Nat \ {0} : x * y >= y
  OBVIOUS
<1> QED
  BY <1>1, <1>2, <1>3 DEF Numbers

-----------------------------------------------------------------------------
(***************************************************************************)
(* Vectors and the numbers they stand for.                                 *)
(***************************************************************************)

\* The vector b of n bits stands for x.
Stands(n, b, x) ==
    b \in Bits(n) /\ x \in Numbers(n) /\ \A i \in 0..(n - 1) : b[i] = X \/ b[i] = BitOf(x, i)

\* The width of a vector.
LEMMA WidthOf ==
    ASSUME NEW n \in Nat, NEW b \in Bits(n)
    PROVE  DOMAIN b = 0..(n - 1) /\ N(b) = n /\ IsFiniteSet(DOMAIN b)
<1>1. DOMAIN b = 0..(n - 1)
  BY DEF Bits
<1>2. IsFiniteSet(0..(n - 1)) /\ Cardinality(0..(n - 1)) = n
  <2>1. 0 \in Int /\ n - 1 \in Int
    OBVIOUS
  <2> QED
    BY <2>1, FS_Interval
<1> QED
  BY <1>1, <1>2 DEF N

\* Covers in terms of the width.
LEMMA CoversStands ==
    ASSUME NEW n \in Nat, NEW b \in Bits(n), NEW x
    PROVE  Covers(b, x) <=> Stands(n, b, x)
BY WidthOf DEF Covers, Stands

\* A number is an integer.
LEMMA NumberType ==
    ASSUME NEW n \in Nat, NEW x \in Numbers(n)
    PROVE  x \in Nat /\ x < pow2[n] /\ pow2[n] \in Nat \ {0}
BY PowerDef DEF Numbers

\* A known vector stands for one number only, the one as_uint computes.
LEMMA AsUint ==
    ASSUME NEW n \in Nat, NEW b, NEW x, Stands(n, b, x), is_valid(b)
    PROVE  as_uint(b) = x
<1>1. b \in Bits(n) /\ x \in Nat /\ x \in Int /\ x < pow2[n]
  BY NumberType DEF Stands
<1>2. ASSUME NEW k \in Nat
      PROVE  x % pow2[k + 1] = (x % pow2[k]) + BitOf(x, k) * pow2[k]
  <2> DEFINE d == pow2[k]
             q == x \div d
             r == x % d
             u == q \div 2
             v == q % 2
  <2>1. d \in Nat \ {0} /\ pow2[k + 1] = 2 * d
    BY PowerDef
  <2>2. q \in Int /\ r \in 0..(d - 1) /\ x = q * d + r
    <3> HIDE DEF d
    <3> QED
      BY <1>1, <2>1, Division
  <2>3. u \in Int /\ v \in {0, 1} /\ q = u * 2 + v
    <3> HIDE DEF q
    <3> QED
      BY <2>2
  <2>4. BitOf(x, k) = v
    BY DEF BitOf
  <2> HIDE DEF d, q, r, u, v
  <2>5. x = u * (2 * d) + (v * d + r) /\ v * d + r \in 0..(2 * d - 1)
    <3>1. q * d = u * (2 * d) + v * d
      BY <2>1, <2>3
    <3> DEFINE e == v * d
    <3>2. e \in {0, d}
      BY <2>1, <2>3
    <3>3. q * d = u * (2 * d) + e
      BY <3>1
    <3>4. u * (2 * d) \in Int
      BY <2>1, <2>3
    <3> HIDE DEF e
    <3>5. x = u * (2 * d) + (e + r)
      BY <2>1, <2>2, <3>2, <3>3, <3>4
    <3>6. e + r \in 0..(2 * d - 1)
      BY <2>1, <2>2, <3>2
    <3> QED
      BY <3>5, <3>6 DEF e
  <2>6. x % (2 * d) = v * d + r
    <3> DEFINE s == v * d + r
               c == 2 * d
    <3>1. c \in Nat \ {0} /\ s \in 0..(c - 1) /\ x = u * c + s
      BY <2>1, <2>5
    <3> HIDE DEF s, c
    <3>2. (u * c + s) % c = s
      BY <2>3, <3>1, DivisionUnique
    <3> QED
      BY <3>1, <3>2 DEF s, c
  <2>7. x % pow2[k + 1] = v * d + r
    BY <2>1, <2>6
  <2>8. r = x % pow2[k] /\ d = pow2[k]
    BY DEF r, d
  <2>9. v * d + r = r + v * d
    BY <2>1, <2>2, <2>3
  <2> QED
    BY <2>4, <2>7, <2>8, <2>9
<1> DEFINE Loop(g) == g = [i \in 0..n |-> IF i = 0 THEN 0 ELSE g[i - 1] + b[i - 1] * pow2[i - 1]]
           f == CHOOSE g : Loop(g)
           w == [i \in 0..n |-> x % pow2[i]]
<1>3. \A i \in 0..n : w[i] = IF i = 0 THEN 0 ELSE w[i - 1] + b[i - 1] * pow2[i - 1]
  <2> TAKE i \in 0..n
  <2>1. CASE i = 0
    <3>1. pow2[0] = 1 /\ x % 1 = 0
      BY <1>1, PowerDef
    <3> QED
      BY <2>1, <3>1
  <2>2. CASE i # 0
    <3>1. i - 1 \in Nat /\ i - 1 \in 0..n /\ i - 1 \in 0..(n - 1) /\ (i - 1) + 1 = i
      BY <2>2
    <3>2. b[i - 1] = BitOf(x, i - 1)
      BY <1>1, <3>1, WidthOf DEF Stands, is_valid
    <3>3. x % pow2[i] = (x % pow2[i - 1]) + BitOf(x, i - 1) * pow2[i - 1]
      BY <1>2, <3>1
    <3> QED
      BY <2>2, <3>1, <3>2, <3>3
  <2> QED
    BY <2>1, <2>2
<1>4. Loop(w)
  <2>1. w = [i \in 0..n |-> w[i]]
    OBVIOUS
  <2> HIDE DEF w
  <2> QED
    BY <1>3, <2>1
<1>5. Loop(f)
  <2> HIDE DEF Loop, w
  <2> QED
    BY <1>4
<1>6. as_uint(b) = f[n]
  BY <1>1, WidthOf DEF as_uint
<1>7. f[n] = w[n]
  <2> DEFINE P == {i \in Nat : i <= n => f[i] = w[i]}
  <2> HIDE DEF f, w
  <2>1. 0 \in P
    BY <1>4, <1>5
  <2>2. ASSUME NEW k \in Nat, k \in P PROVE k + 1 \in P
    <3> SUFFICES ASSUME k + 1 <= n PROVE f[k + 1] = w[k + 1]
      OBVIOUS
    <3>1. f[k] = w[k] /\ k + 1 \in 0..n /\ k + 1 # 0 /\ (k + 1) - 1 = k
      BY <2>2
    <3> QED
      BY <1>4, <1>5, <3>1
  <2>3. Nat \subseteq P
    <3> HIDE DEF P
    <3> QED
      BY <2>1, <2>2, AllNumbers
  <2> QED
    BY <2>3
<1>8. x % pow2[n] = x
  <2> DEFINE d == pow2[n]
  <2>1. d \in Nat \ {0} /\ x \in 0..(d - 1)
    BY <1>1, PowerDef
  <2> HIDE DEF d
  <2>2. (0 * d + x) % d = x /\ 0 * d + x = x
    BY <2>1, DivisionUnique
  <2> QED
    BY <2>2 DEF d
<1> QED
  BY <1>6, <1>7, <1>8

\* A remainder is a number of that width, and a number its own remainder.
LEMMA Remainder ==
    ASSUME NEW n \in Nat, NEW v \in Int
    PROVE  v % pow2[n] \in Numbers(n) /\ (v \in Numbers(n) => v % pow2[n] = v)
<1> DEFINE d == pow2[n]
<1>1. d \in Nat \ {0}
  BY PowerDef
<1>2. v % d \in 0..(d - 1)
  <2> HIDE DEF d
  <2> QED
    BY <1>1, Division
<1>3. v \in 0..(d - 1) => v % d = v
  <2> HIDE DEF d
  <2> SUFFICES ASSUME v \in 0..(d - 1) PROVE v % d = v
    OBVIOUS
  <2>1. (0 * d + v) % d = v /\ 0 * d + v = v
    BY <1>1, DivisionUnique
  <2> QED
    BY <2>1
<1> QED
  BY <1>2, <1>3 DEF Numbers

\* from_uint gives the known vector of a number.
LEMMA FromUint ==
    ASSUME NEW n \in Nat, NEW v \in Numbers(n)
    PROVE  Stands(n, from_uint(n, v), v) /\ is_valid(from_uint(n, v))
<1>1. \A i \in 0..(n - 1) : BitOf(v, i) \in {0, 1}
  BY NumberType, BitType
<1> QED
  BY <1>1 DEF Stands, from_uint, Bits, Logic, X, is_valid

\* The unknown vector stands for every number.
LEMMA AllUnknown ==
    ASSUME NEW n \in Nat, NEW v \in Numbers(n)
    PROVE  Stands(n, all(n, X), v)
BY DEF Stands, all, Bits, Logic

\* An arithmetic operator: it computes with the numbers, or answers nothing.
LEMMA Wraps ==
    ASSUME NEW n \in Nat, NEW b, NEW x, NEW c, NEW y, Stands(n, b, x), Stands(n, c, y), NEW v \in Int,
           NEW r, r = IF is_valid(b) /\ is_valid(c) THEN from_uint(N(b), v % pow2[N(b)]) ELSE all(N(b), X)
    PROVE  Stands(n, r, v % pow2[n]) /\ (is_valid(b) /\ is_valid(c) => is_valid(r))
<1>1. N(b) = n
  BY WidthOf DEF Stands
<1>2. v % pow2[n] \in Numbers(n)
  BY Remainder
<1> QED
  BY <1>1, <1>2, FromUint, AllUnknown

-----------------------------------------------------------------------------
(***************************************************************************)
(* The operators.  Each lemma says of one what its result stands for, and  *)
(* that it is known if the operands are.                                   *)
(***************************************************************************)

\* The bit above all others of -1 is 1.
LEMMA MinusOne ==
    ASSUME NEW i \in Nat
    PROVE  BitOf(-1, i) = 1
<1> DEFINE d == pow2[i]
<1>1. d \in Nat \ {0}
  BY PowerDef
<1> HIDE DEF d
<1>2. -1 = (-1) * d + (d - 1) /\ d - 1 \in 0..(d - 1)
  BY <1>1
<1>3. ((-1) * d + (d - 1)) \div d = -1
  BY <1>1, <1>2, DivisionUnique
<1>4. (-1) \div d = -1
  BY <1>2, <1>3
<1>5. (-1) % 2 = 1
  <2>1. 2 \in Nat \ {0} /\ 1 \in 0..(2 - 1) /\ -1 \in Int /\ (-1) * 2 + 1 = -1
    OBVIOUS
  <2>2. ((-1) * 2 + 1) % 2 = 1
    BY <2>1, DivisionUnique
  <2> QED
    BY <2>1, <2>2
<1> QED
  BY <1>4, <1>5 DEF BitOf, d

\* Complementing a number flips its bits.
LEMMA FlippedBits ==
    ASSUME NEW n \in Nat, NEW x \in Numbers(n), NEW i \in 0..(n - 1)
    PROVE  BitOf(pow2[n] - 1 - x, i) = 1 - BitOf(x, i)
<1> DEFINE d == pow2[i]
           q == x \div d
           r == x % d
           p == -1 - q
           s == d - 1 - r
<1>1. d \in Nat \ {0} /\ x \in Int /\ pow2[n] \in Nat
  BY PowerDef, NumberType
<1>2. q \in Int /\ r \in 0..(d - 1) /\ x = q * d + r
  <2> HIDE DEF d
  <2> QED
    BY <1>1, Division
<1>3. p \in Int /\ s \in 0..(d - 1) /\ -1 - x = p * d + s
  <2> HIDE DEF d, q, r
  <2>1. (-1 - q) * d = -d - q * d
    BY <1>1, <1>2
  <2> QED
    BY <1>1, <1>2, <2>1
<1>4. (-1 - x) \div d = p
  <2> HIDE DEF d, p, s
  <2>1. (p * d + s) \div d = p
    BY <1>1, <1>3, DivisionUnique
  <2> QED
    BY <1>3, <2>1
<1>5. \A y \in Int : (-1 - y) % 2 = 1 - (y % 2)
  OBVIOUS
<1>6. BitOf(-1 - x, i) = 1 - BitOf(x, i)
  <2>1. p % 2 = 1 - (q % 2)
    <3> HIDE DEF q
    <3> QED
      BY <1>2, <1>5
  <2> QED
    BY <1>4, <2>1 DEF BitOf
<1>7. BitOf(1 * pow2[n] + (-1 - x), i) = BitOf(-1 - x, i)
  <2>1. -1 - x \in Int /\ 1 \in Int
    BY <1>1
  <2> QED
    BY <2>1, LowBits
<1>8. 1 * pow2[n] + (-1 - x) = pow2[n] - 1 - x
  BY <1>1
<1> QED
  BY <1>6, <1>7, <1>8

\* In two's complement the bits of a number go on as its highest bit.
LEMMA SignedBits ==
    ASSUME NEW n \in Nat \ {0}, NEW x \in Numbers(n), NEW i \in Nat
    PROVE  /\ Signed(x, n) \in Int
           /\ BitOf(Signed(x, n), i) = IF i < n THEN BitOf(x, i) ELSE BitOf(x, n - 1)
<1> DEFINE h == pow2[n - 1]
<1>1. n - 1 \in Nat /\ h \in Nat \ {0} /\ pow2[n] = 2 * h
  <2>1. n - 1 \in Nat /\ (n - 1) + 1 = n
    OBVIOUS
  <2> QED
    BY <2>1, PowerDef
<1>2. x \in Nat /\ x < 2 * h
  BY <1>1, NumberType
<1> HIDE DEF h
<1>3. CASE x >= h
  <2>1. Signed(x, n) = (-1) * pow2[n] + x /\ Signed(x, n) \in Int
    BY <1>1, <1>2, <1>3 DEF Signed, h
  <2>2. BitOf((-1) * pow2[n] + x, i) = IF i < n THEN BitOf(x, i) ELSE BitOf(-1, i - n)
    <3>1. -1 \in Int
      OBVIOUS
    <3> QED
      BY <3>1, BitsOfJoin
  <2>3. BitOf(x, n - 1) = 1
    <3> DEFINE e == x - h
    <3>1. e \in 0..(h - 1) /\ 1 * h + e = x
      BY <1>1, <1>2, <1>3
    <3> HIDE DEF e
    <3>2. (1 * h + e) \div h = 1
      <4>1. 1 \in Int
        OBVIOUS
      <4> QED
        BY <1>1, <3>1, <4>1, DivisionUnique
    <3>3. x \div h = 1
      BY <3>1, <3>2
    <3> QED
      BY <3>3 DEF BitOf, h
  <2>4. i >= n => BitOf(-1, i - n) = 1
    BY MinusOne
  <2> QED
    BY <2>1, <2>2, <2>3, <2>4
<1>4. CASE x < h
  <2>1. Signed(x, n) = x
    BY <1>1, <1>2, <1>4 DEF Signed, h
  <2>2. x \in Numbers(n - 1)
    BY <1>1, <1>2, <1>4 DEF Numbers, h
  <2>3. BitOf(x, n - 1) = 0 /\ (i >= n => BitOf(x, i) = 0)
    BY <1>1, <2>2, BitsBeyond
  <2> QED
    BY <1>2, <2>1, <2>3
<1> QED
  BY <1>1, <1>2, <1>3, <1>4

\* What stands for a number is a vector of its width.
LEMMA StandsType ==
    ASSUME NEW n \in Nat, NEW b, NEW x, Stands(n, b, x)
    PROVE  /\ DOMAIN b = 0..(n - 1) /\ N(b) = n /\ x \in Int
           /\ \A i \in 0..(n - 1) : b[i] \in Logic /\ BitOf(x, i) \in {0, 1}
<1>1. b \in Bits(n) /\ x \in Int
  BY NumberType DEF Stands
<1>2. \A i \in 0..(n - 1) : BitOf(x, i) \in {0, 1}
  BY <1>1, BitType
<1> QED
  BY <1>1, <1>2, WidthOf DEF Bits

\* bits_not and bits_neg.
LEMMA InvertStands ==
    ASSUME NEW n \in Nat, NEW b, NEW x, Stands(n, b, x)
    PROVE  /\ Stands(n, bits_not(b), pow2[n] - 1 - x)
           /\ Stands(n, bits_neg(b), (-x) % pow2[n])
           /\ is_valid(b) => is_valid(bits_not(b)) /\ is_valid(bits_neg(b))
<1>1. DOMAIN b = 0..(n - 1) /\ N(b) = n /\ x \in Numbers(n) /\ x \in Int /\ pow2[n] \in Nat
  BY StandsType, PowerDef DEF Stands
<1>2. \A i \in 0..(n - 1) : /\ b[i] \in Logic /\ BitOf(x, i) \in {0, 1} /\ (b[i] = X \/ b[i] = BitOf(x, i))
                            /\ BitOf(pow2[n] - 1 - x, i) = 1 - BitOf(x, i)
  BY <1>1, StandsType, FlippedBits DEF Stands
<1>3. pow2[n] - 1 - x \in Numbers(n)
  BY <1>1 DEF Numbers
<1> DEFINE c == pow2[n] - 1 - x
           f == [i \in 0..(n - 1) |-> IF b[i] = X THEN X ELSE 1 - b[i]]
<1>4. bits_not(b) = f
  BY <1>1 DEF bits_not, not
<1>5. /\ Stands(n, f, pow2[n] - 1 - x)
      /\ is_valid(b) => is_valid(f)
  <2>1. \A i \in 0..(n - 1) : /\ f[i] \in Logic
                              /\ f[i] = X \/ f[i] = BitOf(c, i)
                              /\ b[i] # X => f[i] # X
    BY <1>2 DEF Logic, X
  <2>2. DOMAIN f = 0..(n - 1)
    OBVIOUS
  <2>3. f \in [0..(n - 1) -> Logic]
    BY <1>2 DEF Logic, X
  <2>4. c \in Numbers(n)
    BY <1>3
  <2> HIDE DEF f, c
  <2>5. Stands(n, f, c)
    BY <2>1, <2>3, <2>4 DEF Stands, Bits
  <2>6. is_valid(b) => is_valid(f)
    BY <1>1, <2>1, <2>3 DEF is_valid
  <2> QED
    BY <2>5, <2>6 DEF c
<1>6. bits_neg(b) = IF is_valid(b) /\ is_valid(b)
                    THEN from_uint(N(b), (-x) % pow2[N(b)]) ELSE all(N(b), X)
  BY AsUint DEF bits_neg, wrapping
<1>7. -x \in Int
  BY <1>1
<1>8. Stands(n, bits_neg(b), (-x) % pow2[n]) /\ (is_valid(b) => is_valid(bits_neg(b)))
  BY <1>6, <1>7, Wraps
<1> QED
  BY <1>4, <1>5, <1>8

\* The shifts, by any amount.
LEMMA ShiftStands ==
    ASSUME NEW n \in Nat \ {0}, NEW b, NEW x, Stands(n, b, x), NEW k \in Nat
    PROVE  /\ Stands(n, shift_left(b, k), (x * pow2[k]) % pow2[n])
           /\ Stands(n, shift_right(b, k), x \div pow2[k])
           /\ Stands(n, arithmetic_shift_right(b, k), (Signed(x, n) \div pow2[k]) % pow2[n])
           /\ is_valid(b) => /\ is_valid(shift_left(b, k)) /\ is_valid(shift_right(b, k))
                             /\ is_valid(arithmetic_shift_right(b, k))
<1>1. DOMAIN b = 0..(n - 1) /\ N(b) = n /\ x \in Numbers(n) /\ x \in Nat /\ x \in Int /\ pow2[k] \in Nat \ {0}
  BY StandsType, PowerDef, NumberType DEF Stands
<1>2. \A i \in 0..(n - 1) : b[i] \in Logic /\ (b[i] = X \/ b[i] = BitOf(x, i))
  BY <1>1, StandsType DEF Stands
<1>3. Stands(n, shift_left(b, k), (x * pow2[k]) % pow2[n])
  <2>1. x * pow2[k] \in Int
    BY <1>1
  <2>2. \A i \in 0..(n - 1) : BitOf((x * pow2[k]) % pow2[n], i) = IF i < k THEN 0 ELSE BitOf(x, i - k)
    <3> TAKE i \in 0..(n - 1)
    <3>1. BitOf((x * pow2[k]) % pow2[n], i) = BitOf(x * pow2[k], i)
      BY <2>1, BitsOfRemainder
    <3>2. 0 \in Numbers(k) /\ x * pow2[k] + 0 = x * pow2[k]
      BY <1>1, <2>1 DEF Numbers
    <3>3. BitOf(x * pow2[k] + 0, i) = IF i < k THEN BitOf(0, i) ELSE BitOf(x, i - k)
      BY <1>1, <3>2, BitsOfJoin
    <3>4. BitOf(0, i) = 0
      <4>1. 0 \in Numbers(0)
        BY PowerDef DEF Numbers
      <4> QED
        BY <4>1, BitsBeyond
    <3> QED
      BY <3>1, <3>2, <3>3, <3>4
  <2>3. \A i \in 0..(n - 1) : i >= k => i - k \in 0..(n - 1)
    OBVIOUS
  <2>4. (x * pow2[k]) % pow2[n] \in Numbers(n)
    BY <2>1, Remainder
  <2>5. \A i \in 0..(n - 1) : i < k <=> ~(i >= k)
    OBVIOUS
  <2> QED
    BY <1>1, <1>2, <2>2, <2>3, <2>4, <2>5 DEF Stands, shift_left, Bits, Logic
<1>4. Stands(n, shift_right(b, k), x \div pow2[k])
  <2>1. \A i \in 0..(n - 1) : BitOf(x \div pow2[k], i) = IF i + k < n THEN BitOf(x, i + k) ELSE 0
    <3> TAKE i \in 0..(n - 1)
    <3>1. k + i = i + k /\ i + k \in Nat /\ i \in Nat
      OBVIOUS
    <3>2. BitOf(x \div pow2[k], i) = BitOf(x, i + k)
      BY <1>1, <3>1, BitsOfQuotient
    <3>3. ~(i + k < n) => BitOf(x, i + k) = 0
      BY <1>1, <3>1, BitsBeyond
    <3> QED
      BY <3>2, <3>3
  <2>2. x \div pow2[k] \in Numbers(n)
    <3> DEFINE d == pow2[k]
               q == x \div d
               r == x % d
    <3>1. q \in Int /\ r \in 0..(d - 1) /\ x = q * d + r /\ d \in Nat \ {0}
      <4> HIDE DEF d
      <4>1. d \in Nat \ {0}
        BY <1>1 DEF d
      <4> QED
        BY <1>1, <4>1, Division
    <3> HIDE DEF q, r, d
    <3>2. q >= 0
      <4> SUFFICES ASSUME q <= -1 PROVE FALSE
        BY <3>1
      <4>1. q * d <= -d
        BY <3>1
      <4> QED
        BY <1>1, <3>1, <4>1
    <3>3. q * d >= q
      BY <3>1, <3>2
    <3>4. q <= x
      BY <1>1, <3>1, <3>3
    <3>5. q \in Numbers(n)
      BY <1>1, <3>1, <3>2, <3>4, NumberType DEF Numbers
    <3> QED
      BY <3>5 DEF q, d
  <2>3. \A i \in 0..(n - 1) : i + k < n => i + k \in 0..(n - 1)
    OBVIOUS
  <2> QED
    BY <1>1, <1>2, <2>1, <2>2, <2>3 DEF Stands, shift_right, Bits, Logic
<1>5. Stands(n, arithmetic_shift_right(b, k), (Signed(x, n) \div pow2[k]) % pow2[n])
  <2> DEFINE y == Signed(x, n)
  <2>1. y \in Int /\ y \div pow2[k] \in Int
    BY <1>1, SignedBits, BitType
  <2>2. \A i \in 0..(n - 1) : BitOf((y \div pow2[k]) % pow2[n], i)
                              = IF i + k < n THEN BitOf(x, i + k) ELSE BitOf(x, n - 1)
    <3> TAKE i \in 0..(n - 1)
    <3>1. k + i = i + k /\ i + k \in Nat /\ i \in Nat
      OBVIOUS
    <3>2. BitOf((y \div pow2[k]) % pow2[n], i) = BitOf(y \div pow2[k], i)
      <4> HIDE DEF y
      <4> QED
        BY <2>1, BitsOfRemainder
    <3>3. BitOf(y \div pow2[k], i) = BitOf(y, i + k)
      <4> HIDE DEF y
      <4> QED
        BY <2>1, <3>1, BitsOfQuotient
    <3>4. BitOf(y, i + k) = IF i + k < n THEN BitOf(x, i + k) ELSE BitOf(x, n - 1)
      BY <1>1, <3>1, SignedBits
    <3> QED
      BY <3>2, <3>3, <3>4
  <2>3. (y \div pow2[k]) % pow2[n] \in Numbers(n)
    <3> HIDE DEF y
    <3> QED
      BY <2>1, Remainder
  <2>4. /\ \A i \in 0..(n - 1) : i + k < n => i + k \in 0..(n - 1)
        /\ n - 1 \in 0..(n - 1)
    OBVIOUS
  <2> HIDE DEF y
  <2>5. Stands(n, arithmetic_shift_right(b, k), (y \div pow2[k]) % pow2[n])
    BY <1>1, <1>2, <2>2, <2>3, <2>4 DEF Stands, arithmetic_shift_right, Bits
  <2> QED
    BY <2>5 DEF y
<1>6. is_valid(b) => /\ is_valid(shift_left(b, k)) /\ is_valid(shift_right(b, k))
                     /\ is_valid(arithmetic_shift_right(b, k))
  <2>1. /\ \A i \in 0..(n - 1) : i >= k => i - k \in 0..(n - 1)
        /\ \A i \in 0..(n - 1) : i + k < n => i + k \in 0..(n - 1)
        /\ n - 1 \in 0..(n - 1)
    OBVIOUS
  <2> QED
    BY <1>1, <2>1 DEF is_valid, shift_left, shift_right, arithmetic_shift_right, X
<1> QED
  BY <1>3, <1>4, <1>5, <1>6

\* zero_extend and sign_extend.
LEMMA ExtendStands ==
    ASSUME NEW n \in Nat \ {0}, NEW b, NEW x, Stands(n, b, x), NEW m \in Nat, m >= n
    PROVE  /\ Stands(m, zero_extend(b, m), x)
           /\ Stands(m, sign_extend(b, m), Signed(x, n) % pow2[m])
           /\ is_valid(b) => is_valid(zero_extend(b, m)) /\ is_valid(sign_extend(b, m))
<1>1. DOMAIN b = 0..(n - 1) /\ N(b) = n /\ x \in Numbers(n)
  BY StandsType DEF Stands
<1>2. \A i \in 0..(n - 1) : b[i] \in Logic /\ (b[i] = X \/ b[i] = BitOf(x, i))
  BY <1>1, StandsType DEF Stands
<1>3. \A i \in 0..(m - 1) : i \in Nat /\ (i < n => i \in 0..(n - 1)) /\ (~(i < n) => n <= i)
  OBVIOUS
<1>4. n - 1 \in 0..(n - 1) /\ n \in Nat /\ n <= m
  OBVIOUS
<1>5. Stands(m, zero_extend(b, m), x)
  <2>1. x \in Numbers(m)
    BY <1>1, <1>4, NumbersWiden
  <2>2. \A i \in 0..(m - 1) : ~(i < n) => BitOf(x, i) = 0
    BY <1>1, <1>3, <1>4, BitsBeyond
  <2> QED
    BY <1>1, <1>2, <1>3, <2>1, <2>2 DEF Stands, zero_extend, Bits, Logic
<1>6. Stands(m, sign_extend(b, m), Signed(x, n) % pow2[m])
  <2> DEFINE y == Signed(x, n)
  <2>1. y \in Int /\ y % pow2[m] \in Numbers(m)
    <3>1. y \in Int
      BY <1>1, <1>4, SignedBits
    <3> HIDE DEF y
    <3> QED
      BY <3>1, Remainder
  <2>2. \A i \in 0..(m - 1) : BitOf(y % pow2[m], i) = IF i < n THEN BitOf(x, i) ELSE BitOf(x, n - 1)
    <3> TAKE i \in 0..(m - 1)
    <3>1. BitOf(y, i) = IF i < n THEN BitOf(x, i) ELSE BitOf(x, n - 1)
      BY <1>1, <1>3, SignedBits
    <3> HIDE DEF y
    <3>2. BitOf(y % pow2[m], i) = BitOf(y, i)
      BY <2>1, BitsOfRemainder
    <3> QED
      BY <3>1, <3>2
  <2> HIDE DEF y
  <2>3. Stands(m, sign_extend(b, m), y % pow2[m])
    BY <1>1, <1>2, <1>3, <1>4, <2>1, <2>2 DEF Stands, sign_extend, Bits
  <2> QED
    BY <2>3 DEF y
<1>7. is_valid(b) => is_valid(zero_extend(b, m)) /\ is_valid(sign_extend(b, m))
  BY <1>1, <1>3, <1>4 DEF is_valid, zero_extend, sign_extend, X
<1> QED
  BY <1>5, <1>6, <1>7

\* truncate, part_select and replicate.
LEMMA SelectStands ==
    ASSUME NEW n \in Nat \ {0}, NEW b, NEW x, Stands(n, b, x), NEW m \in Nat
    PROVE  /\ m <= n => /\ Stands(m, truncate(b, m), x % pow2[m])
                        /\ is_valid(b) => is_valid(truncate(b, m))
           /\ \A lo \in 0..(n - m) :
                 /\ Stands(m, part_select(b, lo, m), (x \div pow2[lo]) % pow2[m])
                 /\ is_valid(b) => is_valid(part_select(b, lo, m))
           /\ \A z \in Numbers(m) : (\A i \in 0..(m - 1) : BitOf(z, i) = BitOf(x, i % n)) =>
                 /\ Stands(m, replicate(b, m), z)
                 /\ is_valid(b) => is_valid(replicate(b, m))
<1>1. DOMAIN b = 0..(n - 1) /\ N(b) = n /\ x \in Int
  BY StandsType DEF Stands
<1>2. \A i \in 0..(n - 1) : b[i] \in Logic /\ (b[i] = X \/ b[i] = BitOf(x, i))
  BY <1>1, StandsType DEF Stands
<1>3. ASSUME m <= n
      PROVE  Stands(m, truncate(b, m), x % pow2[m]) /\ (is_valid(b) => is_valid(truncate(b, m)))
  <2>1. \A i \in 0..(m - 1) : i \in 0..(n - 1)
    BY <1>3
  <2>2. x % pow2[m] \in Numbers(m) /\ \A i \in 0..(m - 1) : BitOf(x % pow2[m], i) = BitOf(x, i)
    BY <1>1, Remainder, BitsOfRemainder
  <2>3. Stands(m, truncate(b, m), x % pow2[m])
    BY <1>2, <2>1, <2>2 DEF Stands, truncate, Bits
  <2> QED
    BY <1>1, <2>1, <2>3 DEF truncate, is_valid
<1>4. ASSUME NEW lo \in 0..(n - m)
      PROVE  /\ Stands(m, part_select(b, lo, m), (x \div pow2[lo]) % pow2[m])
             /\ is_valid(b) => is_valid(part_select(b, lo, m))
  <2> DEFINE y == x \div pow2[lo]
  <2>1. /\ \A i \in 0..(m - 1) : lo + i \in 0..(n - 1) /\ i \in Nat
        /\ lo \in Nat
    OBVIOUS
  <2>2. y \in Int /\ \A i \in 0..(m - 1) : BitOf(y, i) = BitOf(x, lo + i)
    <3>1. y \in Int
      BY <1>1, <2>1, BitType
    <3>2. \A i \in Nat : BitOf(y, i) = BitOf(x, lo + i)
      BY <1>1, <2>1, BitsOfQuotient
    <3> QED
      BY <2>1, <3>1, <3>2
  <2> HIDE DEF y
  <2>3. y % pow2[m] \in Numbers(m) /\ \A i \in 0..(m - 1) : BitOf(y % pow2[m], i) = BitOf(y, i)
    BY <2>2, Remainder, BitsOfRemainder
  <2>4. Stands(m, part_select(b, lo, m), y % pow2[m])
    BY <1>2, <2>1, <2>2, <2>3 DEF Stands, part_select, Bits
  <2>5. is_valid(b) => is_valid(part_select(b, lo, m))
    BY <1>1, <2>1 DEF part_select, is_valid
  <2> QED
    BY <2>4, <2>5 DEF y
<1>5. ASSUME NEW z \in Numbers(m), \A i \in 0..(m - 1) : BitOf(z, i) = BitOf(x, i % n)
      PROVE  Stands(m, replicate(b, m), z) /\ (is_valid(b) => is_valid(replicate(b, m)))
  <2>1. \A i \in 0..(m - 1) : i % n \in 0..(n - 1)
    OBVIOUS
  <2>2. Stands(m, replicate(b, m), z)
    BY <1>1, <1>2, <1>5, <2>1 DEF Stands, replicate, Bits
  <2> QED
    BY <1>1, <2>1, <2>2 DEF replicate, is_valid
<1> QED
  BY <1>3, <1>4, <1>5

\* concat.
LEMMA ConcatStands ==
    ASSUME NEW n \in Nat, NEW b, NEW x, Stands(n, b, x), NEW m \in Nat, NEW c, NEW y, Stands(m, c, y)
    PROVE  /\ Stands(n + m, concat(b, c), x * pow2[m] + y)
           /\ is_valid(b) /\ is_valid(c) => is_valid(concat(b, c))
<1>1. DOMAIN b = 0..(n - 1) /\ N(b) = n /\ x \in Numbers(n) /\ x \in Nat /\ x < pow2[n] /\ pow2[n] \in Nat
  BY StandsType, NumberType DEF Stands
<1>2. DOMAIN c = 0..(m - 1) /\ N(c) = m /\ y \in Numbers(m) /\ y \in Nat /\ y < pow2[m] /\ pow2[m] \in Nat
  BY StandsType, NumberType DEF Stands
<1>3. /\ \A i \in 0..(n - 1) : b[i] \in Logic /\ (b[i] = X \/ b[i] = BitOf(x, i))
      /\ \A i \in 0..(m - 1) : c[i] \in Logic /\ (c[i] = X \/ c[i] = BitOf(y, i))
  BY StandsType DEF Stands
<1>4. \A i \in 0..(n + m - 1) : /\ i \in Nat
                                /\ i < m => i \in 0..(m - 1)
                                /\ ~(i < m) => i - m \in 0..(n - 1)
  OBVIOUS
<1> DEFINE z == x * pow2[m] + y
<1>5. \A i \in 0..(n + m - 1) : BitOf(z, i) = IF i < m THEN BitOf(y, i) ELSE BitOf(x, i - m)
  BY <1>1, <1>2, <1>4, BitsOfJoin
<1>6. z \in Numbers(n + m)
  <2>1. pow2[n + m] = pow2[n] * pow2[m]
    BY PowerSum
  <2>2. x * pow2[m] <= (pow2[n] - 1) * pow2[m] /\ x * pow2[m] \in Nat
    <3>1. \A u, v, w \in Nat : u <= v => u * w <= v * w /\ u * w \in Nat
      OBVIOUS
    <3>2. pow2[n] - 1 \in Nat /\ x <= pow2[n] - 1
      BY <1>1
    <3> QED
      BY <1>1, <1>2, <3>1, <3>2
  <2>3. (pow2[n] - 1) * pow2[m] = pow2[n] * pow2[m] - pow2[m] /\ pow2[n] * pow2[m] \in Nat
    BY <1>1, <1>2
  <2> QED
    BY <1>2, <2>1, <2>2, <2>3 DEF Numbers
<1> HIDE DEF z
<1>7. Stands(n + m, concat(b, c), z)
  BY <1>1, <1>2, <1>3, <1>4, <1>5, <1>6 DEF Stands, concat, Bits
<1>8. is_valid(b) /\ is_valid(c) => is_valid(concat(b, c))
  BY <1>1, <1>2, <1>4 DEF concat, is_valid
<1> QED
  BY <1>7, <1>8 DEF z

\* mux: an unknown selector answers what both sides agree on.
LEMMA MuxStands ==
    ASSUME NEW n \in Nat, NEW b, NEW x, Stands(n, b, x), NEW c, NEW y, Stands(n, c, y),
           NEW sel \in Logic, NEW s \in {0, 1}, sel = X \/ sel = s
    PROVE  /\ Stands(n, mux(sel, b, c), IF s = 1 THEN x ELSE y)
           /\ sel # X /\ is_valid(b) /\ is_valid(c) => is_valid(mux(sel, b, c))
<1>1. CASE sel = X
  <2> DEFINE f == [i \in DOMAIN b |-> IF b[i] = c[i] THEN b[i] ELSE X]
  <2>1. mux(sel, b, c) = f
    BY <1>1 DEF mux, X
  <2>2. DOMAIN b = 0..(n - 1)
    BY StandsType
  <2>3. /\ x \in Numbers(n) /\ \A i \in 0..(n - 1) : b[i] \in Logic /\ (b[i] = X \/ b[i] = BitOf(x, i))
        /\ y \in Numbers(n) /\ \A i \in 0..(n - 1) : c[i] = X \/ c[i] = BitOf(y, i)
    BY StandsType DEF Stands
  <2>4. Stands(n, f, x) /\ Stands(n, f, y)
    BY <2>2, <2>3 DEF Stands, Bits, Logic, X
  <2> QED
    BY <1>1, <2>1, <2>4
<1>2. CASE sel # X
  BY <1>2 DEF mux
<1> QED
  BY <1>1, <1>2

\* bits_and, bits_or and bits_xor: z is the number with the bits the operator gives.
LEMMA BitwiseStands ==
    ASSUME NEW n \in Nat, NEW b, NEW x, Stands(n, b, x), NEW c, NEW y, Stands(n, c, y),
           NEW z \in Numbers(n)
    PROVE  /\ (\A i \in 0..(n - 1) : BitOf(z, i) = BitOf(x, i) * BitOf(y, i)) =>
                 Stands(n, bits_and(b, c), z)
           /\ (\A i \in 0..(n - 1) : BitOf(z, i) = from_bool(BitOf(x, i) + BitOf(y, i) > 0)) =>
                 Stands(n, bits_or(b, c), z)
           /\ (\A i \in 0..(n - 1) : BitOf(z, i) = (BitOf(x, i) + BitOf(y, i)) % 2) =>
                 Stands(n, bits_xor(b, c), z)
           /\ is_valid(b) /\ is_valid(c) =>
                 is_valid(bits_and(b, c)) /\ is_valid(bits_or(b, c)) /\ is_valid(bits_xor(b, c))
<1>1. DOMAIN b = 0..(n - 1)
  BY StandsType
<1>2. /\ \A i \in 0..(n - 1) : b[i] \in {0, 1, 2} /\ BitOf(x, i) \in {0, 1} /\ (b[i] = 2 \/ b[i] = BitOf(x, i))
      /\ \A i \in 0..(n - 1) : c[i] \in {0, 1, 2} /\ BitOf(y, i) \in {0, 1} /\ (c[i] = 2 \/ c[i] = BitOf(y, i))
  BY StandsType DEF Stands, Logic, X
<1>3. ASSUME \A i \in 0..(n - 1) : BitOf(z, i) = BitOf(x, i) * BitOf(y, i)
      PROVE  Stands(n, bits_and(b, c), z)
  <2>1. \A i \in 0..(n - 1) : /\ bitand(b[i], c[i]) \in {0, 1, 2}
                              /\ bitand(b[i], c[i]) = 2 \/ bitand(b[i], c[i]) = BitOf(z, i)
    <3> TAKE i \in 0..(n - 1)
    <3>1. BitOf(x, i) = 0 \/ BitOf(y, i) = 0 => BitOf(z, i) = 0
      BY <1>2, <1>3
    <3>2. BitOf(x, i) = 1 /\ BitOf(y, i) = 1 => BitOf(z, i) = 1
      BY <1>3
    <3> QED
      BY <1>2, <3>1, <3>2 DEF bitand, X
  <2> QED
    BY <1>1, <2>1 DEF Stands, bits_and, Bits, Logic, X
<1>4. ASSUME \A i \in 0..(n - 1) : BitOf(z, i) = from_bool(BitOf(x, i) + BitOf(y, i) > 0)
      PROVE  Stands(n, bits_or(b, c), z)
  <2>1. \A i \in 0..(n - 1) : /\ bitor(b[i], c[i]) \in {0, 1, 2}
                              /\ bitor(b[i], c[i]) = 2 \/ bitor(b[i], c[i]) = BitOf(z, i)
    BY <1>2, <1>4 DEF bitor, from_bool, X
  <2> QED
    BY <1>1, <2>1 DEF Stands, bits_or, Bits, Logic, X
<1>5. ASSUME \A i \in 0..(n - 1) : BitOf(z, i) = (BitOf(x, i) + BitOf(y, i)) % 2
      PROVE  Stands(n, bits_xor(b, c), z)
  <2>1. \A i \in 0..(n - 1) : /\ bitxor(b[i], c[i]) \in {0, 1, 2}
                              /\ bitxor(b[i], c[i]) = 2 \/ bitxor(b[i], c[i]) = BitOf(z, i)
    <3> TAKE i \in 0..(n - 1)
    <3>1. \A u, v \in {0, 1} : (u + v) % 2 \in {0, 1}
      OBVIOUS
    <3>2. b[i] = 2 \/ c[i] = 2 => bitxor(b[i], c[i]) = 2
      BY DEF bitxor, X
    <3>3. b[i] # 2 /\ c[i] # 2 => bitxor(b[i], c[i]) = (b[i] + c[i]) % 2
      BY DEF bitxor, X
    <3> QED
      BY <1>2, <1>5, <3>1, <3>2, <3>3
  <2> QED
    BY <1>1, <2>1 DEF Stands, bits_xor, Bits, Logic, X
<1>6. is_valid(b) /\ is_valid(c) =>
         is_valid(bits_and(b, c)) /\ is_valid(bits_or(b, c)) /\ is_valid(bits_xor(b, c))
  <2> SUFFICES ASSUME is_valid(b), is_valid(c)
               PROVE  is_valid(bits_and(b, c)) /\ is_valid(bits_or(b, c)) /\ is_valid(bits_xor(b, c))
    OBVIOUS
  <2>1. DOMAIN c = 0..(n - 1)
    BY StandsType
  <2>2. \A i \in 0..(n - 1) : b[i] \in {0, 1} /\ c[i] \in {0, 1}
    BY <1>1, <1>2, <2>1 DEF is_valid, X
  <2>3. \A i \in 0..(n - 1) : /\ bitand(b[i], c[i]) # 2 /\ bitor(b[i], c[i]) # 2
                              /\ bitxor(b[i], c[i]) # 2
    BY <2>2 DEF bitand, bitor, bitxor, X
  <2> QED
    BY <1>1, <2>3 DEF is_valid, bits_and, bits_or, bits_xor, X
<1> QED
  BY <1>3, <1>4, <1>5, <1>6

\* bits_add, bits_sub and bits_mul.
LEMMA ArithmeticStands ==
    ASSUME NEW n \in Nat, NEW b, NEW x, Stands(n, b, x), NEW c, NEW y, Stands(n, c, y)
    PROVE  /\ Stands(n, bits_add(b, c), (x + y) % pow2[n])
           /\ Stands(n, bits_sub(b, c), (x - y) % pow2[n])
           /\ Stands(n, bits_mul(b, c), (x * y) % pow2[n])
           /\ is_valid(b) /\ is_valid(c) =>
                 is_valid(bits_add(b, c)) /\ is_valid(bits_sub(b, c)) /\ is_valid(bits_mul(b, c))
<1>1. x \in Int /\ y \in Int
  BY StandsType
<1>2. is_valid(b) => as_uint(b) = x
  BY AsUint
<1>3. is_valid(c) => as_uint(c) = y
  BY AsUint
<1>4. /\ x + y \in Int
      /\ bits_add(b, c) = IF is_valid(b) /\ is_valid(c)
                          THEN from_uint(N(b), (x + y) % pow2[N(b)]) ELSE all(N(b), X)
  BY <1>1, <1>2, <1>3 DEF bits_add, wrapping
<1>5. /\ x - y \in Int
      /\ bits_sub(b, c) = IF is_valid(b) /\ is_valid(c)
                          THEN from_uint(N(b), (x - y) % pow2[N(b)]) ELSE all(N(b), X)
  BY <1>1, <1>2, <1>3 DEF bits_sub, wrapping
<1>6. /\ x * y \in Int
      /\ bits_mul(b, c) = IF is_valid(b) /\ is_valid(c)
                          THEN from_uint(N(b), (x * y) % pow2[N(b)]) ELSE all(N(b), X)
  BY <1>1, <1>2, <1>3 DEF bits_mul, wrapping
<1>7. Stands(n, bits_add(b, c), (x + y) % pow2[n]) /\ (is_valid(b) /\ is_valid(c) => is_valid(bits_add(b, c)))
  BY <1>4, Wraps
<1>8. Stands(n, bits_sub(b, c), (x - y) % pow2[n]) /\ (is_valid(b) /\ is_valid(c) => is_valid(bits_sub(b, c)))
  BY <1>5, Wraps
<1>9. Stands(n, bits_mul(b, c), (x * y) % pow2[n]) /\ (is_valid(b) /\ is_valid(c) => is_valid(bits_mul(b, c)))
  BY <1>6, Wraps
<1> QED
  BY <1>7, <1>8, <1>9

\* Quotients and remainders are no larger than the dividend.
LEMMA Quotients ==
    ASSUME NEW n \in Nat, NEW x \in Numbers(n), NEW y \in Numbers(n), y # 0
    PROVE  x \div y \in Numbers(n) /\ x % y \in Numbers(n)
<1> DEFINE q == x \div y
           r == x % y
<1>1. x \in Nat /\ x \in Int /\ x < pow2[n] /\ y \in Nat \ {0} /\ y < pow2[n] /\ pow2[n] \in Nat
  BY NumberType
<1>2. q \in Int /\ r \in 0..(y - 1) /\ x = q * y + r
  BY <1>1, Division
<1> HIDE DEF q, r
<1>3. q >= 0
  <2> SUFFICES ASSUME q <= -1 PROVE FALSE
    BY <1>2
  <2>1. q * y <= -y
    BY <1>1, <1>2
  <2> QED
    BY <1>1, <1>2, <2>1
<1>4. q * y >= q
  BY <1>1, <1>2, <1>3
<1>5. q <= x
  BY <1>1, <1>2, <1>4
<1>6. q \in Numbers(n) /\ r \in Numbers(n)
  BY <1>1, <1>2, <1>3, <1>5 DEF Numbers
<1> QED
  BY <1>6 DEF q, r

\* bits_div and bits_rem: unknown on a zero divisor.
LEMMA DivideStands ==
    ASSUME NEW n \in Nat, NEW b, NEW x, Stands(n, b, x), NEW c, NEW y, Stands(n, c, y)
    PROVE  /\ Stands(n, bits_div(b, c), IF y = 0 THEN 0 ELSE x \div y)
           /\ Stands(n, bits_rem(b, c), IF y = 0 THEN 0 ELSE x % y)
           /\ is_valid(b) /\ is_valid(c) /\ y # 0 => is_valid(bits_div(b, c)) /\ is_valid(bits_rem(b, c))
<1>1. N(b) = n /\ N(c) = n /\ DOMAIN c = 0..(n - 1) /\ x \in Numbers(n) /\ y \in Numbers(n)
  BY StandsType DEF Stands
<1>2. x \in Nat /\ y \in Nat /\ 0 \in Numbers(n)
  BY <1>1, NumberType DEF Numbers
<1>3. ASSUME c = all(n, 0)
      PROVE  y = 0
  <2>1. is_valid(c)
    BY <1>3 DEF is_valid, all, X
  <2>2. \A i \in 0..(n - 1) : c[i] = 0
    BY <1>3 DEF all
  <2>3. Stands(n, c, 0)
    <3>1. 0 \in Numbers(0)
      BY PowerDef DEF Numbers
    <3>2. \A i \in 0..(n - 1) : BitOf(0, i) = 0
      BY <3>1, BitsBeyond
    <3> QED
      BY <1>2, <2>2, <3>2 DEF Stands
  <2> QED
    BY <2>1, <2>3, AsUint
<1>4. ASSUME is_valid(c), c # all(n, 0)
      PROVE  y # 0
  <2> SUFFICES ASSUME y = 0 PROVE FALSE
    OBVIOUS
  <2>1. \A i \in 0..(n - 1) : BitOf(0, i) = 0
    <3>1. 0 \in Numbers(0)
      BY PowerDef DEF Numbers
    <3> QED
      BY <3>1, BitsBeyond
  <2>2. \A i \in 0..(n - 1) : c[i] = 0
    BY <1>1, <1>4, <2>1 DEF Stands, is_valid
  <2>3. c = [i \in 0..(n - 1) |-> 0]
    BY <2>2 DEF Stands, Bits
  <2> QED
    BY <1>4, <2>3 DEF all
<1> DEFINE q == IF y = 0 THEN 0 ELSE x \div y
           r == IF y = 0 THEN 0 ELSE x % y
<1>5. q \in Numbers(n) /\ r \in Numbers(n)
  BY <1>1, <1>2, Quotients
<1>6. q \in Int /\ r \in Int /\ q % pow2[n] = q /\ r % pow2[n] = r
  <2> HIDE DEF q, r
  <2>1. q \in Int /\ r \in Int
    BY <1>5, NumberType
  <2> QED
    BY <1>5, <2>1, Remainder
<1>7. CASE c = all(n, 0)
  <2>1. bits_div(b, c) = all(n, X) /\ bits_rem(b, c) = all(n, X)
    BY <1>1, <1>7 DEF bits_div, bits_rem, divided
  <2> HIDE DEF q, r
  <2>2. Stands(n, bits_div(b, c), q) /\ Stands(n, bits_rem(b, c), r)
    BY <1>5, <2>1, AllUnknown
  <2> QED
    BY <1>3, <1>7, <2>2 DEF q, r
<1>8. CASE c # all(n, 0)
  <2>1. is_valid(b) => as_uint(b) = x
    BY AsUint
  <2>2. is_valid(c) => as_uint(c) = y /\ y # 0
    BY <1>4, <1>8, AsUint
  <2>3. bits_div(b, c) = IF is_valid(b) /\ is_valid(c)
                         THEN from_uint(N(b), q % pow2[N(b)]) ELSE all(N(b), X)
    BY <1>1, <1>8, <2>1, <2>2 DEF bits_div, divided, wrapping
  <2>4. bits_rem(b, c) = IF is_valid(b) /\ is_valid(c)
                         THEN from_uint(N(b), r % pow2[N(b)]) ELSE all(N(b), X)
    BY <1>1, <1>8, <2>1, <2>2 DEF bits_rem, divided, wrapping
  <2> HIDE DEF q, r
  <2>5. Stands(n, bits_div(b, c), q % pow2[n]) /\ (is_valid(b) /\ is_valid(c) => is_valid(bits_div(b, c)))
    BY <1>6, <2>3, Wraps
  <2>6. Stands(n, bits_rem(b, c), r % pow2[n]) /\ (is_valid(b) /\ is_valid(c) => is_valid(bits_rem(b, c)))
    BY <1>6, <2>4, Wraps
  <2>7. Stands(n, bits_div(b, c), q) /\ Stands(n, bits_rem(b, c), r)
    BY <1>6, <2>5, <2>6
  <2> QED
    BY <2>5, <2>6, <2>7 DEF q, r
<1> QED
  BY <1>7, <1>8

\* One bit, as a vector.
LEMMA BitStands ==
    ASSUME NEW l \in Logic, NEW z \in {0, 1}, l = X \/ l = z
    PROVE  Stands(1, Bit(l), z) /\ (is_valid(Bit(l)) <=> l # X)
<1>1. pow2[0] = 1 /\ pow2[1] = 2
  <2>1. pow2[0 + 1] = 2 * pow2[0] /\ pow2[0] = 1
    BY PowerDef
  <2> QED
    BY <2>1
<1>2. BitOf(z, 0) = z
  BY <1>1 DEF BitOf
<1>3. 0..(1 - 1) = {0} /\ Numbers(1) = {0, 1}
  BY <1>1 DEF Numbers
<1> QED
  BY <1>2, <1>3 DEF Stands, Bit, Bits, is_valid

\* The comparisons: unknown unless both operands are known.
LEMMA CompareStands ==
    ASSUME NEW n \in Nat, NEW b, NEW x, Stands(n, b, x), NEW c, NEW y, Stands(n, c, y)
    PROVE  /\ eq_logic(b, c) = IF is_valid(b) /\ is_valid(c) THEN from_bool(x = y) ELSE X
           /\ lt_logic(b, c) = IF is_valid(b) /\ is_valid(c) THEN from_bool(x < y) ELSE X
           /\ le_logic(b, c) = IF is_valid(b) /\ is_valid(c) THEN from_bool(x <= y) ELSE X
<1>1. (is_valid(b) => as_uint(b) = x) /\ (is_valid(c) => as_uint(c) = y)
  BY AsUint
<1>2. eq_logic(b, c) = IF is_valid(b) /\ is_valid(c) THEN from_bool(x = y) ELSE X
  BY <1>1 DEF eq_logic, cmp_logic
<1>3. lt_logic(b, c) = IF is_valid(b) /\ is_valid(c) THEN from_bool(x < y) ELSE X
  BY <1>1 DEF lt_logic, cmp_logic
<1>4. le_logic(b, c) = IF is_valid(b) /\ is_valid(c) THEN from_bool(x <= y) ELSE X
  BY <1>1 DEF le_logic, cmp_logic
<1> QED
  BY <1>2, <1>3, <1>4

\* with_bit: replacing a bit of a number changes no other.
LEMMA SetBitStands ==
    ASSUME NEW n \in Nat, NEW b, NEW x, Stands(n, b, x), NEW i \in 0..(n - 1),
           NEW l \in Logic, NEW z \in {0, 1}, l = X \/ l = z
    PROVE  /\ Stands(n, with_bit(b, i, l), x + (z - BitOf(x, i)) * pow2[i])
           /\ is_valid(b) /\ l # X => is_valid(with_bit(b, i, l))
<1> DEFINE d == pow2[i]
           q == x \div d
           r == x % d
           u == q \div 2
           v == BitOf(x, i)
           y == x + (z - v) * d
           h == pow2[n - i - 1]
<1>1. /\ DOMAIN b = 0..(n - 1) /\ x \in Nat /\ x \in Int /\ x < pow2[n] /\ pow2[n] \in Nat
      /\ d \in Nat \ {0} /\ h \in Nat \ {0} /\ pow2[n] = (2 * h) * d /\ pow2[i + 1] = 2 * d
  <2>1. i \in 0..n /\ i < n /\ i \in Nat
    OBVIOUS
  <2>2. n - i - 1 \in Nat /\ pow2[n] = pow2[n - i] * pow2[i] /\ pow2[n - i] = 2 * pow2[n - i - 1]
    BY <2>1, PowerSplit
  <2> QED
    BY <2>1, <2>2, PowerDef, StandsType, NumberType DEF Stands
<1>2. q \in Int /\ r \in 0..(d - 1) /\ x = q * d + r
  <2> HIDE DEF d
  <2> QED
    BY <1>1, Division
<1>3. u \in Int /\ v \in {0, 1} /\ q = u * 2 + v
  <2>1. v = q % 2
    BY DEF BitOf
  <2> HIDE DEF q, v
  <2> QED
    BY <1>2, <2>1
<1> HIDE DEF d, q, r, u, v, h
<1> DEFINE c == 2 * d
           A == u * c
           B == v * d
           C == z * d
           s == B + r
           t == C + r
<1>c. c \in Nat \ {0} /\ c = 2 * d /\ pow2[n] = h * c /\ pow2[i + 1] = c
  <2>1. (2 * h) * d = h * (2 * d)
    BY <1>1
  <2> QED
    BY <1>1, <2>1
<1>4. /\ A \in Int /\ B \in {0, d} /\ C \in {0, d}
      /\ q * d = A + B /\ (z - v) * d = C - B
  <2>1. B \in {0, d} /\ C \in {0, d}
    BY <1>1, <1>3
  <2>2. (u * 2 + v) * d = u * (2 * d) + v * d
    BY <1>1, <1>3
  <2>3. (z - v) * d = z * d - v * d
    BY <1>1, <1>3
  <2>4. A \in Int
    BY <1>c, <1>3
  <2> QED
    BY <1>3, <2>1, <2>2, <2>3, <2>4
<1> HIDE DEF A, B, C
<1>5. x = A + s /\ y = A + t /\ s \in 0..(c - 1) /\ t \in 0..(c - 1)
  <2>1. B + r \in 0..(c - 1) /\ C + r \in 0..(c - 1)
    BY <1>1, <1>2, <1>c, <1>4
  <2>2. x = (A + B) + r /\ y = x + (C - B)
    BY <1>2, <1>4
  <2> QED
    BY <1>1, <1>2, <1>4, <2>1, <2>2
<1> HIDE DEF s, t, c, y
<1>6. y \in Numbers(n)
  <2>1. u >= 0
    <3> SUFFICES ASSUME u <= -1 PROVE FALSE
      BY <1>3
    <3>1. A <= -c
      BY <1>c, <1>3 DEF A
    <3> QED
      BY <1>1, <1>c, <1>4, <1>5, <3>1
  <2>2. u <= h - 1
    <3> SUFFICES ASSUME u >= h PROVE FALSE
      BY <1>1, <1>3
    <3>1. A >= h * c
      BY <1>c, <1>1, <1>3 DEF A
    <3> QED
      BY <1>1, <1>c, <1>4, <1>5, <3>1
  <2>3. A >= 0
    BY <1>c, <1>3, <2>1 DEF A
  <2>4. A <= (h - 1) * c
    BY <1>c, <1>1, <1>3, <2>2 DEF A
  <2>5. (h - 1) * c = h * c - c /\ h * c \in Int
    BY <1>c, <1>1
  <2>6. A + t \in 0..(pow2[n] - 1)
    BY <1>c, <1>4, <1>5, <2>3, <2>4, <2>5
  <2> QED
    BY <1>5, <2>6 DEF Numbers
<1>7. y \in Int
  BY <1>6, NumberType
<1>8. BitOf(y, i) = z
  <2>1. y = (u * 2 + z) * d + r /\ u * 2 + z \in Int
    <3>1. (u * 2 + z) * d = A + C
      BY <1>1, <1>3 DEF A, C, c
    <3>2. A + t = (A + C) + r
      BY <1>1, <1>2, <1>4 DEF t
    <3> QED
      BY <1>3, <1>5, <3>1, <3>2
  <2> DEFINE p == u * 2 + z
  <2>2. y = p * d + r /\ p \in Int
    BY <2>1
  <2>3. p % 2 = z
    <3>1. 2 \in Nat \ {0} /\ z \in 0..(2 - 1)
      OBVIOUS
    <3> QED
      BY <1>3, <3>1, DivisionUnique
  <2> HIDE DEF p
  <2>4. (p * d + r) \div d = p
    BY <1>1, <1>2, <2>2, DivisionUnique
  <2> QED
    BY <2>2, <2>3, <2>4 DEF BitOf, d
<1>9. \A j \in 0..(n - 1) : j # i => BitOf(y, j) = BitOf(x, j)
  <2> TAKE j \in 0..(n - 1)
  <2>1. CASE j < i
    <3>1. y = (z - v) * pow2[i] + x /\ z - v \in Int
      <4>1. (z - v) * d \in Int
        BY <1>1, <1>3
      <4> QED
        BY <1>1, <1>3, <4>1 DEF y, d
    <3>2. j \in 0..(i - 1) /\ i \in Nat
      BY <2>1
    <3> QED
      BY <1>1, <3>1, <3>2, LowBits
  <2>2. CASE j > i
    <3>1. x \div pow2[i + 1] = u /\ y \div pow2[i + 1] = u
      <4>1. (u * c + s) \div c = u /\ (u * c + t) \div c = u
        BY <1>3, <1>c, <1>5, DivisionUnique
      <4> QED
        BY <1>5, <1>c, <4>1 DEF A
    <3> DEFINE k == i + 1
               m == j - (i + 1)
    <3>2. k \in Nat /\ m \in Nat /\ k + m = j /\ x \div pow2[k] = u /\ y \div pow2[k] = u
      BY <2>2, <3>1
    <3> HIDE DEF k, m
    <3>3. BitOf(x \div pow2[k], m) = BitOf(x, k + m)
      BY <1>1, <3>2, BitsOfQuotient
    <3>4. BitOf(y \div pow2[k], m) = BitOf(y, k + m)
      BY <1>7, <3>2, BitsOfQuotient
    <3> QED
      BY <3>2, <3>3, <3>4
  <2> QED
    BY <2>1, <2>2
<1>10. \A j \in 0..(n - 1) : b[j] \in Logic /\ (b[j] = X \/ b[j] = BitOf(x, j))
  BY StandsType DEF Stands
<1>11. Stands(n, with_bit(b, i, l), y)
  <2>1. b \in [0..(n - 1) -> Logic]
    BY DEF Stands, Bits
  <2> QED
    BY <1>6, <1>8, <1>9, <1>10, <2>1 DEF Stands, with_bit, Bits
<1>12. is_valid(b) /\ l # X => is_valid(with_bit(b, i, l))
  BY <1>1 DEF with_bit, is_valid
<1> QED
  BY <1>11, <1>12 DEF y, v, d

\* The reductions and their negations answer what counting the number's ones answers.
LEMMA ReduceStands ==
    ASSUME NEW n \in Nat, NEW b, NEW x, Stands(n, b, x),
           NEW ones, ones = Cardinality({i \in DOMAIN b : BitOf(x, i) = 1})
    PROVE  /\ ones \in Nat
           /\ and_reduce(b) \in Logic /\ (and_reduce(b) = X \/ and_reduce(b) = from_bool(ones = n))
           /\ or_reduce(b) \in Logic /\ (or_reduce(b) = X \/ or_reduce(b) = from_bool(ones > 0))
           /\ xor_reduce(b) \in Logic /\ (xor_reduce(b) = X \/ xor_reduce(b) = ones % 2)
           /\ is_valid(b) => and_reduce(b) # X /\ or_reduce(b) # X /\ xor_reduce(b) # X
           /\ ones <= n
<1> DEFINE S == 0..(n - 1)
           U == {i \in S : BitOf(x, i) = 1}
<1>1. /\ DOMAIN b = S /\ b \in [S -> Logic] /\ IsFiniteSet(S) /\ Cardinality(S) = n
      /\ \A i \in S : b[i] \in Logic /\ BitOf(x, i) \in {0, 1} /\ (b[i] = X \/ b[i] = BitOf(x, i))
  <2>1. b \in Bits(n)
    BY DEF Stands
  <2>2. DOMAIN b = S /\ IsFiniteSet(S) /\ N(b) = n
    BY <2>1, WidthOf
  <2> QED
    BY <2>1, <2>2, StandsType DEF Stands, Bits, N
<1>2. ones = Cardinality(U) /\ U \subseteq S
  BY <1>1
<1> HIDE DEF S
<1>3. IsFiniteSet(U) /\ ones \in Nat /\ ones <= n /\ (ones = n => U = S)
  BY <1>1, <1>2, FS_Subset, FS_CardinalityType
<1>4. ones = 0 <=> U = {}
  BY <1>2, <1>3, FS_EmptySet
<1>5. /\ and_reduce(b) = IF \E i \in S : b[i] = 0 THEN 0 ELSE IF is_valid(b) THEN 1 ELSE X
      /\ or_reduce(b) = IF \E i \in S : b[i] = 1 THEN 1 ELSE IF is_valid(b) THEN 0 ELSE X
      /\ xor_reduce(b) = IF is_valid(b) THEN Cardinality({i \in S : b[i] = 1}) % 2 ELSE X
  BY <1>1, AndReduce, OrReduce, XorReduce
<1>6. and_reduce(b) \in Logic /\ (and_reduce(b) = X \/ and_reduce(b) = from_bool(ones = n))
  <2>1. CASE \E i \in S : b[i] = 0
    <3>1. U # S
      BY <1>1, <2>1 DEF X
    <3> QED
      BY <1>3, <1>5, <2>1, <3>1 DEF from_bool, Logic, X
  <2>2. CASE ~(\E i \in S : b[i] = 0) /\ is_valid(b)
    <3>1. U = S
      BY <1>1, <2>2 DEF Logic, X, is_valid
    <3> QED
      BY <1>1, <1>2, <1>5, <2>2, <3>1 DEF from_bool, Logic, X
  <2>3. CASE ~(\E i \in S : b[i] = 0) /\ ~is_valid(b)
    BY <1>5, <2>3 DEF Logic
  <2> QED
    BY <2>1, <2>2, <2>3
<1>7. or_reduce(b) \in Logic /\ (or_reduce(b) = X \/ or_reduce(b) = from_bool(ones > 0))
  <2>1. CASE \E i \in S : b[i] = 1
    <3>1. U # {}
      BY <1>1, <2>1 DEF X
    <3>2. ones > 0
      BY <1>3, <1>4, <3>1
    <3> QED
      BY <1>5, <2>1, <3>2 DEF from_bool, Logic, X
  <2>2. CASE ~(\E i \in S : b[i] = 1) /\ is_valid(b)
    <3>1. U = {}
      BY <1>1, <2>2 DEF Logic, X, is_valid
    <3>2. ~(ones > 0)
      BY <1>4, <3>1
    <3> QED
      BY <1>5, <2>2, <3>2 DEF from_bool, Logic, X
  <2>3. CASE ~(\E i \in S : b[i] = 1) /\ ~is_valid(b)
    BY <1>5, <2>3 DEF Logic
  <2> QED
    BY <2>1, <2>2, <2>3
<1>8. xor_reduce(b) \in Logic /\ (xor_reduce(b) = X \/ xor_reduce(b) = ones % 2)
  <2>1. CASE is_valid(b)
    <3>1. {i \in S : b[i] = 1} = U
      BY <1>1, <2>1 DEF is_valid
    <3>2. xor_reduce(b) = ones % 2
      BY <1>2, <1>5, <2>1, <3>1
    <3>3. ones % 2 \in {0, 1}
      BY <1>3
    <3> QED
      BY <3>2, <3>3 DEF Logic
  <2>2. CASE ~is_valid(b)
    BY <1>5, <2>2 DEF Logic
  <2> QED
    BY <2>1, <2>2
<1>9. is_valid(b) => and_reduce(b) # X /\ or_reduce(b) # X /\ xor_reduce(b) # X
  <2>1. \A k \in Nat : k % 2 \in {0, 1}
    OBVIOUS
  <2>2. {i \in S : b[i] = 1} \subseteq S
    OBVIOUS
  <2>3. Cardinality({i \in S : b[i] = 1}) \in Nat
    BY <1>1, <2>2, FS_Subset, FS_CardinalityType
  <2> QED
    BY <1>5, <2>1, <2>3 DEF X
<1> QED
  BY <1>3, <1>6, <1>7, <1>8, <1>9

\* not: an unknown bit stays unknown, a known one is flipped.
LEMMA NotStands ==
    ASSUME NEW l \in Logic, NEW z \in {0, 1}, l = X \/ l = z
    PROVE  /\ not(l) \in Logic /\ (not(l) = X \/ not(l) = 1 - z)
           /\ l # X => not(l) # X
<1> DEFINE k == IF l = X THEN X ELSE 1 - l
<1>1. k \in Logic /\ (k = X \/ k = 1 - z) /\ (l # X => k # X)
  BY DEF Logic, X
<1>2. not(l) = k
  BY DEF not
<1> HIDE DEF k
<1> QED
  BY <1>1, <1>2, Zenon

-----------------------------------------------------------------------------
(***************************************************************************)
(* The register.  At some width within the bound its vector stands for the *)
(* number in hardware, and unless a cause came in every bit is known.      *)
(***************************************************************************)

BitsInv ==
    /\ \E n \in 1 .. MaxWidth : Stands(n, acc, hw)
    /\ UnknownHasCause
    /\ tainted \in BOOLEAN

\* It is what the runs check, with the number bounded by the register's own width.
LEMMA BitsInvImplies ==
    BitsInv => TypeOK /\ HardwareCovered /\ UnknownHasCause
<1> SUFFICES ASSUME BitsInv PROVE TypeOK /\ HardwareCovered /\ UnknownHasCause
  OBVIOUS
<1>1. PICK n \in 1 .. MaxWidth : Stands(n, acc, hw)
  BY DEF BitsInv
<1>2. n \in Nat /\ MaxWidth \in Nat /\ n <= MaxWidth
  BY RegisterAssumption
<1>3. Numbers(n) \subseteq Numbers(MaxWidth)
  BY <1>2, NumbersWiden
<1>4. acc \in Bits(n) /\ hw \in Numbers(n)
  BY <1>1 DEF Stands
<1>5. TypeOK
  BY <1>3, <1>4 DEF TypeOK, BitsInv
<1>6. HardwareCovered
  BY <1>1, <1>2, <1>4, CoversStands DEF HardwareCovered
<1> QED
  BY <1>5, <1>6 DEF BitsInv

\* An operand stands for each of the numbers its unknown bits allow.
LEMMA OperandStands ==
    ASSUME NEW n \in 1 .. MaxWidth, NEW b \in Operands(n), NEW x \in Resolutions(b)
    PROVE  Stands(n, b, x)
<1>1. b \in Bits(n) /\ n \in Nat
  BY RegisterAssumption
<1>2. Covers(b, x)
  BY DEF Resolutions
<1> QED
  BY <1>1, <1>2, CoversStands

\* So does a single bit.
LEMMA BitOperand ==
    ASSUME NEW l \in Logic, NEW x \in Resolutions(Bit(l))
    PROVE  x \in {0, 1} /\ (l = X \/ l = x)
<1> DEFINE b == Bit(l)
<1>1. b \in [0 .. 0 -> Logic] /\ DOMAIN b = {0} /\ b[0] = l
  BY DEF Bit
<1>2. b \in Bits(1)
  BY <1>1 DEF Bits
<1>3. Stands(1, b, x)
  BY <1>2, CoversStands DEF Resolutions
<1>4. pow2[0] = 1 /\ pow2[1] = 2
  BY PowerDef
<1>5. x \in {0, 1}
  BY <1>3, <1>4 DEF Stands, Numbers
<1>6. BitOf(x, 0) = x
  <2>1. \A y \in {0, 1} : (y \div 1) % 2 = y
    OBVIOUS
  <2> QED
    BY <1>4, <1>5, <2>1 DEF BitOf
<1> QED
  BY <1>1, <1>3, <1>5, <1>6 DEF Stands

\* What a step has to show.
LEMMA BitsInvAfter ==
    ASSUME NEW m \in 1 .. MaxWidth, NEW b, NEW x, Become(b, x), Stands(m, b, x),
           tainted' \in BOOLEAN, tainted' \/ is_valid(b)
    PROVE  BitsInv'
BY DEF Become, BitsInv, UnknownHasCause

\* A step that answers one bit.
LEMMA BitAfter ==
    ASSUME NEW l \in Logic, NEW z \in {0, 1}, l = X \/ l = z, Become(Bit(l), z),
           tainted' \in BOOLEAN, tainted' \/ l # X
    PROVE  BitsInv'
<1>1. 1 \in 1 .. MaxWidth
  BY RegisterAssumption
<1>2. Stands(1, Bit(l), z) /\ (is_valid(Bit(l)) <=> l # X)
  BY BitStands
<1> QED
  BY <1>1, <1>2, BitsInvAfter

\* The register starts with an operand of one bit.
LEMMA BitsInvInit ==
    Init => BitsInv
<1> SUFFICES ASSUME Init PROVE BitsInv
  OBVIOUS
<1>1. PICK b \in Operands(1) : acc = b /\ hw \in Resolutions(b) /\ tainted = ~is_valid(b)
  BY DEF Init
<1>2. 1 \in 1 .. MaxWidth
  BY RegisterAssumption
<1>3. Stands(1, b, hw)
  BY <1>1, <1>2, OperandStands
<1> QED
  BY <1>1, <1>2, <1>3 DEF BitsInv, UnknownHasCause

\* A load and a concatenation take an operand of any width.
LEMMA LoadConcatStep ==
    ASSUME BitsInv, NEW m \in 1 .. MaxWidth, NEW b \in Operands(m), NEW x \in Resolutions(b),
           Load(b, x) \/ Concat(b, x)
    PROVE  BitsInv'
<1>1. Stands(m, b, x) /\ m \in Nat
  BY OperandStands
<1>2. PICK n \in 1 .. MaxWidth : Stands(n, acc, hw)
  BY DEF BitsInv
<1>3. CASE Load(b, x)
  BY <1>1, <1>3, BitsInvAfter DEF Load
<1>4. CASE Concat(b, x)
  <2>1. N(acc) = n /\ N(b) = m /\ n \in Nat
    BY <1>1, <1>2, StandsType
  <2>2. n + m \in 1 .. MaxWidth
    BY <1>4, <2>1, RegisterAssumption DEF Concat
  <2>3. Stands(n + m, concat(acc, b), hw * pow2[m] + x) /\ (is_valid(acc) /\ is_valid(b) => is_valid(concat(acc, b)))
    BY <1>1, <1>2, <2>1, ConcatStands
  <2>4. tainted' \in BOOLEAN /\ (tainted' \/ is_valid(concat(acc, b)))
    BY <1>4, <2>3 DEF Concat, Taint, BitsInv, UnknownHasCause
  <2>5. Become(concat(acc, b), hw * pow2[m] + x)
    BY <1>4, <2>1 DEF Concat
  <2> QED
    BY <2>2, <2>3, <2>4, <2>5, BitsInvAfter
<1> QED
  BY <1>3, <1>4

\* Replacing one bit.
LEMMA SetBitStep ==
    ASSUME BitsInv, NEW i \in DOMAIN acc, NEW l \in Logic, NEW z \in Resolutions(Bit(l)),
           SetBit(i, l, z)
    PROVE  BitsInv'
<1>1. PICK n \in 1 .. MaxWidth : Stands(n, acc, hw)
  BY DEF BitsInv
<1>2. i \in 0 .. (n - 1) /\ n \in Nat
  BY <1>1, StandsType
<1>3. z \in {0, 1} /\ (l = X \/ l = z)
  BY BitOperand
<1>4. /\ Stands(n, with_bit(acc, i, l), hw + (z - BitOf(hw, i)) * pow2[i])
      /\ is_valid(acc) /\ l # X => is_valid(with_bit(acc, i, l))
  BY <1>1, <1>2, <1>3, SetBitStands
<1>5. tainted' \in BOOLEAN /\ (tainted' \/ is_valid(with_bit(acc, i, l)))
  BY <1>4 DEF SetBit, BitsInv, UnknownHasCause
<1> QED
  BY <1>1, <1>4, <1>5, BitsInvAfter DEF SetBit

\* The reductions answer one bit.
LEMMA ReduceStep ==
    ASSUME BitsInv, Reduce
    PROVE  BitsInv'
<1>1. PICK n \in 1 .. MaxWidth : Stands(n, acc, hw)
  BY DEF BitsInv
<1> DEFINE ones == Cardinality({i \in DOMAIN acc : BitOf(hw, i) = 1})
           a == and_reduce(acc)
           o == or_reduce(acc)
           p == xor_reduce(acc)
<1>2. n \in Nat /\ N(acc) = n
  BY <1>1, StandsType
<1>3. /\ ones \in Nat /\ ones <= n
      /\ a \in Logic /\ (a = X \/ a = from_bool(ones = n))
      /\ o \in Logic /\ (o = X \/ o = from_bool(ones > 0))
      /\ p \in Logic /\ (p = X \/ p = ones % 2)
      /\ is_valid(acc) => a # X /\ o # X /\ p # X
  BY <1>1, <1>2, ReduceStands
<1>4. tainted' = tainted /\ tainted \in BOOLEAN /\ (tainted \/ (a # X /\ o # X /\ p # X))
  BY <1>3 DEF Reduce, BitsInv, UnknownHasCause
<1>5. \/ Become(Bit(a), from_bool(ones = n))
      \/ Become(Bit(o), from_bool(ones > 0))
      \/ Become(Bit(p), ones % 2)
      \/ Become(Bit(not(a)), from_bool(ones < n))
      \/ Become(Bit(not(o)), from_bool(ones = 0))
      \/ Become(Bit(not(p)), (ones + 1) % 2)
  BY <1>2 DEF Reduce
<1> HIDE DEF ones, a, o, p
<1>6. /\ from_bool(ones = n) \in {0, 1} /\ from_bool(ones < n) = 1 - from_bool(ones = n)
      /\ from_bool(ones > 0) \in {0, 1} /\ from_bool(ones = 0) = 1 - from_bool(ones > 0)
      /\ ones % 2 \in {0, 1} /\ (ones + 1) % 2 = 1 - (ones % 2)
  BY <1>2, <1>3 DEF from_bool
<1>7. /\ not(a) \in Logic /\ (not(a) = X \/ not(a) = 1 - from_bool(ones = n)) /\ (a # X => not(a) # X)
      /\ not(o) \in Logic /\ (not(o) = X \/ not(o) = 1 - from_bool(ones > 0)) /\ (o # X => not(o) # X)
      /\ not(p) \in Logic /\ (not(p) = X \/ not(p) = 1 - (ones % 2)) /\ (p # X => not(p) # X)
  BY <1>3, <1>6, NotStands
<1>8. \A z \in {0, 1} : 1 - z \in {0, 1}
  OBVIOUS
<1>9. ASSUME NEW l \in Logic, NEW z \in {0, 1}, l = X \/ l = z, Become(Bit(l), z), tainted \/ l # X
      PROVE  BitsInv'
  BY <1>4, <1>9, BitAfter
<1>10. CASE Become(Bit(a), from_bool(ones = n))
  BY <1>3, <1>4, <1>6, <1>9, <1>10
<1>11. CASE Become(Bit(o), from_bool(ones > 0))
  BY <1>3, <1>4, <1>6, <1>9, <1>11
<1>12. CASE Become(Bit(p), ones % 2)
  BY <1>3, <1>4, <1>6, <1>9, <1>12
<1>13. CASE Become(Bit(not(a)), from_bool(ones < n))
  BY <1>4, <1>6, <1>7, <1>8, <1>9, <1>13
<1>14. CASE Become(Bit(not(o)), from_bool(ones = 0))
  BY <1>4, <1>6, <1>7, <1>8, <1>9, <1>14
<1>15. CASE Become(Bit(not(p)), (ones + 1) % 2)
  BY <1>4, <1>6, <1>7, <1>8, <1>9, <1>15
<1> QED
  BY <1>5, <1>10, <1>11, <1>12, <1>13, <1>14, <1>15

\* So do the comparisons, unknown when an operand is not known.
LEMMA CompareStep ==
    ASSUME BitsInv, NEW b \in Operands(N(acc)), NEW x \in Resolutions(b), CompareLogic(b, x)
    PROVE  BitsInv'
<1>1. PICK n \in 1 .. MaxWidth : Stands(n, acc, hw)
  BY DEF BitsInv
<1>2. n \in Nat /\ N(acc) = n /\ hw \in Int
  BY <1>1, StandsType
<1>3. Stands(n, b, x)
  BY <1>2, OperandStands
<1>4. x \in Int
  BY <1>2, <1>3, StandsType
<1> DEFINE Known == is_valid(acc) /\ is_valid(b)
           Answer(c) == IF Known THEN from_bool(c) ELSE X
<1>5. /\ eq_logic(acc, b) = Answer(hw = x) /\ lt_logic(acc, b) = Answer(hw < x)
      /\ le_logic(acc, b) = Answer(hw <= x) /\ lt_logic(b, acc) = Answer(x < hw)
      /\ le_logic(b, acc) = Answer(x <= hw)
  BY <1>1, <1>2, <1>3, CompareStands
<1>6. (hw > x <=> x < hw) /\ (hw >= x <=> x <= hw)
  BY <1>2, <1>4
<1>7. tainted' \in BOOLEAN /\ (tainted' \/ Known)
  BY DEF CompareLogic, Taint, BitsInv, UnknownHasCause
<1> HIDE DEF Known
<1>8. ASSUME NEW c \in BOOLEAN, Become(Bit(Answer(c)), from_bool(c)) PROVE BitsInv'
  <2>1. from_bool(c) \in {0, 1} /\ Answer(c) \in Logic /\ (Answer(c) = X \/ Answer(c) = from_bool(c))
    BY DEF from_bool, Logic
  <2>2. tainted' \/ Answer(c) # X
    BY <1>7 DEF from_bool, X
  <2> QED
    BY <1>7, <1>8, <2>1, <2>2, BitAfter
<1>9. ASSUME NEW c \in BOOLEAN, Become(Bit(not(Answer(c))), from_bool(~c)) PROVE BitsInv'
  <2>1. from_bool(c) \in {0, 1} /\ Answer(c) \in Logic /\ (Answer(c) = X \/ Answer(c) = from_bool(c))
    BY DEF from_bool, Logic
  <2>2. tainted' \/ Answer(c) # X
    BY <1>7 DEF from_bool, X
  <2>3. from_bool(~c) = 1 - from_bool(c) /\ from_bool(~c) \in {0, 1}
    BY DEF from_bool
  <2> DEFINE k == Answer(c)
             l == not(k)
             z == from_bool(~c)
  <2>4. l \in Logic /\ (l = X \/ l = z) /\ (k # X => l # X) /\ Become(Bit(l), z)
    BY <1>9, <2>1, <2>3, NotStands
  <2>5. z \in {0, 1} /\ (tainted' \/ l # X)
    BY <2>2, <2>3, <2>4
  <2> HIDE DEF l, z
  <2> QED
    BY <1>7, <2>4, <2>5, BitAfter
<1> HIDE DEF Answer
<1>10. /\ (hw = x) \in BOOLEAN /\ (hw < x) \in BOOLEAN /\ (hw <= x) \in BOOLEAN
       /\ (x < hw) \in BOOLEAN /\ (x <= hw) \in BOOLEAN
  BY <1>2, <1>4
<1>11. CASE Become(Bit(eq_logic(acc, b)), from_bool(hw = x))
  BY <1>5, <1>8, <1>10, <1>11
<1>12. CASE Become(Bit(not(eq_logic(acc, b))), from_bool(hw # x))
  <2>1. Become(Bit(not(Answer(hw = x))), from_bool(~(hw = x)))
    BY <1>5, <1>12
  <2> QED
    BY <1>9, <1>10, <2>1
<1>13. CASE Become(Bit(lt_logic(acc, b)), from_bool(hw < x))
  BY <1>5, <1>8, <1>10, <1>13
<1>14. CASE Become(Bit(le_logic(acc, b)), from_bool(hw <= x))
  BY <1>5, <1>8, <1>10, <1>14
<1>15. CASE Become(Bit(lt_logic(b, acc)), from_bool(hw > x))
  <2>1. Become(Bit(Answer(x < hw)), from_bool(x < hw))
    BY <1>5, <1>6, <1>15 DEF from_bool
  <2> QED
    BY <1>8, <1>10, <2>1
<1>16. CASE Become(Bit(le_logic(b, acc)), from_bool(hw >= x))
  <2>1. Become(Bit(Answer(x <= hw)), from_bool(x <= hw))
    BY <1>5, <1>6, <1>16 DEF from_bool
  <2> QED
    BY <1>8, <1>10, <2>1
<1> QED
  BY <1>11, <1>12, <1>13, <1>14, <1>15, <1>16 DEF CompareLogic

\* Changing the width.
LEMMA ConvertStep ==
    ASSUME BitsInv, NEW m \in 1 .. MaxWidth, Convert(m)
    PROVE  BitsInv'
<1>1. PICK n \in 1 .. MaxWidth : Stands(n, acc, hw)
  BY DEF BitsInv
<1>2. n \in Nat \ {0} /\ N(acc) = n /\ m \in Nat
  BY <1>1, StandsType
<1>3. tainted' = tainted /\ tainted \in BOOLEAN /\ (tainted \/ is_valid(acc))
  BY DEF Convert, BitsInv, UnknownHasCause
<1>4. ASSUME NEW b, NEW x, Become(b, x), Stands(m, b, x), is_valid(acc) => is_valid(b)
      PROVE  BitsInv'
  BY <1>3, <1>4, BitsInvAfter
<1>5. CASE m >= n /\ Become(zero_extend(acc, m), hw)
  BY <1>1, <1>2, <1>4, <1>5, ExtendStands
<1>6. CASE m >= n /\ Become(sign_extend(acc, m), Signed(hw, n) % pow2[m])
  BY <1>1, <1>2, <1>4, <1>6, ExtendStands
<1>7. CASE m <= n /\ Become(truncate(acc, m), hw % pow2[m])
  BY <1>1, <1>2, <1>4, <1>7, SelectStands
<1>8. CASE \E z \in WithBits(m, LAMBDA i : BitOf(hw, i % N(acc))) : Become(replicate(acc, m), z)
  <2>1. PICK z \in WithBits(m, LAMBDA i : BitOf(hw, i % N(acc))) : Become(replicate(acc, m), z)
    BY <1>8
  <2>2. z \in Numbers(m) /\ \A i \in 0 .. (m - 1) : BitOf(z, i) = BitOf(hw, i % n)
    BY <1>2 DEF WithBits
  <2> QED
    BY <1>1, <1>2, <1>4, <2>1, <2>2, SelectStands
<1>9. CASE \E lo \in 0 .. n - m : Become(part_select(acc, lo, m), (hw \div pow2[lo]) % pow2[m])
  BY <1>1, <1>2, <1>4, <1>9, SelectStands
<1> QED
  BY <1>2, <1>5, <1>6, <1>7, <1>8, <1>9 DEF Convert

\* The selector may be unknown; the hardware takes one side all the same.
LEMMA MuxStep ==
    ASSUME BitsInv, NEW b \in Operands(N(acc)), NEW x \in Resolutions(b),
           NEW sel \in Logic, NEW s \in Resolutions(Bit(sel)), Mux(sel, s, b, x)
    PROVE  BitsInv'
<1>1. PICK n \in 1 .. MaxWidth : Stands(n, acc, hw)
  BY DEF BitsInv
<1>2. n \in Nat /\ N(acc) = n
  BY <1>1, StandsType
<1>3. Stands(n, b, x)
  BY <1>2, OperandStands
<1>4. s \in {0, 1} /\ (sel = X \/ sel = s)
  BY BitOperand
<1>5. /\ Stands(n, mux(sel, acc, b), IF s = 1 THEN hw ELSE x)
      /\ sel # X /\ is_valid(acc) /\ is_valid(b) => is_valid(mux(sel, acc, b))
  BY <1>1, <1>2, <1>3, <1>4, MuxStands
<1>6. tainted' \in BOOLEAN /\ (tainted' \/ is_valid(mux(sel, acc, b)))
  BY <1>5 DEF Mux, BitsInv, UnknownHasCause
<1> QED
  BY <1>5, <1>6, BitsInvAfter DEF Mux

\* bits_not and bits_neg.
LEMMA InvertStep ==
    ASSUME BitsInv, Invert
    PROVE  BitsInv'
<1>1. PICK n \in 1 .. MaxWidth : Stands(n, acc, hw)
  BY DEF BitsInv
<1>2. n \in Nat /\ N(acc) = n
  BY <1>1, StandsType
<1>3. tainted' = tainted /\ tainted \in BOOLEAN /\ (tainted \/ is_valid(acc))
  BY DEF Invert, BitsInv, UnknownHasCause
<1>4. /\ Stands(n, bits_not(acc), pow2[n] - 1 - hw)
      /\ Stands(n, bits_neg(acc), (-hw) % pow2[n])
      /\ is_valid(acc) => is_valid(bits_not(acc)) /\ is_valid(bits_neg(acc))
  BY <1>1, <1>2, InvertStands
<1>5. CASE Become(bits_not(acc), pow2[n] - 1 - hw)
  BY <1>3, <1>4, <1>5, BitsInvAfter
<1>6. CASE Become(bits_neg(acc), (-hw) % pow2[n])
  BY <1>3, <1>4, <1>6, BitsInvAfter
<1> QED
  BY <1>2, <1>5, <1>6 DEF Invert

\* The shifts, by any amount up to the widest register.
LEMMA ShiftStep ==
    ASSUME BitsInv, NEW k \in 0 .. MaxWidth, Shift(k)
    PROVE  BitsInv'
<1>1. PICK n \in 1 .. MaxWidth : Stands(n, acc, hw)
  BY DEF BitsInv
<1>2. n \in Nat \ {0} /\ N(acc) = n /\ k \in Nat
  BY <1>1, StandsType
<1>3. tainted' = tainted /\ tainted \in BOOLEAN /\ (tainted \/ is_valid(acc))
  BY DEF Shift, BitsInv, UnknownHasCause
<1>4. /\ Stands(n, shift_left(acc, k), (hw * pow2[k]) % pow2[n])
      /\ Stands(n, shift_right(acc, k), hw \div pow2[k])
      /\ Stands(n, arithmetic_shift_right(acc, k), (Signed(hw, n) \div pow2[k]) % pow2[n])
      /\ is_valid(acc) => /\ is_valid(shift_left(acc, k)) /\ is_valid(shift_right(acc, k))
                          /\ is_valid(arithmetic_shift_right(acc, k))
  BY <1>1, <1>2, ShiftStands
<1>5. ASSUME NEW b, NEW x, Become(b, x), Stands(n, b, x), is_valid(acc) => is_valid(b)
      PROVE  BitsInv'
  BY <1>3, <1>5, BitsInvAfter
<1>6. CASE Become(shift_left(acc, k), (hw * pow2[k]) % pow2[n])
  BY <1>4, <1>5, <1>6
<1>7. CASE Become(shift_right(acc, k), hw \div pow2[k])
  BY <1>4, <1>5, <1>7
<1>8. CASE Become(arithmetic_shift_right(acc, k), (Signed(hw, n) \div pow2[k]) % pow2[n])
  BY <1>4, <1>5, <1>8
<1> QED
  BY <1>2, <1>6, <1>7, <1>8 DEF Shift

\* Two operands of the register's width, bit by bit or as numbers.
LEMMA CombineStep ==
    ASSUME BitsInv, NEW b \in Operands(N(acc)), NEW x \in Resolutions(b), Combine(b, x)
    PROVE  BitsInv'
<1>1. PICK n \in 1 .. MaxWidth : Stands(n, acc, hw)
  BY DEF BitsInv
<1>2. n \in Nat /\ N(acc) = n
  BY <1>1, StandsType
<1>3. Stands(n, b, x)
  BY <1>2, OperandStands
<1>4. tainted' \in BOOLEAN /\ (tainted' \/ (is_valid(acc) /\ is_valid(b)))
  BY DEF Combine, Taint, BitsInv, UnknownHasCause
<1>5. ASSUME NEW c, NEW z, Become(c, z), Stands(n, c, z), is_valid(acc) /\ is_valid(b) => is_valid(c)
      PROVE  BitsInv'
  BY <1>4, <1>5, BitsInvAfter
<1>6. CASE \E z \in WithBits(n, LAMBDA i : BitOf(hw, i) * BitOf(x, i)) : Become(bits_and(acc, b), z)
  <2>1. PICK z \in WithBits(n, LAMBDA i : BitOf(hw, i) * BitOf(x, i)) : Become(bits_and(acc, b), z)
    BY <1>6
  <2>2. z \in Numbers(n) /\ \A i \in 0 .. (n - 1) : BitOf(z, i) = BitOf(hw, i) * BitOf(x, i)
    BY DEF WithBits
  <2> QED
    BY <1>1, <1>2, <1>3, <1>5, <2>1, <2>2, BitwiseStands
<1>7. CASE \E z \in WithBits(n, LAMBDA i : from_bool(BitOf(hw, i) + BitOf(x, i) > 0)) : Become(bits_or(acc, b), z)
  <2>1. PICK z \in WithBits(n, LAMBDA i : from_bool(BitOf(hw, i) + BitOf(x, i) > 0)) : Become(bits_or(acc, b), z)
    BY <1>7
  <2>2. z \in Numbers(n) /\ \A i \in 0 .. (n - 1) : BitOf(z, i) = from_bool(BitOf(hw, i) + BitOf(x, i) > 0)
    BY DEF WithBits
  <2> QED
    BY <1>1, <1>2, <1>3, <1>5, <2>1, <2>2, BitwiseStands
<1>8. CASE \E z \in WithBits(n, LAMBDA i : (BitOf(hw, i) + BitOf(x, i)) % 2) : Become(bits_xor(acc, b), z)
  <2>1. PICK z \in WithBits(n, LAMBDA i : (BitOf(hw, i) + BitOf(x, i)) % 2) : Become(bits_xor(acc, b), z)
    BY <1>8
  <2>2. z \in Numbers(n) /\ \A i \in 0 .. (n - 1) : BitOf(z, i) = (BitOf(hw, i) + BitOf(x, i)) % 2
    BY DEF WithBits
  <2> QED
    BY <1>1, <1>2, <1>3, <1>5, <2>1, <2>2, BitwiseStands
<1>9. CASE Become(bits_add(acc, b), (hw + x) % pow2[n])
  BY <1>1, <1>2, <1>3, <1>5, <1>9, ArithmeticStands
<1>10. CASE Become(bits_sub(acc, b), (hw - x) % pow2[n])
  BY <1>1, <1>2, <1>3, <1>5, <1>10, ArithmeticStands
<1>11. CASE Become(bits_mul(acc, b), (hw * x) % pow2[n])
  BY <1>1, <1>2, <1>3, <1>5, <1>11, ArithmeticStands
<1> QED
  BY <1>2, <1>6, <1>7, <1>8, <1>9, <1>10, <1>11 DEF Combine

\* Division, where a zero divisor is a cause of its own.
LEMMA DivideStep ==
    ASSUME BitsInv, NEW b \in Operands(N(acc)), NEW x \in Resolutions(b), Divide(b, x)
    PROVE  BitsInv'
<1>1. PICK n \in 1 .. MaxWidth : Stands(n, acc, hw)
  BY DEF BitsInv
<1>2. n \in Nat /\ N(acc) = n
  BY <1>1, StandsType
<1>3. Stands(n, b, x)
  BY <1>2, OperandStands
<1>4. /\ Stands(n, bits_div(acc, b), IF x = 0 THEN 0 ELSE hw \div x)
      /\ Stands(n, bits_rem(acc, b), IF x = 0 THEN 0 ELSE hw % x)
      /\ is_valid(acc) /\ is_valid(b) /\ x # 0 => is_valid(bits_div(acc, b)) /\ is_valid(bits_rem(acc, b))
  BY <1>1, <1>2, <1>3, DivideStands
<1>5. tainted' \in BOOLEAN /\ (tainted' \/ (is_valid(acc) /\ is_valid(b) /\ x # 0))
  BY DEF Divide, BitsInv, UnknownHasCause
<1>6. CASE Become(bits_div(acc, b), IF x = 0 THEN 0 ELSE hw \div x)
  BY <1>4, <1>5, <1>6, BitsInvAfter
<1>7. CASE Become(bits_rem(acc, b), IF x = 0 THEN 0 ELSE hw % x)
  BY <1>4, <1>5, <1>7, BitsInvAfter
<1> QED
  BY <1>6, <1>7 DEF Divide

\* Every step keeps the invariant.
LEMMA BitsInvStep ==
    BitsInv /\ [BitsNext]_vars => BitsInv'
<1> SUFFICES ASSUME BitsInv, [BitsNext]_vars PROVE BitsInv'
  OBVIOUS
<1>1. CASE UNCHANGED vars
  BY <1>1 DEF vars, BitsInv, UnknownHasCause
<1>2. ASSUME NEW n \in 1 .. MaxWidth, NEW b \in Operands(n), NEW x \in Resolutions(b),
             Load(b, x) \/ Concat(b, x)
      PROVE  BitsInv'
  BY <1>2, LoadConcatStep
<1>3. ASSUME NEW i \in DOMAIN acc, NEW l \in Logic, NEW x \in Resolutions(Bit(l)), SetBit(i, l, x)
      PROVE  BitsInv'
  BY <1>3, SetBitStep
<1>4. CASE Reduce \/ Invert
  BY <1>4, ReduceStep, InvertStep
<1>5. ASSUME NEW b \in Operands(N(acc)), NEW x \in Resolutions(b),
             \/ CompareLogic(b, x)
             \/ Combine(b, x)
             \/ Divide(b, x)
             \/ \E sel \in Logic : \E s \in Resolutions(Bit(sel)) : Mux(sel, s, b, x)
      PROVE  BitsInv'
  BY <1>5, CompareStep, CombineStep, DivideStep, MuxStep
<1>6. ASSUME NEW m \in 1 .. MaxWidth, Convert(m) PROVE BitsInv'
  BY <1>6, ConvertStep
<1>7. ASSUME NEW k \in 0 .. MaxWidth, Shift(k) PROVE BitsInv'
  BY <1>7, ShiftStep
<1> QED
  BY <1>1, <1>2, <1>3, <1>4, <1>5, <1>6, <1>7 DEF BitsNext

\* Whatever operations a Bits value goes through, at every width a u128 holds, it stands
\* for the number in hardware, and every unknown bit has a cause.
LEMMA BitsInvariant ==
    BitsSpec => []BitsInv
<1> QED
  BY BitsInvInit, BitsInvStep, PTL DEF BitsSpec

\* No operation of Bits breaks a vector: it keeps a width and logic values, and the number
\* behind it fits the widest vector (types.rs).
THEOREM BitsTypeCorrect ==
    BitsSpec => []TypeOK
<1> QED
  BY BitsInvariant, BitsInvImplies, PTL

\* Every bit the simulator knows is the bit hardware computes, whichever way the unknown
\* bits fell: no operation of Bits is too sure of itself (types.rs).
THEOREM BitsCoverHardware ==
    BitsSpec => []HardwareCovered
<1> QED
  BY BitsInvariant, BitsInvImplies, PTL

\* An unknown bit comes from an unknown bit of an operand or from a zero divisor: no
\* operation of Bits invents one (types.rs).
THEOREM UnknownBitsHaveCause ==
    BitsSpec => []UnknownHasCause
<1> QED
  BY BitsInvariant, BitsInvImplies, PTL
=============================================================================
