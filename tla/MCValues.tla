------------------------------ MODULE MCValues ------------------------------
(***************************************************************************)
(* Operands and statements for Values: each shape lower_expr treats in its *)
(* own way, two operators deep.  Machine integers have the width of the    *)
(* port they are read from, and usize is 4 bits.                           *)
(***************************************************************************)
EXTENDS Values

Samples(n) ==
    {from_uint(n, v) : v \in 0 .. 2^n - 1} \cup {all(n, X), with_bit(all(n, 0), n - 1, X)}

A == Name("a")
B == Name("b")
T == Name("t")
Amount == {IntLit("u", 4, k, FALSE) : k \in {1, 3}}
Out(n, e) == Statement(NoBind, NoWidth, e, "out", n)
Cond(e) == Statement(NoBind, NoWidth, e, "cond", 1)

(* Bits. *)
Zero(n) == Const(n, 0, FALSE)
One(n) == Const(n, 1, TRUE)
BitsArith(S, R) == {Binary(op, l, r) : op \in {"+", "-", "*", "&", "|", "^"}, l \in S, r \in R}
BitsWhole(n, S) ==
    {Unary(op, x) : op \in {"!", "-"}, x \in S}
      \cup {Binary(op, x, k) : op \in Shifts, x \in S, k \in Amount \cup {AsU(4, B)}}
BitsExprs(n) ==
    LET once == BitsArith({A}, {B, One(n), Zero(n)}) \cup BitsWhole(n, {A})
    IN {A, One(n), Zero(n)} \cup once \cup {Asr(A, k) : k \in {1, 3}}
         \cup (IF n = 2 THEN BitsArith(once, {B}) \cup BitsWhole(n, once) ELSE {})

(* Integers.  A signed expression mentions a cast. *)
Us(n) == {AsU(n, A), AsU(n, B), IntLit("u", n, 1, FALSE)}
Is(n) == {Cast("i", n, AsU(n, A)), Cast("i", n, AsU(n, B)), IntLit("i", n, 1, FALSE)}
IntArith(n, S) ==
    {Binary(op, l, r) : op \in IF n = 2 THEN {"+", "-", "*", "%", "&", "^"} ELSE {"-", "%"},
                        l \in {x \in S : x.e # "lit"}, r \in S}
      \cup {Binary("<<", x, IntLit("u", 4, 1, FALSE)) : x \in {x \in S : x.e # "lit"}}
Shifted(S) == {Binary(">>", x, IntLit("u", 4, 1, FALSE)) : x \in S}
IntStatements(n) ==
    LET us == IntArith(n, Us(n))
        is == IntArith(n, Is(n))
        signed == is \cup {Unary("-", x) : x \in is} \cup {Unary("!", x) : x \in is}
    IN {Out(n, FromU(n, e)) : e \in us \cup Shifted(us)}
         \cup {Out(n, FromU(n, Cast("u", n, e))) : e \in signed \cup Shifted(signed)}
         \cup {Cond(Binary(c, l, r)) : c \in {"<", "=="}, l \in us, r \in Us(n)}
         \cup {Cond(Binary(c, l, r)) : c \in {"<", ">="}, l \in is \cup Shifted(is), r \in Is(n)}

(* Conditions, selections, wires and indices. *)
OtherStatements(n) ==
    LET eq == Binary("==", A, B)
        lt == Binary("<", AsU(n, A), AsU(n, B))
        slt == Binary("<", Cast("i", n, AsU(n, A)), Cast("i", n, AsU(n, B)))
    IN {Cond(e) : e \in {eq, Unary("!", eq), Binary("&&", Unary("!", lt), slt), Binary("||", lt, slt)}}
         \cup {Out(n, IfExpr(c, One(n), Zero(n))) : c \in {eq, lt, slt}}
         \cup {Out(n, IfExpr(slt, Asr(A, 1), B))}
         \cup {Out(1, Index(x, i)) : x \in {A, Binary("+", A, B)}, i \in 0 .. n-1}
         \cup {Statement(Binary(op, A, B), NoWidth, Binary("^", T, A), "out", n) : op \in {"+", "&"}}
         \cup {Statement(lt, NoWidth, Unary("!", T), "cond", 1)}
         \cup {Statement(Cast("i", n, AsU(n, A)), n, Binary("<", Cast("i", n, T), Cast("i", n, AsU(n, B))), "cond", 1)}
         \cup {Statement(AsU(4, x), ann, T, "index", m) : x \in {A, Binary("-", A, B)}, ann \in {NoWidth, 4}, m \in 1 .. 2}

Statements(n) ==
    {Out(n, e) : e \in BitsExprs(n)}
      \cup (IF n \in 2 .. 3 THEN OtherStatements(n) \cup IntStatements(n) ELSE {})

(* ((a as i) >> 1) + (b as i). *)
ShiftInSum(n) ==
    LET signed(x) == Cast("i", n, AsU(n, x))
        sum == Binary("+", Binary(">>", signed(A), IntLit("u", 4, 1, FALSE)), signed(B))
    IN IF n = 3 THEN {Out(n, FromU(n, Cast("u", n, sum)))} ELSE {}
=============================================================================
