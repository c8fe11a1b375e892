-------------------------------- MODULE Fir --------------------------------
(***************************************************************************)
(* The body of a hardware module as the transpiler captures it (the        *)
(* frontend IR, FIR), reduced to what decides timing and values: locals,   *)
(* assignments, port writes, memory accesses, clock edges and control.     *)
(* Names are strings, an expression is a tuple and a statement a record.   *)
(***************************************************************************)
EXTENDS Naturals, Sequences, SequencesExt

(* F of every element of a sequence, as a sequence or concatenated. *)
Each(s, F(_))    == FoldLeft(LAMBDA acc, e : Append(acc, F(e)), <<>>, s)
FlatMap(s, F(_)) == FoldLeft(LAMBDA acc, e : acc \o F(e), <<>>, s)

(* Expressions. *)
Lit(n)         == <<"lit", n>>
Var(x)         == <<"var", x>>
Read(p)        == <<"in", p>>
Not(e)         == <<"not", e>>
Bin(op, a, b)  == <<"bin", op, a, b>>
Mux(c, a, b)   == <<"mux", c, a, b>>            \* a value-producing `if`
Case(e, arms, d) == <<"case", e, arms, d>>      \* a value-producing `match`
Data(m)        == <<"data", m>>                 \* the output of a memory's read port
Ready(m)       == <<"ready", m>>                \* is_ready() of it
Zeros          == <<"zeros">>                   \* [Bits::zero(); N]
Elem(x, i)     == <<"elem", x, i>>              \* a word of an array

(* Statements.  A match arm with pattern Wild matches everything. *)
Wild           == 99
Let(x, e)      == [k |-> "let", x |-> x, e |-> e]
Set(x, e)      == [k |-> "set", x |-> x, e |-> e]
SetElem(x, i, e) == [k |-> "eset", x |-> x, i |-> i, e |-> e]
SetAll(xs, es) == [k |-> "tset", xs |-> xs, es |-> es]   \* (x, y) = (e, f)
Write(p, e)    == [k |-> "write", x |-> p, e |-> e]
MemRead(m, e)  == [k |-> "mread", x |-> m, e |-> e]
MemWrite(m, e, v) == [k |-> "mwrite", x |-> m, e |-> e, v |-> v]
Tick           == [k |-> "tick"]
If(c, a, b)    == [k |-> "if", e |-> c, a |-> a, b |-> b]
Arm(p, body)   == [p |-> p, a |-> body]
Match(e, arms) == [k |-> "match", e |-> e, arms |-> arms]
Loop(body)     == [k |-> "loop", a |-> body]
While(c, body) == [k |-> "while", e |-> c, a |-> body]
For(x, lo, hi, body) == [k |-> "for", x |-> x, lo |-> lo, hi |-> hi, a |-> body]
Break          == [k |-> "break"]
Continue       == [k |-> "continue"]

(* The statement lists directly inside a statement. *)
Blocks(s) ==
    CASE s.k = "if"    -> <<s.a, s.b>>
      [] s.k = "match" -> [i \in DOMAIN s.arms |-> s.arms[i].a]
      [] s.k \in {"loop", "while", "for"} -> <<s.a>>
      [] OTHER -> <<>>

(* The expressions directly inside an expression, in source order. *)
Operands(e) ==
    CASE e[1] = "not"  -> <<e[2]>>
      [] e[1] = "bin"  -> <<e[3], e[4]>>
      [] e[1] = "elem" -> <<e[3]>>
      [] e[1] = "mux"  -> <<e[2], e[3], e[4]>>
      [] e[1] = "case" -> <<e[2]>> \o [i \in DOMAIN e[3] |-> e[3][i][2]] \o <<e[4]>>
      [] OTHER -> <<>>

(* e with F applied to its operands. *)
MapOperands(e, F(_)) ==
    CASE e[1] = "not"  -> Not(F(e[2]))
      [] e[1] = "bin"  -> Bin(e[2], F(e[3]), F(e[4]))
      [] e[1] = "elem" -> Elem(e[2], F(e[3]))
      [] e[1] = "mux"  -> Mux(F(e[2]), F(e[3]), F(e[4]))
      [] e[1] = "case" -> Case(F(e[2]), [i \in DOMAIN e[3] |-> <<e[3][i][1], F(e[3][i][2])>>], F(e[4]))
      [] OTHER -> e

(* The expressions directly inside a statement, in source order. *)
Exprs(s) ==
    CASE s.k \in {"let", "set", "write", "mread", "if", "match", "while"} -> <<s.e>>
      [] s.k = "mwrite" -> <<s.e, s.v>>
      [] s.k = "eset"   -> <<s.i, s.e>>
      [] s.k = "for"    -> <<s.lo, s.hi>>
      [] s.k = "tset"   -> s.es
      [] OTHER -> <<>>

(* The names an expression mentions as one kind of thing ("var", "in",     *)
(* "data", "ready" or "elem"), in source order.                            *)
RECURSIVE Leafs(_, _)
Leafs(e, kind) ==
    (IF e[1] = kind THEN <<e[2]>> ELSE <<>>) \o FlatMap(Operands(e), LAMBDA o : Leafs(o, kind))

Names(e) == UNION {ToSet(Leafs(e, kind)) : kind \in {"var", "in", "data", "ready", "elem"}}

(* The locals a statement binds or assigns itself. *)
Targets(s) == CASE s.k \in {"let", "set", "eset"} -> {s.x}
                [] s.k = "tset" -> ToSet(s.xs)
                [] OTHER -> {}

(* The names of those leaves anywhere in a statement. *)
RECURSIVE Mentions(_, _)
Mentions(s, kind) ==
    UNION {ToSet(Leafs(e, kind)) : e \in ToSet(Exprs(s))}
      \cup UNION {UNION {Mentions(t, kind) : t \in ToSet(b)} : b \in ToSet(Blocks(s))}

IsLoop(s) == s.k \in {"loop", "while", "for"}

(* s with F applied to its expressions. *)
MapExprs(s, F(_)) ==
    [f \in DOMAIN s |-> CASE f \in {"e", "v", "i", "lo", "hi"} -> F(s[f])
                          [] f = "es" -> [j \in DOMAIN s.es |-> F(s.es[j])]
                          [] OTHER -> s[f]]

(* s with its blocks replaced: by the list bs, or each block b by F(b). *)
WithBlocks(s, bs) ==
    CASE s.k = "if"    -> [s EXCEPT !.a = bs[1], !.b = bs[2]]
      [] s.k = "match" -> [s EXCEPT !.arms = [i \in DOMAIN s.arms |-> [s.arms[i] EXCEPT !.a = bs[i]]]]
      [] IsLoop(s)     -> [s EXCEPT !.a = bs[1]]
      [] OTHER -> s

MapBlocks(s, F(_)) == WithBlocks(s, Each(Blocks(s), F))
=============================================================================
