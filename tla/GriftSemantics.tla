-------------------------- MODULE GriftSemantics --------------------------
(***************************************************************************)
(* What the evaluator of GriftEval should answer: the value of a syntax    *)
(* tree, defined by recursion on the tree, with no heap, no root stack and *)
(* no collections, or the error it ends with.  It covers expressions       *)
(* without effects (no set! and no environments as values; define! is left *)
(* to the caller) in which no builtin's name is rebound, what is called is *)
(* a combiner and has as many operands as it needs, no improper string is  *)
(* compared with itself, and eq? is called by its name, on variables and   *)
(* on what its own operands make.  Where LANGUAGE.md and the code disagree *)
(* (arithmetic that does not fit, eq? of strings) it says what LANGUAGE.md *)
(* does.                                                                   *)
(***************************************************************************)
EXTENDS Integers, SequencesExt

CONSTANT MaxInt

Atom(s)      == [k |-> "atom", a |-> s]
PairOf(a, d) == [k |-> "pair", a |-> a, d |-> d]
CharOf(c, d) == [k |-> "char", c |-> c, d |-> d]    \* a string
Closure(ps, body, env) == [k |-> "closure", params |-> ps, body |-> body, env |-> env]
Bad(e)       == [k |-> "bad", e |-> e]
Truth(b)     == Atom(IF b THEN "#t" ELSE "#f")
Nil          == Atom("nil")

RECURSIVE ListOf(_), StringOf(_)
ListOf(vs)   == IF vs = << >> THEN Nil ELSE PairOf(Head(vs), ListOf(Tail(vs)))
StringOf(cs) == IF cs = << >> THEN Nil ELSE CharOf(Head(cs), StringOf(Tail(cs)))

RECURSIVE Datum(_)
Datum(t) == CASE t.k = "num" -> Atom(t.n)
              [] t.k = "sym" -> Atom(t.s)
              [] t.k = "str" -> StringOf(t.cs)
              [] t.k = "list" -> ListOf([i \in DOMAIN t.l |-> Datum(t.l[i])])

(* The first error among the values, or else v. *)
Wrong(v)      == v.k = "bad"
Unless(vs, v) == IF \E i \in DOMAIN vs : Wrong(vs[i]) THEN SelectSeq(vs, Wrong)[1] ELSE v
Tested(v, yes, no) == CASE Wrong(v)          -> v
                        [] v = Truth(TRUE)  -> yes
                        [] v = Truth(FALSE) -> no
                        [] OTHER -> Bad("TypeError")
-----------------------------------------------------------------------------
(* Integers, of which a program has those that fit. *)
Ints        == (-MaxInt - 1) .. MaxInt
Numeral(n)  == Atom(ToString(n))
IsNumber(v) == v \in {Numeral(n) : n \in Ints}
IntOf(v)    == CHOOSE n \in Ints : Numeral(n) = v
Fits(n)     == IF n \in Ints THEN Numeral(n) ELSE Bad("ArithmeticOverflow")
Numbers(vs, v) == IF \A i \in DOMAIN vs : IsNumber(vs[i]) THEN v ELSE Bad("TypeError")

Exactly(op, a, b) == CASE op = "+" -> a + b
                       [] op = "-" -> a - b
                       [] op = "*" -> a * b

(* From the left; the first operand that is no number, or the first result *)
(* that does not fit, is the error.                                        *)
RECURSIVE Folded(_, _, _)
Folded(op, first, vs) ==
  IF vs = << >> \/ Wrong(first) THEN first
  ELSE Folded(op, Numbers(<<Head(vs)>>, Fits(Exactly(op, IntOf(first), IntOf(Head(vs))))), Tail(vs))

Magnitude(n) == IF n < 0 THEN -n ELSE n
(* The remainder has the sign of the dividend.  One quotient does not fit  *)
(* (LANGUAGE.md:348: overflow signals ArithmeticOverflow).                 *)
Quotient(a, b) ==
  IF b = 0 THEN Bad("DivisionByZero")
  ELSE LET q == CHOOSE q \in -(MaxInt + 1) .. MaxInt + 1 :
                  LET r == a - q * b
                  IN  Magnitude(r) < Magnitude(b) /\ (r # 0 => (r < 0) = (a < 0))
       IN  Fits(q)

Compared(op, a, b) == Truth(CASE op = "="  -> a = b
                              [] op = "<"  -> a < b
                              [] op = ">"  -> a > b
                              [] op = "<=" -> a <= b
                              [] op = ">=" -> a >= b)

KindOf(v) == CASE v.k \in {"pair", "char"} -> "pair"
               [] v.k = "closure" -> "applicative"
               [] v = Nil -> "null"
               [] v \in {Truth(TRUE), Truth(FALSE)} -> "boolean"
               [] v = Atom("#inert")  -> "inert"
               [] v = Atom("#ignore") -> "ignore"
               [] IsNumber(v) -> "number"
               [] OTHER -> "symbol"
Kinds == {"pair", "applicative", "null", "boolean", "number", "symbol", "inert", "ignore",
          "operative", "environment"}

(* eq? of the values of ts: scalars are one object when they are alike,    *)
(* what is constructed only when both names denote it (LANGUAGE.md:430).   *)
Scalar(v) == v.k = "atom" /\ KindOf(v) \in {"null", "boolean", "number", "symbol", "inert", "ignore"}
Same(ts, vs) == Truth(vs[1] = vs[2] /\ (Scalar(vs[1]) \/ (ts[1].k = "sym" /\ ts[1] = ts[2])))

(* equal?: of pairs, the cars first; strings up to where they differ. *)
RECURSIVE Alike(_, _)
Alike(v, w) ==
  CASE v.k = "pair" /\ w.k = "pair" -> Tested(Alike(v.a, w.a), Alike(v.d, w.d), Truth(FALSE))
    [] v.k = "char" /\ w.k = "char" ->
         IF v.c # w.c THEN Truth(FALSE)
         ELSE IF Nil \in {v.d, w.d} THEN Truth(v.d = w.d)
         ELSE IF v.d.k # "char" \/ w.d.k # "char" THEN Bad("TypeError")
         ELSE Alike(v.d, w.d)
    [] OTHER -> Truth(v = w)
-----------------------------------------------------------------------------
NamesIn(t)  == [i \in DOMAIN t.l |-> t.l[i].s]        \* a parameter list
FirstOf(t)  == [i \in DOMAIN t.l |-> t.l[i].l[1].s]   \* the names of a binding list
SecondOf(t) == [i \in DOMAIN t.l |-> t.l[i].l[2]]     \* and its values

Bind(env, names, vals) == [n \in ToSet(names) |-> vals[CHOOSE i \in DOMAIN names : names[i] = n]] @@ env

RECURSIVE ValueIn(_, _), Args(_, _), Clauses(_, _), Short(_, _, _)
Args(ts, env) == IF ts = << >> THEN << >> ELSE <<ValueIn(Head(ts), env)>> \o Args(Tail(ts), env)

Sequence(ts, env) == LET vs == Args(ts, env)
                     IN  IF ts = << >> THEN Nil ELSE Unless(vs, Last(vs))

Clauses(cs, env) ==
  IF cs = << >> THEN Nil
  ELSE LET c    == cs[1].l
           body == Sequence(Tail(c), env)
       IN  IF c[1] = [k |-> "sym", s |-> "else"] THEN body
           ELSE Tested(ValueIn(c[1], env), body, Clauses(Tail(cs), env))

(* and, or: the tests go on while they are "goes_on". *)
Short(ts, env, goes_on) ==
  IF ts = << >> THEN Truth(goes_on)
  ELSE LET rest == Short(Tail(ts), env, goes_on)
           v    == ValueIn(Head(ts), env)
       IN  IF goes_on THEN Tested(v, rest, v) ELSE Tested(v, v, rest)

(* A closure is applied in its own environment; a recursive one is bound   *)
(* to its name there.                                                      *)
Apply(f, vs) ==
  LET self  == IF "name" \in DOMAIN f THEN f.name :> f ELSE << >>
      v     == vs[1]
      two(x) == Numbers(SubSeq(vs, 1, 2), x)
  IN  CASE f.k = "closure" -> Sequence(f.body, Bind(self @@ f.env, f.params, vs))
        [] f.a = "cons"  -> IF v.k = "char" /\ v.d = Nil THEN CharOf(v.c, vs[2])
                                                         ELSE PairOf(v, vs[2])
        [] f.a = "car"   -> CASE v.k = "pair" -> v.a
                              [] v.k = "char" -> CharOf(v.c, Nil)
                              [] OTHER -> Bad("TypeError")
        [] f.a = "cdr"   -> IF v.k \in {"pair", "char"} THEN v.d ELSE Bad("TypeError")
        [] f.a = "list"  -> ListOf(vs)
        [] f.a = "not"   -> Tested(v, Truth(FALSE), Truth(TRUE))
        [] f.a = "+"     -> Folded("+", Numeral(0), vs)
        [] f.a = "*"     -> Folded("*", Numeral(1), vs)
        [] f.a = "-"     -> IF Len(vs) = 1 THEN Folded("-", Numeral(0), vs)
                            ELSE Numbers(<<v>>, Folded("-", v, Tail(vs)))
        [] f.a = "/"     -> two(Quotient(IntOf(v), IntOf(vs[2])))
        [] f.a \in {"=", "<", ">", "<=", ">="} -> two(Compared(f.a, IntOf(v), IntOf(vs[2])))
        [] f.a \in {k \o "?" : k \in Kinds} -> Truth(\A i \in DOMAIN vs : KindOf(vs[i]) \o "?" = f.a)
        [] f.a = "equal?" -> Alike(v, vs[2])

Recursive(name, c) == [k |-> "closure", name |-> name, params |-> c.params, body |-> c.body,
                       env |-> c.env]

ValueIn(t, env) ==
  IF t.k \in {"num", "str"} THEN Datum(t)
  ELSE IF t.k = "sym" THEN IF t.s \in DOMAIN env THEN env[t.s] ELSE Atom(t.s)
  ELSE IF t.l = << >> THEN Nil
  ELSE LET op   == t.l[1]
           rest == Tail(t.l)
           named(s) == op.k = "sym" /\ op.s = s
           apply(f, ts) == LET vs == Args(ts, env) IN Unless(<<f>> \o vs, Apply(f, vs))
       IN  CASE named("quote")  -> Datum(rest[1])
             [] named("if")     -> Tested(ValueIn(rest[1], env), ValueIn(rest[2], env),
                                          Sequence(SubSeq(rest, 3, Len(rest)), env))
             [] named("begin")  -> Sequence(rest, env)
             [] named("cond")   -> Clauses(rest, env)
             [] named("and")    -> Short(rest, env, TRUE)
             [] named("or")     -> Short(rest, env, FALSE)
             [] named("lambda") -> Closure(NamesIn(rest[1]), Tail(rest), env)
             [] named("let") /\ rest[1].k = "list" ->
                  apply(Closure(FirstOf(rest[1]), Tail(rest), env), SecondOf(rest[1]))
             [] named("let") /\ rest[1].k = "sym" ->
                  apply(Recursive(rest[1].s,
                                  Closure(FirstOf(rest[2]), SubSeq(rest, 3, Len(rest)), env)),
                        SecondOf(rest[2]))
             [] named("gc-collect") -> Atom("n")
             [] named("eq?") -> LET vs == Args(rest, env) IN Unless(vs, Same(rest, vs))
             [] OTHER -> apply(ValueIn(op, env), rest)

RECURSIVE Shown(_)   \* what can be printed of a value
Shown(v) == CASE v.k = "pair" -> PairOf(Shown(v.a), Shown(v.d))
              [] v.k = "char" -> CharOf(v.c, Shown(v.d))
              [] v.k = "closure" -> Atom("closure")
              [] OTHER -> v
===========================================================================
