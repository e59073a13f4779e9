------------------------------ MODULE MCEval ------------------------------
(* GriftEval on sessions in a small Lisp.  The expressions of "Pure" are   *)
(* generated: every nesting of two of the forms below around the atoms 1,  *)
(* x and (gc-collect), so that a collection happens at every point where   *)
(* an evaluation can wait.  The other sessions are written out.            *)
EXTENDS GriftEval

MCSlots   == [i \in 1..120 |-> "s" \o ToString(i)]
MCSymbols == {"x", "y", "f", "e"}
MCMaxStreams == 2

Y(s)  == [k |-> "sym", s |-> s]
L(l)  == [k |-> "list", l |-> l]
Num(n) == [k |-> "num", n |-> ToString(n)]
One    == Num(1)
Str(cs) == [k |-> "str", cs |-> cs]
X     == Y("x")
F(op)          == L(<<Y(op)>>)
F1(op, a)      == L(<<Y(op), a>>)
F2(op, a, b)   == L(<<Y(op), a, b>>)
F3(op, a, b, c) == L(<<Y(op), a, b, c>>)
Let(x, v, b)   == F2("let", L(<<L(<<Y(x), v>>)>>), b)
Fn(f, x, b)    == F2("define!", L(<<Y("fn"), Y(f), Y(x)>>), b)
Lambda1(x, b)  == F2("lambda", F(x), b)
Call1(op, a)   == L(<<op, a>>)
Sym(s)         == F1("quote", Y(s))

(* Generated expressions; x and the function f are bound around them. *)
Atoms == {One, X, F("gc-collect")}
Around(S, T) ==
  UNION {{F2("cons", a, b), F2("begin", a, b), Let("y", a, F2("cons", Y("y"), b)),
          F3("if", F1("null?", a), b, X),
          F2("and", F1("null?", a), F1("null?", b)),
          F2("or", F1("null?", a), F1("not", F1("null?", b))),
          F2("cond", L(<<F1("null?", a), a>>), L(<<Y("else"), b, X>>))} : a \in S, b \in T}
  \cup {F1("f", a) : a \in S}
Depth1 == Around(Atoms, Atoms)
Depth2 == Depth1 \cup Around(Depth1, {X}) \cup Around({X}, Depth1)

DefineX == F2("define!", X, F2("cons", One, One))
DefineF == Fn("f", "x", F2("begin", F("gc-collect"), F2("cons", X, X)))
Loop    == F3("if", F1("null?", X), F2("cons", X, X), F1("f", F1("cdr", X)))
Plain == {
  <<Fn("f", "x", Loop), F1("f", F1("quote", L(<<One, One, One>>)))>>,
  <<F3("let", Y("f"), L(<<L(<<X, F1("list", One)>>)>>), Loop)>>,
  <<Let("x", F2("cons", One, One), F2("cons", X, X))>> }

(* Calculations with integers from -4 to 3, one within another, and        *)
(* predicates of objects of all kinds, strings and improper ones among     *)
(* them.                                                                   *)
MCNumbers == {Num(-3), Num(-1), Num(2)}
Inner   == {F2(op, a, b) : op \in {"+", "-", "*", "/"}, a, b \in MCNumbers}
           \cup {F1("-", Num(-3)), F("+"), F("*"), F2("<", One, One)}
Outer   == UNION {{F2(op, a, n), F2(op, n, a)} : op \in {"+", "-", "*", "/", "<", ">="},
                                                 a \in Inner, n \in MCNumbers}
           \cup {F1("-", a) : a \in Inner} \cup {F3(op, n, n, n) : op \in {"+", "-", "*"}, n \in MCNumbers}
Objects == {One, L(<<>>), Sym("x"), Y("#t"), Y("#inert"), Y("#ignore"), Str(<<"h">>),
            Str(<<"h", "e">>), F2("cons", Str(<<"h">>), Str(<<"e">>)),
            F2("cons", Str(<<"h">>), One), X, F2("cons", One, One), F2("cons", X, Str(<<"h">>)),
            Lambda1("x", X)}
Scalars == {One, L(<<>>), Sym("x"), Sym("y"), Y("#t"), Y("#f"), Y("#inert"), Str(<<"h">>), Str(<<"e">>)}
Asked   == {F2("equal?", a, b) : a, b \in Objects \ {Lambda1("x", X)}}
           \cup {F2("eq?", a, b) : a, b \in Scalars \cup Objects}
           \cup {F2(p \o "?", a, b) : p \in {"pair", "applicative", "null", "boolean", "number",
                    "symbol", "inert", "ignore", "operative", "environment"}, a, b \in Objects}
           \cup {F1(op, a) : op \in {"car", "cdr", "not"}, a \in Objects}
           \cup {F2("cons", a, b) : a, b \in Objects}
           \cup {F2("cons", F1("car", Str(<<"h", "e">>)), F1("cdr", Str(<<"h", "e">>)))}

(* Where the code is known not to do what LANGUAGE.md says: the least      *)
(* integer divided by -1, and eq? of two strings of one character.         *)
LeastByMinusOne(e) ==
  /\ e.l[1] = Y("/")
  /\ Semantics!ValueIn(e.l[2], << >>) = Semantics!Numeral(-MaxInt - 1)
  /\ Semantics!ValueIn(e.l[3], << >>) = Semantics!Numeral(-1)
Disputed == {e \in Outer : LeastByMinusOne(e)}
            \cup {F2("eq?", Str(<<c>>), Str(<<c>>)) : c \in {"h", "e"}}

Pure == {<<DefineX, DefineF, e>> : e \in Depth2} \cup Plain
        \cup {<<e>> : e \in Outer \ Disputed} \cup {<<DefineX, e>> : e \in Asked \ Disputed}
DisputedAlone == {<<e>> : e \in Disputed}

(* Sessions with effects, environments as values, fexprs and errors. *)
Effects == {
  <<DefineX, F2("define!", Y("e"), F("current-environment")), F3("set!", Y("e"), X, One), X>>,
  <<F2("define!", Y("f"), F3("vau", L(<<X>>), Y("e"), F2("eval", X, Y("e")))),
    F1("f", F2("cons", One, One))>>,
  <<F2("define!", Y("f"), F1("wrap", F2("lambda", L(<<X>>), X))), F1("f", One)>>,
  <<F2("define!", Y("f"), F1("wrap", Y("cons"))), F2("f", One, F("gc-collect"))>>,
  <<F2("define!", Y("e"), F2("make-environment", F("make-environment"),
                             F("current-environment"))),
    F2("eval", F1("quote", F2("define!", Y("y"), One)), Y("e")),
    F2("eval", F1("quote", F2("list", Y("y"), Y("f"))), Y("e")), Y("y")>>,
  <<F2("define!", L(<<X, Y("y")>>), F2("list", One, One)), L(<<Y("let"), L(<<>>), X, Y("y")>>),
    F2("define!", L(<<X, X>>), One), F2("define!", X, F3("vau", L(<<X>>), X, X))>>,
  <<F("begin"), F2("if", Y("#f"), One), F3("begin", X, One, One), Call1(One, One), F("x")>>,
  <<F2("cons", One, F1("car", One)), F2("cons", One, One), F1("error", One),
    L(<<F1("unwrap", Y("cons")), One, One>>)>>,
  <<F1("and", One), F2("and", One, One), F2("or", F1("null?", One), One), F("cond"),
    F1("cond", L(<<One, One>>)), F1("not", One)>>,
  <<F2("apply", Y("cons"), F2("list", One, One)),
    F3("apply", F1("wrap", F2("lambda", F("x"), X)), F1("list", One), F("current-environment"))>>,
  <<F2("apply", Y("apply"), F2("list", Y("car"), F1("list", F1("list", One)))),
    F2("apply", One, F("list"))>>,
  <<F2("+", One, F2("*", One, Num(2))), F1("car", Str(<<"h", "e">>)),
    F2("cons", Str(<<"h">>), Str(<<"e">>)), F2("/", One, Num(0))>>,
  <<F2("apply", Y("+"), One), F2("apply", Y("cons"), Str(<<"h", "e">>)), F2("eval", One, F("make-empty-environment")),
    F2("equal?", X, One), F2("<", One, X)>>,
  <<F2("if", One, One), Call1(F1("wrap", One), One), F1("car", F1("unwrap", One))>> }

(* Files, and sessions that load them.  The second ends in the middle of   *)
(* an expression.                                                          *)
MCFiles == [n \in {<<"g", "o">>} |-> [trees |-> <<DefineX, F2("cons", X, X)>>, whole |-> TRUE]]
        @@ [n \in {<<"t", "o", "n">>} |-> [trees |-> <<One>>, whole |-> FALSE]]
Load(n) == F1("load", Str(n))
Loading == { <<Load(<<"g", "o">>), Load(<<"n", "o">>), X, Load(<<"t", "o", "n">>), F1("load", One)>>,
             <<Load(<<"t", "o", "n">>), Load(<<"t", "o", "n">>), Load(<<"g", "o">>)>> }

(* A combiner that no environment and no root holds. *)
Inline == {<<L(<<Lambda1("x", X), F("gc-collect")>>)>>}

(* A let whose initial value means something else in its own environment.  *)
LetAgain == {<<DefineX, F3("let", L(<<L(<<X, F2("cons", X, One)>>)>>), One, X)>>}

(* The same expression again and again. *)
Repeated == {<<One, One, One, One, One, One, One, One>>}

All == Effects \cup Plain \cup Inline \cup Loading \cup LetAgain
Ample == {90}
Tight == 3..120
===========================================================================
