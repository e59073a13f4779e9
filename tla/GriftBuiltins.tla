--------------------------- MODULE GriftBuiltins ---------------------------
(***************************************************************************)
(* The applicatives of eval.rs that evaluate nothing: pairs and strings,   *)
(* arithmetic on integers of a fixed width, comparison, type predicates    *)
(* and equality.  Each is a function of the memory and of the list of its  *)
(* arguments, which apply may make anything: an improper list, a string.   *)
(***************************************************************************)
EXTENDS GriftLisp

CONSTANT MaxInt    \* isize::MAX; the least integer is one further from zero

ASSUME BuiltinsAssumption == MaxInt \in Nat

(* Numbers are kept as numerals.  What gc-collect counts is not, and no    *)
(* session calculates with it.                                             *)
Ints        == (-MaxInt - 1) .. MaxInt
NumberOf(i) == CHOOSE n \in Ints : ToString(n) = i
Number(m, n) == Alloc(m, Cell("Number", ToString(n), "nil"))
AsNumber(m, i) == NumberOf(At(m, i).a)
NumberArg(m) == Expect(m, m.val, {"Number"})    \* what was returned, as a number

Checked(m, n) == IF n \in Ints THEN Number(m, n) ELSE Fail(m, "ArithmeticOverflow")

Applied(op, a, b) == CASE op = "+" -> a + b
                       [] op = "-" -> a - b
                       [] op = "*" -> a * b

(* fold_numbers: every intermediate result has to fit. *)
RECURSIVE FoldNumbers(_, _, _, _)
FoldNumbers(m, l, acc, op) ==
  LET x == NumberArg(Car(m, l))
      r == Applied(op, acc, AsNumber(x, x.val))
  IN  IF Failed(m) \/ l = "nil" THEN Number(m, acc)
      ELSE IF Failed(x) THEN x
      ELSE IF r \notin Ints THEN Fail(m, "ArithmeticOverflow")
      ELSE FoldNumbers(m, At(m, l).d, r, op)

Subtract(m, args) ==
  LET x     == NumberArg(Car(m, args))
      first == AsNumber(x, x.val)
      rest  == Cdr(x, args)
  IN  IF args = "nil" THEN Fail(m, "InvalidArgument")
      ELSE IF Failed(rest) THEN rest
      ELSE IF rest.val = "nil" THEN Checked(m, -first)
      ELSE FoldNumbers(m, rest.val, first, "-")

(* The first two arguments as numbers; any others are not looked at. *)
TwoNumbers(m, args) == LET x == NumberArg(Car(m, args))
                       IN  NumberArg(Cadr(x, args))
First(m, args)  == AsNumber(m, At(m, args).a)
Second(m, args) == AsNumber(m, At(m, At(m, args).d).a)

Abs(n) == IF n < 0 THEN -n ELSE n
Truncated(a, b) == IF (a < 0) = (b < 0) THEN Abs(a) \div Abs(b) ELSE -(Abs(a) \div Abs(b))

(* Of the least integer by -1 there is no quotient, and Rust's own check   *)
(* panics.                                                                 *)
Divide(m, args) ==
  LET x == TwoNumbers(m, args)
      q == Truncated(First(m, args), Second(m, args))
  IN  IF Failed(x) THEN x
      ELSE IF Second(m, args) = 0 THEN Fail(x, "DivisionByZero")
      ELSE IF q \notin Ints THEN Fail(x, "panic")
      ELSE Number(x, q)

Boolean(b) == IF b THEN "#t" ELSE "#f"
Comparison(op, a, b) == CASE op = "="  -> a = b
                          [] op = "<"  -> a < b
                          [] op = ">"  -> a > b
                          [] op = "<=" -> a <= b
                          [] op = ">=" -> a >= b
Compare(m, args, op) ==
  LET x == TwoNumbers(m, args)
  IN  IF Failed(x) THEN x
      ELSE Give(x, Boolean(Comparison(op, First(m, args), Second(m, args))))
-----------------------------------------------------------------------------
(* Type predicates end at the first argument of another type. *)
KindsOf == "null?" :> {"Nil"} @@ "pair?" :> {"Cons", "CharPair"} @@ "number?" :> {"Number"}
  @@ "symbol?" :> {"Symbol"} @@ "boolean?" :> {"Boolean"} @@ "inert?" :> {"Inert"}
  @@ "ignore?" :> {"Ignore"} @@ "operative?" :> {"Operative", "Builtin"}
  @@ "applicative?" :> {"Applicative"} @@ "environment?" :> {"Environment"}

RECURSIVE AllOf(_, _, _)
AllOf(m, l, kinds) ==
  LET x == Car(m, l) IN
  CASE l = "nil" -> Give(m, "#t")
    [] Failed(x) -> x
    [] Kind(m, x.val) = "Free" -> Get(m, x.val)
    [] Kind(m, x.val) \notin kinds -> Give(m, "#f")
    [] OTHER -> AllOf(m, At(m, l).d, kinds)

(* eq?: cells of the immutable kinds are one object when they hold the     *)
(* same; strings too, if they have the same first character and share the  *)
(* rest.                                                                   *)
Immutable == {"Nil", "Boolean", "Number", "Symbol", "CharPair", "Inert", "Ignore"}
IsEq(m, a, b) ==
  LET x == Get(Get(m, a), b)
  IN  IF a = b THEN Give(m, "#t")
      ELSE IF Failed(x) THEN x
      ELSE Give(m, Boolean(/\ Kind(m, a) = Kind(m, b)
                           /\ Kind(m, a) \in Immutable
                           /\ At(m, a) = At(m, b)))

RECURSIVE StringsEqual(_, _, _)
StringsEqual(m, a, b) ==
  LET x == Expect(Expect(m, a, {"CharPair"}), b, {"CharPair"})
  IN  IF "nil" \in {a, b} THEN Give(m, Boolean(a = b))
      ELSE IF Failed(x) THEN x
      ELSE IF At(m, a).a # At(m, b).a THEN Give(m, "#f")
      ELSE StringsEqual(m, At(m, a).d, At(m, b).d)

RECURSIVE IsEqual(_, _, _)
IsEqual(m, a, b) ==
  LET same    == IsEq(m, a, b)
      both(k) == Kind(m, a) = k /\ Kind(m, b) = k
      cars    == IsEqual(m, At(m, a).a, At(m, b).a)
  IN  IF Failed(same) \/ same.val = "#t" THEN same
      ELSE IF both("CharPair") THEN StringsEqual(m, a, b)
      ELSE IF ~both("Cons") THEN same
      ELSE IF Failed(cars) \/ cars.val = "#f" THEN cars
      ELSE IsEqual(m, At(m, a).d, At(m, b).d)
-----------------------------------------------------------------------------
(* car_char and cdr_char: a string is a chain of characters.  Its car is a *)
(* string of one character, newly made.                                    *)
CarChar(m, i) == IF ~Failed(m) /\ Kind(m, i) = "CharPair"
                 THEN Alloc(m, Cell("CharPair", At(m, i).a, "nil"))
                 ELSE Car(m, i)
CdrChar(m, i) == Give(Expect(m, i, {"Cons", "CharPair"}), At(m, i).d)

(* A string of one character in front of anything makes a string of both,  *)
(* whatever the other is.                                                  *)
ConsValues(m, args) ==
  LET x == CarChar(m, args)
      y == CdrChar(x, args)
      z == CarChar(y, y.val)
  IN  IF ~Failed(z) /\ Kind(z, x.val) = "CharPair" /\ At(z, x.val).d = "nil"
      THEN Alloc(z, Cell("CharPair", At(z, x.val).a, z.val))
      ELSE NewCons(Get(z, x.val), x.val, z.val)

(* apply_builtin_pure, but for eval and apply, which evaluate. *)
ApplyPure(m, name, args) ==
  LET x == Car(m, args)
      y == Cadr(x, args)
      p == CarChar(m, args)
  IN
  CASE name = "cons"   -> ConsValues(m, args)
    [] name = "car"    -> CarChar(p, p.val)
    [] name = "cdr"    -> CdrChar(p, p.val)
    [] name = "list"   -> Give(m, args)
    [] name = "+"      -> FoldNumbers(m, args, 0, "+")
    [] name = "*"      -> FoldNumbers(m, args, 1, "*")
    [] name = "-"      -> Subtract(m, args)
    [] name = "/"      -> Divide(m, args)
    [] name \in Comparisons -> Compare(m, args, name)
    [] name \in DOMAIN KindsOf -> AllOf(m, args, KindsOf[name])
    [] name = "not"    -> Give(Expect(x, x.val, {"Boolean"}), Boolean(x.val = "#f"))
    [] name = "eq?"    -> IF Failed(y) THEN y ELSE IsEq(y, x.val, y.val)
    [] name = "equal?" -> IF Failed(y) THEN y ELSE IsEqual(y, x.val, y.val)
    [] name = "wrap"   -> Wrap(x)
    [] name = "unwrap" -> Unwrap(x, x.val)
    [] name = "error"  -> Fail(m, "InvalidArgument")
    [] name = "gc-collect" -> Alloc(Collect(m, {}), Cell("Number", "n", "nil"))
    [] name = "make-empty-environment" -> MakeEnv(m, "nil")
    [] name = "make-environment" ->
         LET envs == AllOf(m, args, {"Environment"})
         IN  IF envs.val = "#f" THEN Fail(envs, "TypeError")
             ELSE MakeEnvOf(MapList(envs, args, "self"))
============================================================================
