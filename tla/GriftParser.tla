---------------------------- MODULE GriftParser ----------------------------
(***************************************************************************)
(* The reader and the writer of s-expressions: parse.rs over any source of *)
(* characters, and the machine-readable half of fmt_value.  A text is a    *)
(* sequence of characters, a datum a tree; what the arena holds of it is   *)
(* reduced to the number of cells each step takes and to the set of        *)
(* symbols interned, since a parse shares nothing it builds.               *)
(*                                                                         *)
(* s is where the parser stands: the position in the text, the cells left, *)
(* and the names interned.  A parse returns a datum or an error, and the   *)
(* state it has got to; like Rust's ?, Then passes an error on.            *)
(***************************************************************************)
EXTENDS Integers, Sequences, FiniteSets, TLC

CONSTANT MaxInt       \* isize::MAX; the least integer is -MaxInt - 1

Nil          == [kind |-> "Nil"]
Constant(c)  == [kind |-> "Constant", name |-> c]
Number(n)    == [kind |-> "Number", value |-> n]
Symbol(s)    == [kind |-> "Symbol", name |-> s]
String(s)    == [kind |-> "String", chars |-> s]      \* s is not empty
Pair(a, b)   == [kind |-> "Pair", car |-> a, cdr |-> b]

Quote     == <<"q", "u", "o", "t", "e">>
White     == {" ", "\t", "\r", "\n"}
Delimiter == White \cup {"(", ")", "\"", ";"}

Done(v, s) == [ok |-> TRUE,  val |-> v, s |-> s]
Stop(e, s) == [ok |-> FALSE, val |-> e, s |-> s]
Then(r, next(_, _)) == IF r.ok THEN next(r.val, r.s) ELSE r

MakingOnTick(v, k, s) ==    \* mutant: the free slots are not counted
  Done(v, [s EXCEPT !.left = @ - k])

(* k allocations in a row, and v; those before one that fails are garbage. *)
Making(v, k, s) == IF s.left >= k THEN Done(v, [s EXCEPT !.left = @ - k])
                   ELSE Stop("OutOfMemory", [s EXCEPT !.left = 0])
Cons(a, b, s)   == Making(Pair(a, b), 1, s)

More(t, i)      == i <= Len(t)
Peeks(t, i, cs) == More(t, i) /\ t[i] \in cs
Advance(s)      == [s EXCEPT !.at = @ + 1]
EndsWord(t, i)  == ~More(t, i) \/ t[i] \in Delimiter
-----------------------------------------------------------------------------
RECURSIVE Skip(_, _)
Skip(t, i) ==         \* skip_ws, from position i
  IF Peeks(t, i, White) THEN Skip(t, i + 1)
  ELSE IF Peeks(t, i, {";"})
       THEN LET ends == {k \in i .. Len(t) : t[k] = "\n"}
            IN  IF ends = {} THEN Len(t) + 1
                ELSE Skip(t, 1 + CHOOSE k \in ends : \A m \in ends : k <= m)
       ELSE i
SkipWs(t, s) == [s EXCEPT !.at = Skip(t, @)]

Digits == [d \in {"0", "1", "2", "3", "4", "5", "6", "7", "8", "9"} |->
             CASE d = "0" -> 0 [] d = "1" -> 1 [] d = "2" -> 2 [] d = "3" -> 3 [] d = "4" -> 4
               [] d = "5" -> 5 [] d = "6" -> 6 [] d = "7" -> 7 [] d = "8" -> 8 [] d = "9" -> 9]

(* parse_integer_from_chain: the set of the number the word denotes, or    *)
(* empty.  The magnitude is accumulated as a positive number, and must not *)
(* overflow on the way.                                                    *)
IntegerOf(w) ==
  LET signed == w[1] \in {"-", "+"}
      ds     == IF signed THEN Tail(w) ELSE w
      upTo[k \in 0 .. Len(ds)] == IF k = 0 THEN 0 ELSE 10 * upTo[k-1] + Digits[ds[k]]
  IN  IF ds = << >> \/ (\E k \in 1 .. Len(ds) : ds[k] \notin DOMAIN Digits) THEN {}
      ELSE IF upTo[Len(ds)] > MaxInt THEN {}
      ELSE {IF w[1] = "-" THEN -upTo[Len(ds)] ELSE upTo[Len(ds)]}

Constants == <<"#", "t">> :> "#t" @@ <<"#", "t", "r", "u", "e">> :> "#t"
          @@ <<"#", "f">> :> "#f" @@ <<"#", "f", "a", "l", "s", "e">> :> "#f"
          @@ <<"#", "i", "n", "e", "r", "t">> :> "#inert"
          @@ <<"#", "i", "g", "n", "o", "r", "e">> :> "#ignore"

(* classify_atom: a constant is a fixed slot, a number a cell; a symbol    *)
(* that is new takes one for itself and one in the list of symbols.        *)
Classify(w, s) ==
  IF w \in DOMAIN Constants THEN Done(Constant(Constants[w]), s)
  ELSE IF IntegerOf(w) # {} THEN Making(Number(CHOOSE n \in IntegerOf(w) : TRUE), 1, s)
  ELSE IF w \in s.names THEN Done(Symbol(w), s)
  ELSE Then(Making(Symbol(w), 2, s),
            LAMBDA v, s1 : Done(v, [s1 EXCEPT !.names = @ \cup {w}]))

(* parse_atom_from, the first character being the one before s.at.  Each   *)
(* character is read before its cell is allocated.                         *)
ParseAtom(t, s) ==
  LET first == s.at - 1
      end   == CHOOSE k \in s.at .. Len(t) + 1 :
                 EndsWord(t, k) /\ \A m \in s.at .. k-1 : ~EndsWord(t, m)
      w     == SubSeq(t, first, end - 1)
  IN  IF s.left < Len(w) THEN Stop("OutOfMemory", [s EXCEPT !.at = first + s.left + 1, !.left = 0])
      ELSE Classify(w, [s EXCEPT !.at = end, !.left = @ - Len(w)])

Escapes == "n" :> "\n" @@ "t" :> "\t" @@ "r" :> "\r" @@ "\\" :> "\\" @@ "\"" :> "\""

RECURSIVE ParseString(_, _, _)
ParseString(t, chars, s) ==       \* parse_string, after the characters chars
  LET escaped == t[s.at] = "\\"
      s1      == IF escaped THEN Advance(Advance(s)) ELSE Advance(s)
      ch      == IF escaped THEN Escapes[t[s.at + 1]] ELSE t[s.at]
  IN  IF ~More(t, s.at) THEN Stop("ParseError", s)
      ELSE IF t[s.at] = "\"" THEN Done(IF chars = << >> THEN Nil ELSE String(chars), Advance(s))
      ELSE IF escaped /\ ~More(t, s.at + 1) THEN Stop("ParseError", Advance(s))
      ELSE IF escaped /\ t[s.at + 1] \notin DOMAIN Escapes THEN Stop("InvalidArgument", s1)
      ELSE Then(Making(ch, 1, s1), LAMBDA c, s2 : ParseString(t, Append(chars, c), s2))

RECURSIVE ParseExpr(_, _), ParseList(_, _)

(* parse_list, somewhere behind the parenthesis.  A dot is a separator if  *)
(* the word ends there, else the first character of a symbol.              *)
DotSymbol(t, s) ==
  Then(ParseAtom(t, Advance(s)),
       LAMBDA a, s1 : Then(ParseList(t, s1), LAMBDA rest, s2 : Cons(a, rest, s2)))

DottedTail(t, car, s) ==
  Then(ParseExpr(t, Advance(s)),
       LAMBDA cdr, s1 : LET s2 == SkipWs(t, s1)
                        IN  IF Peeks(t, s2.at, {")"}) THEN Cons(car, cdr, Advance(s2))
                            ELSE Stop("ParseError", IF More(t, s2.at) THEN Advance(s2) ELSE s2))

AfterDot(t, car, s) ==      \* mutant: any dot after an element is a separator
  IF ~Peeks(t, s.at, {"."})
  THEN Then(ParseList(t, s), LAMBDA cdr, s1 : Cons(car, cdr, s1))
  ELSE DottedTail(t, car, s)

AfterFirst(t, car, s) ==
  IF ~Peeks(t, s.at, {"."})
  THEN Then(ParseList(t, s), LAMBDA cdr, s1 : Cons(car, cdr, s1))
  ELSE IF EndsWord(t, s.at + 1) THEN DottedTail(t, car, s)
  ELSE Then(DotSymbol(t, s), LAMBDA cdr, s1 : Cons(car, cdr, s1))

ParseList(t, s0) ==
  LET s == SkipWs(t, s0)
  IN  IF ~More(t, s.at) THEN Stop("ParseError", s)
      ELSE IF t[s.at] = ")" THEN Done(Nil, Advance(s))
      ELSE IF t[s.at] # "." THEN Then(ParseExpr(t, s),
                                      LAMBDA car, s1 : AfterFirst(t, car, SkipWs(t, s1)))
      ELSE IF EndsWord(t, s.at + 1) THEN Stop("ParseError", Advance(s))
      ELSE DotSymbol(t, s)

(* parse_quote: the symbol quote is interned from the start. *)
ParseQuote(t, s) ==
  Then(ParseExpr(t, s),
       LAMBDA v, s1 : Then(Cons(v, Nil, s1), LAMBDA inner, s2 : Cons(Symbol(Quote), inner, s2)))

(* parse_expr: NIL at the end of the input. *)
ParseExpr(t, s0) ==
  LET s == SkipWs(t, s0)
  IN  IF ~More(t, s.at) THEN Done(Nil, s)
      ELSE CASE t[s.at] = "("  -> ParseList(t, Advance(s))
             [] t[s.at] = "'"  -> ParseQuote(t, Advance(s))
             [] t[s.at] = "\"" -> ParseString(t, << >>, Advance(s))
             [] t[s.at] = ")"  -> Stop("ParseError", Advance(s))
             [] OTHER          -> ParseAtom(t, Advance(s))
-----------------------------------------------------------------------------
RECURSIVE Decimal(_)
Decimal(n) ==
  LET digit(k) == CHOOSE d \in DOMAIN Digits : Digits[d] = k
  IN  IF n < 0 THEN <<"-">> \o Decimal(-n)
      ELSE IF n < 10 THEN <<digit(n)>>
      ELSE Append(Decimal(n \div 10), digit(n % 10))

WriteRaw(c) == <<c>>  \* mutant: characters of strings as they are

WriteChar(c) == IF c \in {Escapes[e] : e \in DOMAIN Escapes}
                THEN <<"\\", CHOOSE e \in DOMAIN Escapes : Escapes[e] = c>>
                ELSE <<c>>

WriteChars(s) == LET upTo[k \in 0 .. Len(s)] == IF k = 0 THEN << >> ELSE upTo[k-1] \o WriteChar(s[k])
                 IN  upTo[Len(s)]

(* fmt_value and fmt_list_tail, for writing. *)
RECURSIVE Write(_), WriteTail(_)
Write(d) ==
  CASE d.kind = "Nil"      -> <<"(", ")">>
    [] d.kind = "Constant" -> CHOOSE w \in DOMAIN Constants :
                                Constants[w] = d.name /\ w \notin {<<"#", "t", "r", "u", "e">>,
                                                                   <<"#", "f", "a", "l", "s", "e">>}
    [] d.kind = "Number"   -> Decimal(d.value)
    [] d.kind = "Symbol"   -> d.name
    [] d.kind = "String"   -> <<"\"">> \o WriteChars(d.chars) \o <<"\"">>
    [] d.kind = "Pair"     -> <<"(">> \o Write(d.car) \o WriteTail(d.cdr) \o <<")">>
WriteTail(d) ==
  CASE d.kind = "Nil"  -> << >>
    [] d.kind = "Pair" -> <<" ">> \o Write(d.car) \o WriteTail(d.cdr)
    [] OTHER           -> <<" ", ".", " ">> \o Write(d)
=============================================================================
