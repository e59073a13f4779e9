---------------------------- MODULE GriftGrammar ---------------------------
(***************************************************************************)
(* What texts mean, said without a parser: which stretches t[i..j] of a    *)
(* text are blank, which are an atom, a string, a quoted datum or a list,  *)
(* and of which datum.  The parser of GriftParser is checked against it.   *)
(***************************************************************************)
EXTENDS GriftParser

InComment(t, i, k) == \E m \in i .. k : t[m] = ";" /\ \A n \in m .. k-1 : t[n] # "\n"

(* White space and comments; only the end of the text may cut a comment.   *)
IsBlank(t, i, j) ==
  /\ \A k \in i .. j : t[k] \in White \/ InComment(t, i, k)
  /\ i <= j /\ j < Len(t) /\ InComment(t, i, j) => t[j] = "\n"

IsWord(t, i, j) == /\ \A k \in i .. j : ~EndsWord(t, k)
                   /\ EndsWord(t, j + 1)
                   /\ i <= j /\ t[i] # "'"

WordMeans(w) == IF w \in DOMAIN Constants THEN Constant(Constants[w])
                ELSE IF IntegerOf(w) # {} THEN Number(CHOOSE n \in IntegerOf(w) : TRUE)
                ELSE Symbol(w)

(* What a stretch between quotation marks stands for, with its escapes:    *)
(* the set of its only reading, or empty.                                  *)
RECURSIVE Unescaped(_)
Unescaped(w) ==
  IF w = << >> THEN {<< >>}
  ELSE IF w[1] \notin {"\\", "\""} THEN {<<w[1]>> \o r : r \in Unescaped(Tail(w))}
  ELSE IF w[1] = "\\" /\ Len(w) > 1 /\ w[2] \in DOMAIN Escapes
       THEN {<<Escapes[w[2]]>> \o r : r \in Unescaped(Tail(Tail(w)))}
  ELSE {}
StringMeans(s) == IF s = << >> THEN Nil ELSE String(s)
Quoted(d) == Pair(Symbol(Quote), Pair(d, Nil))
Between(t, i, j, k, l) == IsBlank(t, i, k - 1) /\ IsBlank(t, l + 1, j)

RECURSIVE Means(_, _, _), ListMeans(_, _, _)

(* The data that t[i..j], all of it, is the notation of: one or none.  A   *)
(* quotation mark with nothing but blanks up to the end quotes ().         *)
Means(t, i, j) ==
  UNION {
    IF IsWord(t, i, j) THEN {WordMeans(SubSeq(t, i, j))} ELSE {},
    IF i < j /\ t[i] = "\"" /\ t[j] = "\""
      THEN {StringMeans(s) : s \in Unescaped(SubSeq(t, i + 1, j - 1))} ELSE {},
    IF i <= j /\ t[i] = "'"
      THEN UNION {{Quoted(d) : d \in Means(t, k, j)} :
                    k \in {k \in i + 1 .. j : IsBlank(t, i + 1, k - 1) /\ t[k] \notin White}}
           \cup IF j = Len(t) /\ IsBlank(t, i + 1, j) THEN {Quoted(Nil)} ELSE {}
      ELSE {},
    IF i < j /\ t[i] = "(" /\ t[j] = ")" THEN ListMeans(t, i + 1, j - 1) ELSE {} }

(* Elements with blanks around them, and after the last one possibly a dot *)
(* and the tail.  A dot alone is no element; after a symbol that begins    *)
(* with a dot no tail is understood.                                       *)
ListMeans(t, i, j) ==
  IF IsBlank(t, i, j) THEN {Nil}
  ELSE LET spans == {<<k, l>> \in (i .. j) \X (i .. j) :
                       /\ k <= l /\ IsBlank(t, i, k - 1) /\ t[k] \notin White \cup {";"}
                       /\ ~(t[k] = "." /\ k = l)}
           tails(l) == {m \in l + 1 .. j : t[m] = "." /\ EndsWord(t, m + 1) /\ IsBlank(t, l + 1, m - 1)}
           ends(m)  == {<<k, l>> \in (m + 1 .. j) \X (m + 1 .. j) :
                          k <= l /\ Between(t, m + 1, j, k, l)}
       IN  UNION {{Pair(a, rest) : a \in Means(t, x[1], x[2]), rest \in ListMeans(t, x[2] + 1, j)} :
                    x \in spans}
           \cup UNION {{Pair(a, d) : a \in Means(t, x[1], x[2]),
                                     d \in UNION {UNION {Means(t, y[1], y[2]) : y \in ends(m)} :
                                                    m \in tails(x[2])}} :
                         x \in {x \in spans : t[x[1]] # "."}}

(* Where the first datum from position i on ends, and which it is: the     *)
(* pairs of a datum and the position after it.  Nothing but blanks: ().    *)
FirstFrom(t, i) ==
  IF IsBlank(t, i, Len(t)) THEN {<<Nil, Len(t) + 1>>}
  ELSE UNION {{<<d, l + 1>> : d \in Means(t, k, l)} :
                <<k, l>> \in {<<k, l>> \in (i .. Len(t)) \X (i .. Len(t)) :
                                k <= l /\ IsBlank(t, i, k - 1) /\ t[k] \notin White \cup {";"}}}
=============================================================================
