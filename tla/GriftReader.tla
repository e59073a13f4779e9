---------------------------- MODULE GriftReader ----------------------------
(***************************************************************************)
(* Reading a text datum by datum with little memory, from each of the      *)
(* three sources the interpreter has.  "eval" reads source text outside    *)
(* the loop that collects on exhaustion (eval_to_index): a failure is      *)
(* final.  "chain" is raw-read-string, which starts again from the first   *)
(* character once the collector has been run, and then reads no more.      *)
(* "stream" is raw-read, called until the input ends; run again, it goes   *)
(* on where the failed attempt had got to.  The program drops each datum   *)
(* before it reads the next.                                               *)
(***************************************************************************)
EXTENDS GriftGrammar

CONSTANTS Inputs,     \* texts, and the cells there are to read each of them
          Plenty      \* more cells than any of them takes

ASSUME ReaderAssumption == \A x \in Inputs : x.cells \in 0 .. Plenty

VARIABLES source,     \* where the characters come from
          input,      \* the text and the cells
          s,          \* where the parser stands
          out,        \* the data read so far
          answer,     \* "reading", "end" or the error that ended it
          resumed     \* a stream was read from within a datum (observation only)

readerVars == <<source, input, s, out, answer, resumed>>

text == input.text
Begin == [at |-> 1, left |-> input.cells, names |-> {Quote}]

ReaderInit ==
  /\ source \in {"eval", "chain", "stream"}
  /\ input \in Inputs
  /\ s = Begin
  /\ out = << >>
  /\ answer = "reading"
  /\ resumed = FALSE

(* Two cells and its characters stay with every symbol. *)
Kept(names) == LET cost[n \in SUBSET names] ==
                     IF n = {} THEN 0
                     ELSE LET w == CHOOSE w \in n : TRUE IN 2 + Len(w) + cost[n \ {w}]
               IN  cost[names \ {Quote}]

Collected(p) == [p EXCEPT !.left = input.cells - Kept(p.names)]

(* A text read as source, or a stream, may hold any number of data;        *)
(* raw-read-string reads one, and NIL from an empty string.                *)
AtEnd == source # "chain" /\ ~More(text, Skip(text, s.at))

ReadDatum ==
  LET r == ParseExpr(text, s)
  IN  /\ answer = "reading" /\ ~AtEnd
      /\ r.ok
      /\ s' = r.s
      /\ out' = Append(out, r.val)
      /\ answer' = IF source = "chain" THEN "end" ELSE "reading"
      /\ UNCHANGED <<source, input, resumed>>

EndOfText ==
  /\ answer = "reading" /\ AtEnd
  /\ answer' = "end"
  /\ UNCHANGED <<source, input, s, out, resumed>>

(* An error of the text, or memory exhausted where nobody collects.        *)
ReadFails ==
  LET r == ParseExpr(text, s)
  IN  /\ answer = "reading" /\ ~AtEnd
      /\ ~r.ok
      /\ r.val = "OutOfMemory" => source = "eval" \/ Collected(r.s).left = 0
      /\ s' = r.s
      /\ answer' = r.val
      /\ UNCHANGED <<source, input, out, resumed>>

RetryHere ==          \* mutant: a string is read on from where the attempt had got to
  LET r == ParseExpr(text, s)
  IN  /\ answer = "reading" /\ ~AtEnd
      /\ source # "eval"
      /\ ~r.ok /\ r.val = "OutOfMemory" /\ Collected(r.s).left > 0
      /\ s' = Collected(r.s)
      /\ resumed' = (source = "stream")
      /\ UNCHANGED <<source, input, out, answer>>

(* eval_expr collects and evaluates the call again.                        *)
Retry ==
  LET r == ParseExpr(text, s)
  IN  /\ answer = "reading" /\ ~AtEnd
      /\ source # "eval"
      /\ ~r.ok /\ r.val = "OutOfMemory" /\ Collected(r.s).left > 0
      /\ s' = Collected(IF source = "chain" THEN [r.s EXCEPT !.at = 1] ELSE r.s)
      /\ resumed' = (resumed \/ source = "stream")
      /\ UNCHANGED <<source, input, out, answer>>

(* The program drops what it has read, and the collector runs.             *)
Collect ==
  /\ answer = "reading" /\ source # "chain" /\ out # << >>
  /\ s' = Collected(s)
  /\ UNCHANGED <<source, input, out, answer, resumed>>

ReaderNext == ReadDatum \/ EndOfText \/ ReadFails \/ Retry \/ Collect

ReaderSpec == ReaderInit /\ [][ReaderNext]_readerVars
-----------------------------------------------------------------------------
ReaderTypeOK ==
  /\ s.at \in 1 .. Len(text) + 1
  /\ s.left \in 0 .. input.cells - Kept(s.names)
  /\ Quote \in s.names
  /\ answer \in {"reading", "end", "ParseError", "InvalidArgument", "OutOfMemory"}

(* From every place a reader gets to, parse_expr accepts exactly the texts *)
(* of the grammar, answers the datum the grammar gives them, and leaves    *)
(* the source right behind it, for dots, quotes, comments, escapes,        *)
(* numerals and nested lists alike.  And memory changes nothing: with      *)
(* enough of it the answer is the same, with one cell less it is           *)
(* OutOfMemory, and nothing behind the datum has been read.                *)
(* Code: parse.rs:149-296, lisp.rs:429-490.                                *)
ParseRight ==
  LET ample == [s EXCEPT !.left = Plenty]
      r     == ParseExpr(text, ample)
      q     == ParseExpr(text, s)
      spent == Plenty - r.s.left
  IN  /\ FirstFrom(text, s.at) = IF r.ok THEN {<<r.val, r.s.at>>} ELSE {}
      /\ IF s.left >= spent
         THEN q = [r EXCEPT !.s.left = s.left - spent]
         ELSE /\ ~q.ok /\ q.val = "OutOfMemory" /\ q.s.left = 0
              /\ q.s.at <= r.s.at /\ q.s.names \subseteq r.s.names

(* The first n data from position i, and where they end. *)
RECURSIVE DataFrom(_, _, _)
DataFrom(t, i, n) ==
  IF n = 0 THEN {<< << >>, i >>}
  ELSE UNION {{<< <<x[1]>> \o y[1], y[2] >> : y \in DataFrom(t, x[2], n - 1)} : x \in FirstFrom(t, i)}

(* Whatever is read is the text's data in their order, each once, also     *)
(* when memory ran out on the way and the read was repeated; only a stream *)
(* that was taken up again within a datum may differ.  What ends it is the *)
(* end of the text, a datum the grammar does not know, or memory that no   *)
(* collection frees; source text can also fail with garbage around.        *)
(* Code: lisp.rs:825-834, eval.rs:315-330, 1197-1202, 1277-1284.           *)
ReadsTheText ==
  ~resumed =>
    \E x \in DataFrom(text, 1, Len(out)) :
      /\ x[1] = out
      /\ answer = "reading" => s.at = x[2]
      /\ answer = "end" /\ source # "chain" => IsBlank(text, x[2], Len(text))
      /\ answer \in {"ParseError", "InvalidArgument"} => FirstFrom(text, x[2]) = {}
      /\ answer = "OutOfMemory" /\ source # "eval" => Collected(s).left = 0

(* What is written is read back as the same datum, whichever way it is     *)
(* built: escapes, signs, dotted tails and constants survive.  There are   *)
(* three exceptions, and no other: a list whose element is the symbol of a *)
(* single dot, a dotted tail after a symbol that begins with a dot, and    *)
(* the least integer, which is written but not understood.                 *)
(* Code: lisp.rs:951-1027; tests: lisp_tests.rs:4228, 4241.                *)
RECURSIVE ReadsBack(_)
ReadsBack(d) ==
  CASE d.kind = "Number" -> d.value >= -MaxInt
    [] d.kind = "Pair"   -> /\ ReadsBack(d.car) /\ ReadsBack(d.cdr)
                            /\ d.car # Symbol(<<".">>)
                            /\ \/ d.cdr.kind \in {"Nil", "Pair"}
                               \/ d.car.kind # "Symbol"
                               \/ d.car.name[1] # "."
    [] OTHER -> TRUE
WritesBack ==
  LET read  == {out[k] : k \in DOMAIN out}
      built == read \cup {Pair(a, b) : a, b \in read} \cup {Number(-MaxInt - 1)}
  IN  \A d \in built :
        LET t == Write(d)
            r == ParseExpr(t, [at |-> 1, left |-> Plenty, names |-> s.names])
        IN  ReadsBack(d) <=> r.ok /\ r.val = d /\ r.s.at = Len(t) + 1
=============================================================================
