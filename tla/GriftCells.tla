----------------------------- MODULE GriftCells ---------------------------
(***************************************************************************)
(* The cells of the Lisp heap, as the interpreter (GriftLisp) and the      *)
(* abstract machine of its root stack (GriftRoots) both see them.          *)
(***************************************************************************)

(* Every kind of cell has at most two references. *)
Cell(k, a, d)   == [kind |-> k, a |-> a, d |-> d]
Pair(car, cdr)  == Cell("Cons", car, cdr)
Environ(bs, ps) == Cell("Environment", bs, ps)
FreeCell        == Cell("Free", "nil", "nil")

References(c) == CASE c.kind \in {"Cons", "Operative", "Environment"} -> {c.a, c.d}
                   [] c.kind = "Applicative" -> {c.a}
                   [] c.kind = "CharPair" -> {c.d}
                   [] OTHER -> {}
=============================================================================
