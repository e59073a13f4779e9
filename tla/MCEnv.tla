------------------------------- MODULE MCEnv -------------------------------
(* GriftEnv with one builtin, one name of the program's own, and parameter *)
(* trees that are well formed, repeat a symbol, hold a number, or do not   *)
(* fit the objects.                                                        *)
EXTENDS GriftEnv

T == Symbol("t")
X == Symbol("x")
MCTrees   == {Pair(T, X), Pair(T, Nil), Pair(X, Pair(X, Nil)), Pair(Ignore, Number(1))}
MCObjects == {Number(1), Pair(Number(2), Pair(Number(1), Nil))}
MCData    == MCTrees \cup MCObjects \cup
             {T, X, Ignore, Nil, Number(1), Number(2), Pair(X, Nil), Pair(Number(1), Nil)}
=============================================================================
