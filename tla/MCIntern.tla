------------------------------ MODULE MCIntern -----------------------------
(* GriftIntern over two names of one character and one that begins with    *)
(* the one and ends with the other; two symbols fit.  Unallocated slots    *)
(* are alike: no cell the program can still reach leads to one, so a heap  *)
(* that always takes the lowest has all behaviours up to a renaming.       *)
EXTENDS GriftIntern

MCNames == {<<"a">>, <<"b">>, <<"a", "b">>}
LowestFirst == \A i \in Allocated' \ Allocated, j \in Slot \ Allocated : i <= j
=============================================================================
