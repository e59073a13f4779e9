---------------------------- MODULE MCRawIO -------------------------------
(* GriftRawIO with two dynamic streams, a file that cannot be decoded in   *)
(* the middle, and an input of two characters around such a place.         *)
EXTENDS GriftRawIO

MCDisks == {[names |-> [q \in Path |-> i],
             data  |-> [j \in Inode |-> <<c, Bad, Bad, Nul>>]] :
              i \in Inode, c \in Char \ {Nul}}

MCInputs == {<<c, Nul, Bad>> : c \in Char \ {Nul}}

MCModes == {-1, 0, 1, 257}

\* No action reads res.
WithoutRes == <<files, stdin, peek_buf, streams, clearing, rawVars>>
=============================================================================
