--------------------------- MODULE MCStreams ------------------------------
(* GriftStreams with two dynamic streams on one path: every handle can be  *)
(* reading or writing the file, or an unlinked predecessor of it, while    *)
(* the other one does.                                                     *)
EXTENDS GriftStreams, TLC

Files(here, text) ==
  [names |-> [p \in Path |-> here],
   data  |-> [i \in Inode |-> IF i = here THEN text ELSE <<>>]]

MCDisks ==
  {Files(NoInode, <<>>)}
  \cup {Files(i, <<Bad, c>>) : i \in Inode, c \in Char}

MCInputs == {<<Nul, Bad>>}

InodesAlike == Permutations(Inode)

\* No action reads res, and the refinement is checked on every step.
WithoutRes == <<files, stdin, peek_buf, streams, clearing>>
=============================================================================
