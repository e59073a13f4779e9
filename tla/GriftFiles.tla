---------------------------- MODULE GriftFiles ----------------------------
(***************************************************************************)
(* What io.rs uses of the operating system and of std::io: files that      *)
(* paths name and handles hold, BufReader and BufWriter.  A file is a      *)
(* sequence of characters and of undecodable stretches (Bad: the bytes one *)
(* failing read_one_char_from takes).  Deleting a path leaves the file to  *)
(* the handles that hold it; creating it again makes another one.          *)
(***************************************************************************)
EXTENDS Integers, Sequences

CONSTANTS Path,     \* paths, some of which may name the same file
          Inode,    \* files
          NoInode,  \* what a path that names no file stands for
          Char,     \* characters, the Nul of a gap among them
          Nul, Bad

ASSUME FilesAssumption ==
  /\ NoInode \notin Inode
  /\ Nul \in Char
  /\ Bad \notin Char

Unit == Char \cup {Bad}

Closed    == [mode |-> "Closed", ino |-> NoInode, pos |-> 0, buf |-> <<>>]
Reader(i) == [mode |-> "Read",   ino |-> i,       pos |-> 0, buf |-> <<>>]
Writer(i) == [mode |-> "Write",  ino |-> i,       pos |-> 0, buf |-> <<>>]

Handle ==
  {Closed}
  \cup [mode : {"Read"},  ino : Inode, pos : Nat, buf : Seq(Unit)]
  \cup [mode : {"Write"}, ino : Inode, pos : Nat, buf : Seq(Char)]

Disk == [names : [Path -> Inode \cup {NoInode}], data : [Inode -> Seq(Unit)]]
-----------------------------------------------------------------------------
(* BufReader: when its buffer is empty it takes the next k units from the  *)
(* file as it is then; what is written to the file later is not seen.      *)
NoReadAhead(h, text) == h.buf # <<>> \/ h.pos >= Len(text)
Advance(h, text, k) == [h EXCEPT !.pos = h.pos + k,
                                 !.buf = SubSeq(text, h.pos + 1, h.pos + k)]

(* BufWriter: text collects in the buffer and goes to the file at the      *)
(* handle's own offset, past what another handle may have cut off.         *)
Overlay(text, at, new) ==
  [i \in 1 .. IF Len(text) > at + Len(new) THEN Len(text) ELSE at + Len(new) |->
     IF i \in at + 1 .. at + Len(new) THEN new[i - at]
     ELSE IF i <= Len(text) THEN text[i]
     ELSE Nul]

Appended(h, c) == [h EXCEPT !.buf = Append(h.buf, c)]
Flushed(h)     == [h EXCEPT !.pos = h.pos + Len(h.buf), !.buf = <<>>]

\* The files once h has been flushed, which dropping it does as well.
Flush(files, h) ==
  IF h.mode = "Write" /\ h.buf # <<>>
  THEN [files EXCEPT ![h.ino] = Overlay(files[h.ino], h.pos, h.buf)]
  ELSE files

\* The files that creating p may open: its own, else one nobody holds.
CreateTargets(p, names, handles) ==
  IF names[p] # NoInode
  THEN {names[p]}
  ELSE {i \in Inode : /\ \A q \in Path : names[q] # i
                      /\ \A h \in handles : h.ino # i}
-----------------------------------------------------------------------------
(* Decoding one character from the units that come next. *)
Rest(units) == IF units = <<>> THEN <<>> ELSE Tail(units)

Answer(op, n, units) ==
  IF units = <<>> THEN <<op, n, "Eof", Nul>>
  ELSE IF Head(units) = Bad THEN <<op, n, "ReadFailed", Nul>>
  ELSE <<op, n, "Ok", Head(units)>>
=============================================================================
