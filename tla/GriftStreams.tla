--------------------------- MODULE GriftStreams ---------------------------
(***************************************************************************)
(* The streams of io.rs as IoState::std_io provides them: one peek buffer  *)
(* per stream number and a growing table of open files, whose index i is   *)
(* stream i + 3 in the code and stream i + 2 here, where sequences begin   *)
(* at 1.  One action per function pointer of IoState; the state is thread  *)
(* local, so it outlives the interpreter and std_io clears it.             *)
(***************************************************************************)
EXTENDS GriftFiles

CONSTANTS None,       \* an empty peek buffer
          MaxId,      \* the largest stream number (255: streams are u8)
          BufCap,     \* characters a BufReader or BufWriter holds
          MaxLen,     \* bound: no writer goes beyond this offset
          Disks, Inputs   \* the files and the input to start from

ASSUME StreamsAssumption ==
  /\ None \notin Char
  /\ MaxId \in Nat /\ MaxId >= 2
  /\ BufCap \in Nat \ {0}
  /\ Disks \subseteq Disk
  /\ Inputs \subseteq Seq(Unit)

VARIABLES names, data,   \* the files
          stdin,         \* the input still to come
          peek_buf,      \* [Id -> a character or None]
          streams,       \* the table, a sequence of handles
          clearing,      \* next entry std_io drops from the table, or 0
          res            \* result of the last call

vars == <<names, data, stdin, peek_buf, streams, clearing, res>>
files == <<names, data>>

Id == 0 .. MaxId

InTable(n)  == n >= 3 /\ n - 2 <= Len(streams)
HandleOf(n) == IF InTable(n) THEN streams[n - 2] ELSE Closed
IsReader(n) == HandleOf(n).mode = "Read"
IsWriter(n) == HandleOf(n).mode = "Write"

Init == /\ \E d \in Disks : names = d.names /\ data = d.data
        /\ stdin \in Inputs
        /\ peek_buf = [n \in Id |-> None]
        /\ streams = <<>>
        /\ clearing = 0
        /\ res = <<"std_io">>

Unsupported(op, n) == /\ res' = <<op, n, "Unsupported", Nul>>
                      /\ UNCHANGED <<files, stdin, peek_buf, streams>>
-----------------------------------------------------------------------------
Filled(h, text) ==
  IF NoReadAhead(h, text) THEN h
  ELSE Advance(h, text, IF BufCap < Len(text) - h.pos THEN BufCap
                                                      ELSE Len(text) - h.pos)

\* read_one_char_from on the source of stream n: what it finds there, and
\* the source with the bytes taken, whether or not they can be decoded.
SourceOf(n) == Filled(HandleOf(n), data[HandleOf(n).ino])
Ahead(n)    == IF n = 0 THEN stdin ELSE SourceOf(n).buf
ReadOneChar(n) ==
  \/ /\ n = 0
     /\ stdin' = Rest(stdin)
     /\ UNCHANGED streams
  \/ /\ n # 0
     /\ streams' = [streams EXCEPT ![n - 2] =
                      [SourceOf(n) EXCEPT !.buf = Rest(SourceOf(n).buf)]]
     /\ UNCHANGED stdin

Readable(n) == n = 0 \/ IsReader(n)

ReadKeepsPeek(n) ==  \* mutant: the buffered character is copied, not taken
  \/ /\ peek_buf[n] # None
     /\ res' = <<"read", n, "Ok", peek_buf[n]>>
     /\ UNCHANGED <<files, stdin, peek_buf, streams>>
  \/ /\ peek_buf[n] = None /\ Readable(n)
     /\ res' = Answer("read", n, Ahead(n))
     /\ ReadOneChar(n)
     /\ UNCHANGED <<files, peek_buf>>
  \/ /\ peek_buf[n] = None /\ ~Readable(n)
     /\ Unsupported("read", n)

ReadStreamChar(n) ==
  \/ /\ peek_buf[n] # None
     /\ res' = <<"read", n, "Ok", peek_buf[n]>>
     /\ peek_buf' = [peek_buf EXCEPT ![n] = None]
     /\ UNCHANGED <<files, stdin, streams>>
  \/ /\ peek_buf[n] = None /\ Readable(n)
     /\ res' = Answer("read", n, Ahead(n))
     /\ ReadOneChar(n)
     /\ UNCHANGED <<files, peek_buf>>
  \/ /\ peek_buf[n] = None /\ ~Readable(n)
     /\ Unsupported("read", n)

Decodable(units) == units # <<>> /\ Head(units) # Bad

PeekAlwaysReads(n) ==  \* mutant: a full peek buffer is overwritten
  \/ /\ Readable(n)
     /\ res' = Answer("peek", n, Ahead(n))
     /\ ReadOneChar(n)
     /\ peek_buf' = [peek_buf EXCEPT ![n] =
                       IF Decodable(Ahead(n)) THEN Head(Ahead(n)) ELSE None]
     /\ UNCHANGED files
  \/ ~Readable(n) /\ Unsupported("peek", n)

PeekStreamChar(n) ==
  \/ /\ peek_buf[n] # None
     /\ res' = <<"peek", n, "Ok", peek_buf[n]>>
     /\ UNCHANGED <<files, stdin, peek_buf, streams>>
  \/ /\ peek_buf[n] = None /\ Readable(n)
     /\ res' = Answer("peek", n, Ahead(n))
     /\ ReadOneChar(n)
     /\ peek_buf' = [peek_buf EXCEPT ![n] =
                       IF Decodable(Ahead(n)) THEN Head(Ahead(n)) ELSE None]
     /\ UNCHANGED files
  \/ /\ peek_buf[n] = None /\ ~Readable(n)
     /\ Unsupported("peek", n)
-----------------------------------------------------------------------------
(* Writes of one character, which BufWriter never splits. *)
WriteStream(n, c) ==
  \/ /\ n \in {1, 2}
     /\ res' = <<"write", n, "Ok", c>>
     /\ UNCHANGED <<files, stdin, peek_buf, streams>>
  \/ /\ IsWriter(n)
     /\ HandleOf(n).pos + Len(HandleOf(n).buf) < MaxLen
     /\ res' = <<"write", n, "Ok", c>>
     /\ \/ /\ Len(HandleOf(n).buf) < BufCap
           /\ streams' = [streams EXCEPT ![n - 2] = Appended(HandleOf(n), c)]
           /\ UNCHANGED data
        \/ /\ Len(HandleOf(n).buf) >= BufCap
           /\ streams' = [streams EXCEPT ![n - 2] = Appended(Flushed(HandleOf(n)), c)]
           /\ data' = Flush(data, HandleOf(n))
     /\ UNCHANGED <<names, stdin, peek_buf>>
  \/ /\ n \notin {1, 2} /\ ~IsWriter(n)
     /\ Unsupported("write", n)
-----------------------------------------------------------------------------
(* The first empty entry of the table, else a new one while its number     *)
(* fits; the file has been opened, and created or cut off, by then.        *)
EmptyWhenIdle ==  \* mutant: an entry with nothing buffered counts as free
  {i \in 1 .. Len(streams) : streams[i].buf = <<>>}

Empty == {i \in 1 .. Len(streams) : streams[i].mode = "Closed"}
IsFirstEmpty(i) == i \in Empty /\ \A j \in Empty : i <= j

InstallUnchecked(p, h) ==  \* mutant: numbers are not limited to a u8
  \/ \E i \in 1 .. Len(streams) :
       /\ IsFirstEmpty(i)
       /\ streams' = [streams EXCEPT ![i] = h]
       /\ res' = <<"open", p, "Ok", i + 2>>
  \/ /\ Empty = {} /\ Len(streams) + 2 <= MaxId
     /\ streams' = Append(streams, h)
     /\ res' = <<"open", p, "Ok", Len(streams) + 3>>

Install(p, h) ==
  \/ \E i \in 1 .. Len(streams) :
       /\ IsFirstEmpty(i)
       /\ streams' = [streams EXCEPT ![i] = h]
       /\ res' = <<"open", p, "Ok", i + 2>>
  \/ /\ Empty = {} /\ Len(streams) + 3 <= MaxId
     /\ streams' = Append(streams, h)
     /\ res' = <<"open", p, "Ok", Len(streams) + 3>>
  \/ /\ Empty = {} /\ Len(streams) + 3 > MaxId
     /\ res' = <<"open", p, "Unsupported", 0>>
     /\ UNCHANGED streams

NotOpened(p, why) == /\ res' = <<"open", p, why, 0>>
                     /\ UNCHANGED <<files, streams>>

\* The operating system may refuse to open, create or delete a file.
OpenFile(p, mode) ==
  /\ \/ /\ mode = 0 /\ names[p] # NoInode
        /\ Install(p, Reader(names[p]))
        /\ UNCHANGED files
     \/ mode = 0 /\ NotOpened(p, "ReadFailed")
     \/ /\ mode = 1
        /\ \E i \in CreateTargets(p, names, {HandleOf(n) : n \in Id}) :
             /\ names' = [names EXCEPT ![p] = i]
             /\ data' = [data EXCEPT ![i] = <<>>]
             /\ Install(p, Writer(i))
     \/ mode = 1 /\ NotOpened(p, "WriteFailed")
     \/ mode \notin {0, 1} /\ NotOpened(p, "Unsupported")
  /\ UNCHANGED <<stdin, peek_buf>>

CloseKeepsPeek(n) ==  \* mutant: the peeked character survives the file
  \/ /\ IsReader(n) \/ IsWriter(n)
     /\ streams' = [streams EXCEPT ![n - 2] = Closed]
     /\ data' = Flush(data, HandleOf(n))
     /\ res' = <<"close", n, "Ok", Nul>>
     /\ UNCHANGED <<names, stdin, peek_buf>>
  \/ /\ ~IsReader(n) /\ ~IsWriter(n)
     /\ Unsupported("close", n)

CloseStream(n) ==
  \/ /\ IsReader(n) \/ IsWriter(n)
     /\ streams' = [streams EXCEPT ![n - 2] = Closed]
     /\ peek_buf' = [peek_buf EXCEPT ![n] = None]
     /\ data' = Flush(data, HandleOf(n))
     /\ res' = <<"close", n, "Ok", Nul>>
     /\ UNCHANGED <<names, stdin>>
  \/ /\ ~IsReader(n) /\ ~IsWriter(n)
     /\ Unsupported("close", n)

FileExists(p) == /\ res' = <<"exists", p, names[p] # NoInode>>
                 /\ UNCHANGED <<files, stdin, peek_buf, streams>>

DeleteFile(p) ==
  /\ \/ /\ names[p] # NoInode
        /\ names' = [names EXCEPT ![p] = NoInode]
        /\ res' = <<"delete", p, "Ok">>
     \/ /\ res' = <<"delete", p, "WriteFailed">>
        /\ UNCHANGED names
  /\ UNCHANGED <<data, stdin, peek_buf, streams>>
-----------------------------------------------------------------------------
(* IoState::std_io: the peek buffers go, then the table is cleared, which  *)
(* drops, and so flushes, one entry after the other.                       *)
StdIo == /\ clearing' = 1
         /\ peek_buf' = [n \in Id |-> None]
         /\ res' = <<"std_io">>
         /\ UNCHANGED <<files, stdin, streams>>

ClearEntry ==
  /\ clearing <= Len(streams)
  /\ streams' = [streams EXCEPT ![clearing] = Closed]
  /\ data' = Flush(data, streams[clearing])
  /\ clearing' = clearing + 1
  /\ UNCHANGED <<names, stdin, peek_buf, res>>

ClearDone ==
  /\ clearing > Len(streams)
  /\ streams' = <<>>
  /\ clearing' = 0
  /\ UNCHANGED <<files, stdin, peek_buf, res>>

Call == \/ \E n \in Id : \/ ReadStreamChar(n)
                         \/ PeekStreamChar(n)
                         \/ CloseStream(n)
                         \/ \E c \in Char : WriteStream(n, c)
        \/ \E p \in Path : \/ \E mode \in 0 .. 2 : OpenFile(p, mode)
                           \/ FileExists(p)
                           \/ DeleteFile(p)

Next == \/ clearing = 0 /\ Call /\ UNCHANGED clearing
        \/ clearing = 0 /\ StdIo
        \/ clearing # 0 /\ ClearEntry
        \/ clearing # 0 /\ ClearDone

Spec == Init /\ [][Next]_vars
-----------------------------------------------------------------------------
(* The tables keep their shape, every handle is one of an existing file,   *)
(* and stream numbers never exceed the largest u8.                         *)
TypeOK ==
  /\ names \in [Path -> Inode \cup {NoInode}]
  /\ data \in [Inode -> Seq(Unit)]
  /\ stdin \in Seq(Unit)
  /\ peek_buf \in [Id -> Char \cup {None}]
  /\ streams \in Seq(Handle)
  /\ Len(streams) + 2 <= MaxId
  /\ clearing \in 0 .. Len(streams) + 1

(* A character that was only looked at belongs to the input or to a file   *)
(* open for reading under that number: since numbers are reused at once,   *)
(* close_stream must not leave it to the stream opened next.               *)
NoStalePeek == \A n \in Id : peek_buf[n] # None => Readable(n)

(* The streams are cursors: each delivers the characters of its file in    *)
(* order and once, whatever was peeked at, opened, closed and reused in    *)
(* between, and open finds a number whenever one is free.                  *)
WithPeek(n, units) == IF peek_buf[n] = None THEN units ELSE <<peek_buf[n]>> \o units

Cursor(n) == LET h == HandleOf(n)
             IN  IF h.mode # "Read" THEN h
                 ELSE IF clearing # 0 THEN Closed
                 ELSE [h EXCEPT !.buf = WithPeek(n, h.buf)]

C == INSTANCE GriftCursors WITH
       stdin     <- WithPeek(0, stdin),
       cursors   <- [n \in 3 .. MaxId |-> Cursor(n)],
       resetting <- clearing # 0

ImplementsCursors == C!Spec

(* What io.rs says of peek_stream_char: it does not consume.  A peek that  *)
(* meets bytes it cannot decode takes them away.                           *)
Upcoming(n) == WithPeek(n, IF n = 0 THEN stdin ELSE SourceOf(n).buf)
PeekConsumesNothing ==
  [][\A n \in Id : Readable(n) /\ PeekStreamChar(n) => Upcoming(n)' = Upcoming(n)]_vars
=============================================================================
