------------------------ MODULE GriftStreamsProofs ------------------------
(***************************************************************************)
(* Theorems about GriftStreams, for any number of streams, any buffer size *)
(* and any files: the types, that no peeked character outlives its stream, *)
(* and that the streams are the cursors of GriftCursors.                   *)
(***************************************************************************)
EXTENDS GriftStreams, SequenceTheorems, TLAPS

-----------------------------------------------------------------------------
(* Handles, and what BufReader and BufWriter make of them. *)

LEMMA HandleCases ==
  ASSUME NEW h \in Handle
  PROVE  /\ h.mode \in {"Closed", "Read", "Write"}
         /\ h.mode = "Closed" <=> h = Closed
         /\ h.mode # "Closed" => h.ino \in Inode /\ h.pos \in Nat
         /\ h.mode = "Read" => h.buf \in Seq(Unit)
         /\ h.mode = "Write" => h.buf \in Seq(Char)
         /\ h.buf \in Seq(Unit)
<1>1. CASE h = Closed
  <2>1. h.mode = "Closed" /\ h.buf = <<>>
    BY <1>1 DEF Closed
  <2> QED BY <1>1, <2>1, EmptySeq
<1>2. CASE h \in [mode : {"Read"}, ino : Inode, pos : Nat, buf : Seq(Unit)]
  BY <1>2 DEF Closed
<1>3. CASE h \in [mode : {"Write"}, ino : Inode, pos : Nat, buf : Seq(Char)]
  <2>1. h.buf \in Seq(Char)
    BY <1>3
  <2>2. h.buf \in Seq(Unit)
    BY <2>1, SeqMonotonic DEF Unit
  <2> QED BY <1>3, <2>1, <2>2 DEF Closed
<1> QED BY <1>1, <1>2, <1>3 DEF Handle

LEMMA NewHandles ==
  ASSUME NEW i \in Inode
  PROVE  /\ Reader(i) \in Handle /\ Reader(i).mode = "Read" /\ Reader(i).buf = <<>>
         /\ Writer(i) \in Handle /\ Writer(i).mode = "Write"
         /\ Closed \in Handle /\ Closed.mode = "Closed"
BY EmptySeq DEF Handle, Reader, Writer, Closed

LEMMA OverlayType ==
  ASSUME NEW text \in Seq(Unit), NEW at \in Nat, NEW new \in Seq(Char)
  PROVE  Overlay(text, at, new) \in Seq(Unit)
<1> DEFINE n == IF Len(text) > at + Len(new) THEN Len(text) ELSE at + Len(new)
           unit(i) == IF i \in at + 1 .. at + Len(new) THEN new[i - at]
                      ELSE IF i <= Len(text) THEN text[i] ELSE Nul
<1>1. n \in Nat
  BY LenProperties
<1>2. \A i \in 1 .. n : unit(i) \in Unit
  BY FilesAssumption, ElementOfSeq, LenProperties DEF Unit
<1>3. [i \in 1 .. n |-> unit(i)] \in Seq(Unit)
  <2> HIDE DEF n, unit
  <2> QED BY <1>1, <1>2, IsASeq
<1> QED BY <1>3 DEF Overlay

LEMMA FlushType ==
  ASSUME NEW d \in [Inode -> Seq(Unit)], NEW h \in Handle
  PROVE  Flush(d, h) \in [Inode -> Seq(Unit)]
BY HandleCases, OverlayType DEF Flush

LEMMA NothingToFlush ==
  ASSUME NEW d, NEW h, h.mode # "Write" \/ h.buf = <<>>
  PROVE  Flush(d, h) = d
BY DEF Flush

LEMMA RestType ==
  ASSUME NEW units \in Seq(Unit)
  PROVE  Rest(units) \in Seq(Unit)
BY HeadTailProperties, EmptySeq DEF Rest

LEMMA AppendedType ==
  ASSUME NEW h \in Handle, h.mode = "Write", NEW c \in Char
  PROVE  /\ Appended(h, c) \in Handle /\ Appended(h, c).mode = "Write"
         /\ Flushed(h) \in Handle /\ Flushed(h).mode = "Write"
         /\ Appended(Flushed(h), c) \in Handle
         /\ Appended(Flushed(h), c).mode = "Write"
<1> DEFINE WriterHandle == [mode : {"Write"}, ino : Inode, pos : Nat, buf : Seq(Char)]
<1>1. \A g \in WriterHandle : g \in Handle /\ g.mode = "Write"
  BY DEF Handle
<1>2. \A g \in WriterHandle : Appended(g, c) \in WriterHandle
  BY AppendProperties DEF Appended
<1>3. \A g \in WriterHandle : Flushed(g) \in WriterHandle
  <2> SUFFICES ASSUME NEW g \in WriterHandle PROVE Flushed(g) \in WriterHandle
    OBVIOUS
  <2>1. g.pos + Len(g.buf) \in Nat /\ <<>> \in Seq(Char)
    BY LenProperties, EmptySeq
  <2> QED BY <2>1 DEF Flushed
<1>4. h \in WriterHandle
  BY DEF Handle, Closed
<1> HIDE DEF WriterHandle
<1> QED BY <1>1, <1>2, <1>3, <1>4

LEMMA FilledType ==
  ASSUME NEW h \in Handle, h.mode = "Read", NEW text \in Seq(Unit)
  PROVE  /\ Filled(h, text) \in Handle
         /\ Filled(h, text).mode = "Read"
         /\ Filled(h, text).ino = h.ino
         /\ Filled(h, text).buf \in Seq(Unit)
         /\ \A b \in Seq(Unit) : [Filled(h, text) EXCEPT !.buf = b] \in Handle
<1>1. h \in [mode : {"Read"}, ino : Inode, pos : Nat, buf : Seq(Unit)]
  BY DEF Handle, Closed
<1>2. CASE NoReadAhead(h, text)
  BY <1>1, <1>2 DEF Filled, Handle
<1>3. CASE ~NoReadAhead(h, text)
  <2> DEFINE k == IF BufCap < Len(text) - h.pos THEN BufCap ELSE Len(text) - h.pos
  <2>1. k \in 1 .. Len(text) - h.pos
    BY <1>1, <1>3, StreamsAssumption, LenProperties DEF NoReadAhead
  <2>2. SubSeq(text, h.pos + 1, h.pos + k) \in Seq(Unit)
    BY <1>1, <2>1, SubSeqProperties, ElementOfSeq, LenProperties
  <2>3. h.pos + k \in Nat
    BY <1>1, <2>1, LenProperties
  <2>4. Filled(h, text) = Advance(h, text, k)
    BY <1>3 DEF Filled
  <2> HIDE DEF k
  <2> QED BY <1>1, <2>2, <2>3, <2>4 DEF Advance, Handle
<1> QED BY <1>2, <1>3
-----------------------------------------------------------------------------
(* The table: looking a number up, and replacing or adding an entry. *)

LEMMA EntryType ==
  ASSUME TypeOK, NEW n \in Id
  PROVE  /\ HandleOf(n) \in Handle
         /\ InTable(n) => n - 2 \in 1 .. Len(streams) /\ HandleOf(n) = streams[n - 2]
         /\ HandleOf(n).mode # "Closed" => InTable(n)
<1>1. Len(streams) \in Nat
  BY LenProperties DEF TypeOK
<1>2. InTable(n) => n - 2 \in 1 .. Len(streams)
  BY <1>1, StreamsAssumption DEF InTable, Id
<1>3. InTable(n) => streams[n - 2] \in Handle
  BY <1>2, ElementOfSeq DEF TypeOK
<1>4. Closed \in Handle /\ Closed.mode = "Closed"
  BY DEF Handle, Closed
<1> QED BY <1>2, <1>3, <1>4 DEF HandleOf

LEMMA SetEntry ==
  ASSUME TypeOK, NEW n \in Id, InTable(n), NEW h \in Handle,
         streams' = [streams EXCEPT ![n - 2] = h]
  PROVE  /\ streams' \in Seq(Handle)
         /\ Len(streams') = Len(streams)
         /\ \A m \in Id : HandleOf(m)' = IF m = n THEN h ELSE HandleOf(m)
<1>1. n - 2 \in 1 .. Len(streams) /\ n >= 3 /\ n - 2 <= Len(streams)
  BY EntryType DEF InTable
<1>2. /\ streams' \in Seq(Handle)
      /\ Len(streams') = Len(streams)
      /\ \A j \in 1 .. Len(streams) : streams'[j] = IF j = n - 2 THEN h ELSE streams[j]
  BY <1>1, ExceptSeq DEF TypeOK
<1>3. ASSUME NEW m \in Id PROVE HandleOf(m)' = IF m = n THEN h ELSE HandleOf(m)
  <2>1. CASE InTable(m)
    <3>1. m - 2 \in 1 .. Len(streams) /\ InTable(m)'
      BY <2>1, <1>2, EntryType DEF InTable
    <3>2. m - 2 = n - 2 <=> m = n
      BY <1>1 DEF Id, InTable
    <3> QED BY <1>2, <2>1, <3>1, <3>2 DEF HandleOf
  <2>2. CASE ~InTable(m)
    <3>1. ~InTable(m)' /\ m # n
      BY <2>2, <1>2 DEF InTable
    <3> QED BY <2>2, <3>1 DEF HandleOf
  <2> QED BY <2>1, <2>2
<1> QED BY <1>2, <1>3

LEMMA AddEntry ==
  ASSUME TypeOK, NEW h \in Handle, Len(streams) + 3 <= MaxId,
         streams' = Append(streams, h)
  PROVE  /\ streams' \in Seq(Handle)
         /\ Len(streams') = Len(streams) + 1
         /\ \A m \in Id : HandleOf(m)' = IF m = Len(streams) + 3 THEN h ELSE HandleOf(m)
         /\ HandleOf(Len(streams) + 3) = Closed
<1>1. /\ Len(streams) \in Nat
      /\ streams' \in Seq(Handle)
      /\ Len(streams') = Len(streams) + 1
      /\ \A j \in 1 .. Len(streams) : streams'[j] = streams[j]
      /\ streams'[Len(streams) + 1] = h
  BY AppendProperties, LenProperties DEF TypeOK
<1>2. ASSUME NEW m \in Id
      PROVE  HandleOf(m)' = IF m = Len(streams) + 3 THEN h ELSE HandleOf(m)
  <2>1. CASE m = Len(streams) + 3
    <3>1. InTable(m)' /\ m - 2 = Len(streams) + 1
      BY <2>1, <1>1 DEF InTable
    <3> QED BY <2>1, <3>1, <1>1 DEF HandleOf
  <2>2. CASE m # Len(streams) + 3 /\ InTable(m)
    <3>1. m - 2 \in 1 .. Len(streams) /\ InTable(m)'
      BY <2>2, <1>1, EntryType DEF InTable
    <3> QED BY <2>2, <3>1, <1>1 DEF HandleOf
  <2>3. CASE m # Len(streams) + 3 /\ ~InTable(m)
    <3>1. ~InTable(m)'
      BY <2>3, <1>1 DEF InTable, Id
    <3> QED BY <2>3, <3>1 DEF HandleOf
  <2> QED BY <2>1, <2>2, <2>3
<1>3. ~InTable(Len(streams) + 3)
  BY <1>1 DEF InTable
<1> QED BY <1>1, <1>2, <1>3 DEF HandleOf

LEMMA EmptyEntry ==
  ASSUME TypeOK, NEW i \in 1 .. Len(streams), IsFirstEmpty(i)
  PROVE  /\ i + 2 \in Id
         /\ i + 2 >= 3
         /\ InTable(i + 2)
         /\ HandleOf(i + 2) = Closed
         /\ (i + 2) - 2 = i
<1>1. Len(streams) \in Nat /\ Len(streams) + 2 <= MaxId
  BY LenProperties DEF TypeOK
<1>2. i + 2 \in Id /\ i + 2 >= 3 /\ InTable(i + 2) /\ (i + 2) - 2 = i
  BY <1>1, StreamsAssumption DEF Id, InTable
<1>3. HandleOf(i + 2) = streams[i] /\ streams[i].mode = "Closed"
  BY <1>2 DEF HandleOf, IsFirstEmpty, Empty
<1> QED BY <1>2, <1>3, EntryType, HandleCases

(* What a read or a peek of a source finds there. *)
LEMMA SourceType ==
  ASSUME TypeOK, NEW n \in Id, IsReader(n)
  PROVE  /\ SourceOf(n) \in Handle
         /\ SourceOf(n).mode = "Read"
         /\ SourceOf(n).ino = HandleOf(n).ino
         /\ SourceOf(n).buf \in Seq(Unit)
         /\ \A b \in Seq(Unit) : [SourceOf(n) EXCEPT !.buf = b] \in Handle
         /\ InTable(n) /\ n >= 3
<1>1. HandleOf(n) \in Handle /\ HandleOf(n).mode = "Read" /\ InTable(n)
  BY EntryType DEF IsReader
<1>2. data[HandleOf(n).ino] \in Seq(Unit)
  BY <1>1, HandleCases DEF TypeOK
<1> QED BY <1>1, <1>2, FilledType DEF SourceOf, InTable

LEMMA AheadType ==
  ASSUME TypeOK, NEW n \in Id, Readable(n)
  PROVE  /\ Ahead(n) \in Seq(Unit)
         /\ Rest(Ahead(n)) \in Seq(Unit)
         /\ Decodable(Ahead(n)) => Head(Ahead(n)) \in Char
<1>1. Ahead(n) \in Seq(Unit)
  BY SourceType DEF Readable, Ahead, TypeOK
<1> QED BY <1>1, RestType, HeadTailProperties DEF Decodable, Unit
-----------------------------------------------------------------------------
(* The invariant: std_io empties the peek buffers before it clears the     *)
(* table, so that none is left behind by an entry it drops, and it drops   *)
(* the entries in order.                                                   *)
IInv == /\ TypeOK
        /\ NoStalePeek
        /\ clearing # 0 => \A n \in Id : peek_buf[n] = None
        /\ \A i \in 1 .. clearing - 1 : streams[i] = Closed

LEMMA InitInv == Init => IInv
<1> SUFFICES ASSUME Init PROVE IInv
  OBVIOUS
<1>1. PICK d \in Disks : names = d.names /\ data = d.data
  BY DEF Init
<1>2. d \in Disk /\ stdin \in Seq(Unit)
  BY StreamsAssumption DEF Init
<1>3. names \in [Path -> Inode \cup {NoInode}] /\ data \in [Inode -> Seq(Unit)]
  BY <1>1, <1>2 DEF Disk
<1>4. peek_buf \in [Id -> Char \cup {None}] /\ \A n \in Id : peek_buf[n] = None
  BY DEF Init
<1>5. streams \in Seq(Handle) /\ Len(streams) = 0 /\ clearing = 0
  BY EmptySeq DEF Init
<1> QED BY <1>2, <1>3, <1>4, <1>5, StreamsAssumption DEF IInv, TypeOK, NoStalePeek

\* A call that replaces the handle of one reader by another reader.
LEMMA SourceMoves ==
  ASSUME IInv, NEW n \in Id, Readable(n), ReadOneChar(n), UNCHANGED clearing
  PROVE  /\ stdin' \in Seq(Unit)
         /\ streams' \in Seq(Handle)
         /\ Len(streams') = Len(streams)
         /\ \A m \in Id : Readable(m)' = Readable(m)
<1>1. CASE n = 0
  <2>1. stdin' \in Seq(Unit) /\ UNCHANGED streams
    BY <1>1, RestType DEF ReadOneChar, IInv, TypeOK
  <2> QED BY <2>1 DEF IInv, TypeOK, Readable, IsReader, HandleOf, InTable
<1>2. CASE n # 0
  <2> DEFINE h == [SourceOf(n) EXCEPT !.buf = Rest(SourceOf(n).buf)]
  <2>1. h \in Handle /\ InTable(n)
    BY <1>2, SourceType, RestType DEF Readable, IInv
  <2>2. h.mode = "Read"
    BY <1>2, SourceType, HandleCases DEF Readable, IInv, Handle, Closed
  <2>3. streams' = [streams EXCEPT ![n - 2] = h] /\ UNCHANGED stdin
    BY <1>2 DEF ReadOneChar
  <2> HIDE DEF h
  <2>4. /\ streams' \in Seq(Handle)
        /\ Len(streams') = Len(streams)
        /\ \A m \in Id : HandleOf(m)' = IF m = n THEN h ELSE HandleOf(m)
    BY <2>1, <2>3, SetEntry DEF IInv
  <2>5. IsReader(n)
    BY <1>2 DEF Readable
  <2> QED BY <2>2, <2>3, <2>4, <2>5 DEF IInv, TypeOK, Readable, IsReader
<1> QED BY <1>1, <1>2

\* Nothing that IInv speaks of changes, or the answer only.
LEMMA UnsupportedInv ==
  ASSUME IInv, NEW op, NEW n, Unsupported(op, n), UNCHANGED clearing
  PROVE  IInv'
BY DEF Unsupported, files, IInv, TypeOK, NoStalePeek, Readable, IsReader, HandleOf, InTable

LEMMA ReadInv ==
  ASSUME IInv, clearing = 0, NEW n \in Id, ReadStreamChar(n), UNCHANGED clearing
  PROVE  IInv'
<1>1. CASE /\ peek_buf[n] # None
           /\ peek_buf' = [peek_buf EXCEPT ![n] = None]
           /\ UNCHANGED <<files, stdin, streams>>
  BY <1>1 DEF files, IInv, TypeOK, NoStalePeek, Readable, IsReader, HandleOf, InTable
<1>2. CASE peek_buf[n] = None /\ Readable(n) /\ ReadOneChar(n) /\ UNCHANGED <<files, peek_buf>>
  BY <1>2, SourceMoves DEF files, IInv, TypeOK, NoStalePeek
<1>3. CASE Unsupported("read", n)
  BY <1>3, UnsupportedInv
<1> QED BY <1>1, <1>2, <1>3 DEF ReadStreamChar

LEMMA PeekInv ==
  ASSUME IInv, clearing = 0, NEW n \in Id, PeekStreamChar(n), UNCHANGED clearing
  PROVE  IInv'
<1>1. CASE UNCHANGED <<files, stdin, peek_buf, streams>>
  BY <1>1 DEF files, IInv, TypeOK, NoStalePeek, Readable, IsReader, HandleOf, InTable
<1>2. CASE /\ Readable(n)
           /\ ReadOneChar(n)
           /\ peek_buf' = [peek_buf EXCEPT ![n] =
                             IF Decodable(Ahead(n)) THEN Head(Ahead(n)) ELSE None]
           /\ UNCHANGED files
  <2>1. peek_buf' \in [Id -> Char \cup {None}]
    BY <1>2, AheadType DEF IInv, TypeOK
  <2>2. \A m \in Id : m # n => peek_buf'[m] = peek_buf[m]
    BY <1>2 DEF IInv, TypeOK
  <2> QED BY <1>2, <2>1, <2>2, SourceMoves DEF files, IInv, TypeOK, NoStalePeek
<1>3. CASE Unsupported("peek", n)
  BY <1>3, UnsupportedInv
<1> QED BY <1>1, <1>2, <1>3 DEF PeekStreamChar

LEMMA WriteInv ==
  ASSUME IInv, clearing = 0, NEW n \in Id, NEW c \in Char, WriteStream(n, c),
         UNCHANGED clearing
  PROVE  IInv'
<1>1. CASE UNCHANGED <<files, stdin, peek_buf, streams>>
  BY <1>1 DEF files, IInv, TypeOK, NoStalePeek, Readable, IsReader, HandleOf, InTable
<1>2. ASSUME IsWriter(n), NEW h \in Handle, h.mode = "Write",
             streams' = [streams EXCEPT ![n - 2] = h],
             data' \in [Inode -> Seq(Unit)], UNCHANGED <<names, stdin, peek_buf>>
      PROVE  IInv'
  <2>1. InTable(n) /\ ~IsReader(n)
    BY <1>2, EntryType DEF IInv, IsWriter, IsReader
  <2>2. /\ streams' \in Seq(Handle)
        /\ Len(streams') = Len(streams)
        /\ \A m \in Id : HandleOf(m)' = IF m = n THEN h ELSE HandleOf(m)
    BY <1>2, <2>1, SetEntry DEF IInv
  <2> QED BY <1>2, <2>1, <2>2 DEF IInv, TypeOK, NoStalePeek, Readable, IsReader
<1>3. CASE IsWriter(n)
  <2>1. HandleOf(n) \in Handle /\ HandleOf(n).mode = "Write" /\ n \notin {1, 2}
    BY <1>3, EntryType DEF IInv, IsWriter, InTable
  <2>2. Flush(data, HandleOf(n)) \in [Inode -> Seq(Unit)]
    BY <2>1, FlushType DEF IInv, TypeOK
  <2> QED BY <1>2, <1>3, <2>1, <2>2, AppendedType DEF WriteStream, IInv, TypeOK
<1>4. CASE Unsupported("write", n)
  BY <1>4, UnsupportedInv
<1> QED BY <1>1, <1>3, <1>4 DEF WriteStream

LEMMA InstallInv ==
  ASSUME IInv, clearing = 0, NEW p \in Path, NEW h \in Handle, Install(p, h),
         names' \in [Path -> Inode \cup {NoInode}], data' \in [Inode -> Seq(Unit)],
         UNCHANGED <<stdin, peek_buf, clearing>>
  PROVE  IInv'
<1>1. ASSUME NEW n \in Id, ~IsReader(n), streams' \in Seq(Handle),
             Len(streams') + 2 <= MaxId, Len(streams') >= Len(streams),
             \A m \in Id : HandleOf(m)' = IF m = n THEN h ELSE HandleOf(m)
      PROVE  IInv'
  <2>1. Len(streams) \in Nat /\ Len(streams') \in Nat
    BY <1>1, LenProperties DEF IInv, TypeOK
  <2>2. n # 0 => peek_buf[n] = None
    BY <1>1 DEF IInv, NoStalePeek, Readable
  <2> QED BY <1>1, <2>1, <2>2, SMTT(30) DEF IInv, TypeOK, NoStalePeek, Readable, IsReader
<1>2. ASSUME NEW i \in 1 .. Len(streams), IsFirstEmpty(i), streams' = [streams EXCEPT ![i] = h]
      PROVE  IInv'
  <2>1. /\ i + 2 \in Id /\ InTable(i + 2) /\ (i + 2) - 2 = i
        /\ ~IsReader(i + 2)
    BY <1>2, EmptyEntry, NewHandles DEF IInv, IsReader, Closed
  <2>2. streams' = [streams EXCEPT ![(i + 2) - 2] = h]
    BY <1>2, <2>1
  <2>3. /\ streams' \in Seq(Handle)
        /\ Len(streams') = Len(streams)
        /\ \A m \in Id : HandleOf(m)' = IF m = i + 2 THEN h ELSE HandleOf(m)
    BY <2>1, <2>2, SetEntry DEF IInv
  <2>4. Len(streams) \in Nat /\ Len(streams) + 2 <= MaxId
    BY LenProperties DEF IInv, TypeOK
  <2> QED BY <1>1, <2>1, <2>3, <2>4
<1>3. CASE Len(streams) + 3 <= MaxId /\ streams' = Append(streams, h)
  <2>1. Len(streams) \in Nat /\ Len(streams) + 3 \in Id
    BY <1>3, LenProperties, StreamsAssumption DEF IInv, TypeOK, Id
  <2>2. /\ streams' \in Seq(Handle)
        /\ Len(streams') = Len(streams) + 1
        /\ \A m \in Id : HandleOf(m)' = IF m = Len(streams) + 3 THEN h ELSE HandleOf(m)
        /\ HandleOf(Len(streams) + 3) = Closed
    BY <1>3, AddEntry DEF IInv
  <2>3. ~IsReader(Len(streams) + 3)
    BY <2>2 DEF IsReader, Closed
  <2>4. Len(streams') + 2 <= MaxId /\ Len(streams') >= Len(streams)
    BY <1>3, <2>1, <2>2, StreamsAssumption
  <2> QED BY <1>1, <2>1, <2>2, <2>3, <2>4
<1>4. CASE UNCHANGED streams
  BY <1>4 DEF IInv, TypeOK, NoStalePeek, Readable, IsReader, HandleOf, InTable
<1> QED BY <1>2, <1>3, <1>4 DEF Install

LEMMA OpenInv ==
  ASSUME IInv, clearing = 0, NEW p \in Path, NEW mode, OpenFile(p, mode),
         UNCHANGED clearing
  PROVE  IInv'
<1>1. CASE names[p] # NoInode /\ Install(p, Reader(names[p])) /\ UNCHANGED files
  <2>1. Reader(names[p]) \in Handle
    BY <1>1, NewHandles DEF IInv, TypeOK
  <2> QED BY <1>1, <2>1, InstallInv DEF OpenFile, files, IInv, TypeOK
<1>2. ASSUME NEW i \in CreateTargets(p, names, {HandleOf(n) : n \in Id}),
             names' = [names EXCEPT ![p] = i], data' = [data EXCEPT ![i] = <<>>],
             Install(p, Writer(i))
      PROVE  IInv'
  <2>1. i \in Inode
    BY <1>2 DEF CreateTargets, IInv, TypeOK
  <2>2. /\ names' \in [Path -> Inode \cup {NoInode}]
        /\ data' \in [Inode -> Seq(Unit)]
    BY <1>2, <2>1, EmptySeq DEF IInv, TypeOK
  <2>3. Writer(i) \in Handle
    BY <2>1, NewHandles
  <2> QED BY <1>2, <2>2, <2>3, InstallInv DEF OpenFile
<1>3. CASE UNCHANGED <<files, streams>>
  BY <1>3 DEF OpenFile, files, IInv, TypeOK, NoStalePeek, Readable, IsReader, HandleOf, InTable
<1> QED BY <1>1, <1>2, <1>3 DEF OpenFile, NotOpened

LEMMA CloseInv ==
  ASSUME IInv, clearing = 0, NEW n \in Id, CloseStream(n), UNCHANGED clearing
  PROVE  IInv'
<1>1. CASE IsReader(n) \/ IsWriter(n)
  <2>1. InTable(n) /\ HandleOf(n) \in Handle /\ Closed \in Handle
    BY <1>1, EntryType DEF IInv, IsReader, IsWriter, Handle
  <2>2. /\ streams' = [streams EXCEPT ![n - 2] = Closed]
        /\ peek_buf' = [peek_buf EXCEPT ![n] = None]
        /\ data' = Flush(data, HandleOf(n))
        /\ UNCHANGED <<names, stdin>>
    BY <1>1 DEF CloseStream
  <2>3. /\ streams' \in Seq(Handle)
        /\ Len(streams') = Len(streams)
        /\ \A m \in Id : HandleOf(m)' = IF m = n THEN Closed ELSE HandleOf(m)
    BY <2>1, <2>2, SetEntry DEF IInv
  <2>4. data' \in [Inode -> Seq(Unit)]
    BY <2>1, <2>2, FlushType DEF IInv, TypeOK
  <2>5. /\ peek_buf' \in [Id -> Char \cup {None}]
        /\ \A m \in Id : peek_buf'[m] = IF m = n THEN None ELSE peek_buf[m]
    BY <2>2 DEF IInv, TypeOK
  <2> QED BY <2>2, <2>3, <2>4, <2>5 DEF IInv, TypeOK, NoStalePeek, Readable, IsReader
<1>2. CASE Unsupported("close", n)
  BY <1>2, UnsupportedInv
<1> QED BY <1>1, <1>2 DEF CloseStream

LEMMA FileInv ==
  ASSUME IInv, NEW p \in Path, FileExists(p) \/ DeleteFile(p), UNCHANGED clearing
  PROVE  IInv'
<1>1. /\ names' \in [Path -> Inode \cup {NoInode}]
      /\ UNCHANGED <<data, stdin, peek_buf, streams>>
  BY DEF FileExists, DeleteFile, files, IInv, TypeOK
<1> QED BY <1>1 DEF IInv, TypeOK, NoStalePeek, Readable, IsReader, HandleOf, InTable

LEMMA ResetInv ==
  ASSUME IInv, \/ clearing = 0 /\ StdIo
               \/ clearing # 0 /\ ClearEntry
               \/ clearing # 0 /\ ClearDone
  PROVE  IInv'
<1>0. Len(streams) \in Nat
  BY LenProperties DEF IInv, TypeOK
<1>1. CASE clearing = 0 /\ StdIo
  BY <1>0, <1>1 DEF StdIo, files, IInv, TypeOK, NoStalePeek
<1>2. CASE clearing # 0 /\ ClearEntry
  <2>1. clearing \in 1 .. Len(streams)
    BY <1>0, <1>2 DEF ClearEntry, IInv, TypeOK
  <2>2. streams[clearing] \in Handle /\ Closed \in Handle
    BY <2>1, ElementOfSeq DEF IInv, TypeOK, Handle
  <2>3. streams' \in Seq(Handle) /\ Len(streams') = Len(streams)
    BY <1>2, <2>1, <2>2, ExceptSeq DEF ClearEntry, IInv, TypeOK
  <2>4. data' \in [Inode -> Seq(Unit)]
    BY <1>2, <2>2, FlushType DEF ClearEntry, IInv, TypeOK
  <2> QED BY <1>0, <1>2, <2>1, <2>3, <2>4 DEF ClearEntry, IInv, TypeOK, NoStalePeek
<1>3. CASE clearing # 0 /\ ClearDone
  <2>1. streams' \in Seq(Handle) /\ Len(streams') = 0
    BY <1>3, EmptySeq DEF ClearDone
  <2> QED BY <1>0, <1>3, <2>1, StreamsAssumption DEF ClearDone, files, IInv, TypeOK, NoStalePeek
<1> QED BY <1>1, <1>2, <1>3

LEMMA NextInv == IInv /\ [Next]_vars => IInv'
<1> SUFFICES ASSUME IInv, [Next]_vars PROVE IInv'
  OBVIOUS
<1>1. CASE clearing = 0 /\ Call /\ UNCHANGED clearing
  BY <1>1, ReadInv, PeekInv, CloseInv, WriteInv, OpenInv, FileInv DEF Call
<1>2. CASE \/ clearing = 0 /\ StdIo
           \/ clearing # 0 /\ ClearEntry
           \/ clearing # 0 /\ ClearDone
  BY <1>2, ResetInv
<1>3. CASE UNCHANGED vars
  BY <1>3 DEF vars, IInv, TypeOK, NoStalePeek, Readable, IsReader, HandleOf, InTable
<1> QED BY <1>1, <1>2, <1>3 DEF Next

(* The invariant holds throughout. *)
THEOREM Invariance == Spec => []IInv
<1> QED BY InitInv, NextInv, PTL DEF Spec

(* For every number of streams, buffer size and set of files, the table,   *)
(* the peek buffers and the files keep their shape; no stream number       *)
(* exceeds the largest.                                                    *)
THEOREM StreamsTypeCorrect == Spec => []TypeOK
<1> QED BY Invariance, PTL DEF IInv

(* No peeked character is left to the next stream that gets the number.    *)
THEOREM PeekBuffersFresh == Spec => []NoStalePeek
<1> QED BY Invariance, PTL DEF IInv
-----------------------------------------------------------------------------
(* The refinement.  GriftCursors takes the same files, so its operators on *)
(* them are those of GriftStreams.                                         *)

LEMMA SameFiles ==
  /\ C!Closed = Closed
  /\ \A i : C!Reader(i) = Reader(i) /\ C!Writer(i) = Writer(i)
  /\ \A d, h : C!Flush(d, h) = Flush(d, h)
  /\ \A h : C!Flushed(h) = Flushed(h)
  /\ \A h, c : C!Appended(h, c) = Appended(h, c)
  /\ \A h, text : C!NoReadAhead(h, text) = NoReadAhead(h, text)
  /\ \A h, text, k : C!Advance(h, text, k) = Advance(h, text, k)
  /\ \A u : C!Rest(u) = Rest(u)
  /\ \A op, n, u : C!Answer(op, n, u) = Answer(op, n, u)
  /\ \A p, ns, hs : C!CreateTargets(p, ns, hs) = CreateTargets(p, ns, hs)
  /\ C!Id = Id
  /\ C!Opened = 3 .. MaxId
BY DEF C!Closed, Closed, C!Reader, Reader, C!Writer, Writer, C!Flush, Flush,
       C!Overlay, Overlay, C!Flushed, Flushed, C!Appended, Appended,
       C!NoReadAhead, NoReadAhead, C!Advance, Advance, C!Rest, Rest,
       C!Answer, Answer, C!CreateTargets, CreateTargets, C!Id, Id, C!Opened

Cursors == [n \in 3 .. MaxId |-> Cursor(n)]

\* A character looked at comes before the others.
LEMMA PeekedFirst ==
  ASSUME NEW c \in Char, NEW units \in Seq(Unit)
  PROVE  /\ <<c>> \o units # <<>>
         /\ Head(<<c>> \o units) = c
         /\ Tail(<<c>> \o units) = units
         /\ <<c>> \o units \in Seq(Unit)
<1>1. <<c>> \in Seq(Unit) /\ Len(<<c>>) = 1 /\ <<c>>[1] = c
  BY DEF Unit
<1>2. /\ <<c>> \o units \in Seq(Unit)
      /\ Len(<<c>> \o units) = 1 + Len(units)
      /\ \A i \in 1 .. 1 + Len(units) :
           (<<c>> \o units)[i] = IF i <= 1 THEN <<c>>[i] ELSE units[i - 1]
  BY <1>1, ConcatProperties
<1>3. Len(units) \in Nat
  BY LenProperties
<1>4. <<c>> \o units # <<>> /\ Head(<<c>> \o units) = c
  BY <1>1, <1>2, <1>3, EmptySeq
<1>5. /\ Tail(<<c>> \o units) \in Seq(Unit)
      /\ Len(Tail(<<c>> \o units)) = Len(units)
      /\ \A i \in 1 .. Len(units) : Tail(<<c>> \o units)[i] = (<<c>> \o units)[i + 1]
  BY <1>2, <1>3, <1>4, HeadTailProperties
<1>6. \A i \in 1 .. Len(units) : Tail(<<c>> \o units)[i] = units[i]
  BY <1>2, <1>3, <1>5
<1>7. Tail(<<c>> \o units) = units
  BY <1>5, <1>6, SeqEqual
<1> QED BY <1>2, <1>4, <1>7

LEMMA HeadThenTail ==
  ASSUME NEW units \in Seq(Unit), units # <<>>
  PROVE  <<Head(units)>> \o Tail(units) = units
<1>1. Len(units) \in Nat \ {0} /\ Head(units) \in Unit /\ Tail(units) \in Seq(Unit)
  BY EmptySeq, HeadTailProperties
<1>2. <<Head(units)>> \in Seq(Unit) /\ Len(<<Head(units)>>) = 1
  BY <1>1
<1>3. /\ Len(Tail(units)) = Len(units) - 1
      /\ \A i \in 1 .. Len(units) - 1 : Tail(units)[i] = units[i + 1]
  BY HeadTailProperties
<1>4. /\ <<Head(units)>> \o Tail(units) \in Seq(Unit)
      /\ Len(<<Head(units)>> \o Tail(units)) = Len(units)
      /\ \A i \in 1 .. Len(units) : (<<Head(units)>> \o Tail(units))[i]
            = IF i <= 1 THEN <<Head(units)>>[i] ELSE Tail(units)[i - 1]
  BY <1>1, <1>2, <1>3, ConcatProperties
<1>5. \A i \in 1 .. Len(units) : (<<Head(units)>> \o Tail(units))[i] = units[i]
  <2> SUFFICES ASSUME NEW i \in 1 .. Len(units)
               PROVE  (<<Head(units)>> \o Tail(units))[i] = units[i]
    OBVIOUS
  <2>1. CASE i = 1
    BY <2>1, <1>4
  <2>2. CASE i # 1
    <3>1. i - 1 \in 1 .. Len(units) - 1 /\ ~(i <= 1)
      BY <2>2, <1>1
    <3>2. Tail(units)[i - 1] = units[(i - 1) + 1]
      BY <3>1, <1>3
    <3> QED BY <3>1, <3>2, <1>4
  <2> QED BY <2>1, <2>2
<1> QED BY <1>4, <1>5, SeqEqual

\* Cursors change where the table or a peek buffer does.
LEMMA CursorsSame ==
  ASSUME UNCHANGED clearing,
         \A m \in 3 .. MaxId : HandleOf(m)' = HandleOf(m) /\ peek_buf'[m] = peek_buf[m]
  PROVE  Cursors' = Cursors
BY DEF Cursors, Cursor, WithPeek

LEMMA CursorsSet ==
  ASSUME UNCHANGED clearing, NEW n \in 3 .. MaxId, NEW h, Cursor(n)' = h,
         \A m \in 3 .. MaxId : m # n => /\ HandleOf(m)' = HandleOf(m)
                                        /\ peek_buf'[m] = peek_buf[m]
  PROVE  Cursors' = [Cursors EXCEPT ![n] = h]
<1>1. \A m \in 3 .. MaxId : m # n => Cursor(m)' = Cursor(m)
  BY DEF Cursor, WithPeek
<1> HIDE DEF Cursor
<1> QED BY <1>1 DEF Cursors

\* Outside of a reset the modes of the cursors are those of the handles.
LEMMA CursorModes ==
  ASSUME IInv, clearing = 0, NEW n \in Id
  PROVE  /\ C!IsReader(n) <=> IsReader(n)
         /\ C!IsWriter(n) <=> IsWriter(n)
         /\ C!IsClosed(n) <=> n >= 3 /\ HandleOf(n) = Closed
         /\ n >= 3 /\ ~IsReader(n) => Cursors[n] = HandleOf(n)
         /\ IsReader(n) \/ IsWriter(n) => n \in 3 .. MaxId
<1>1. HandleOf(n) \in Handle /\ (HandleOf(n).mode # "Closed" => n >= 3)
  BY EntryType DEF IInv, InTable
<1>2. n >= 3 <=> n \in 3 .. MaxId
  BY StreamsAssumption DEF Id
<1>3. ASSUME n \in 3 .. MaxId
      PROVE  /\ Cursors[n].mode = HandleOf(n).mode
             /\ ~IsReader(n) => Cursors[n] = HandleOf(n)
  <2>1. Cursors[n] = Cursor(n)
    BY <1>3 DEF Cursors
  <2>2. CASE ~IsReader(n)
    BY <2>1, <2>2 DEF Cursor, IsReader
  <2>3. CASE IsReader(n)
    BY <1>1, <2>1, <2>3 DEF Cursor, IsReader, Handle, Closed
  <2> QED BY <2>1, <2>2, <2>3
<1>4. C!Opened = 3 .. MaxId
  BY DEF C!Opened
<1>5. HandleOf(n).mode = "Closed" <=> HandleOf(n) = Closed
  BY <1>1, HandleCases
<1> QED BY <1>1, <1>2, <1>3, <1>4, <1>5
        DEF C!IsReader, C!IsWriter, C!IsClosed, IsReader, IsWriter, Cursors

(* What a reader's cursor delivers: a peeked character and then what is    *)
(* buffered, or what the source reads ahead.                               *)
LEMMA PeekedCursor ==
  ASSUME IInv, clearing = 0, NEW n \in Id, IsReader(n), peek_buf[n] # None
  PROVE  /\ Cursors[n] = [HandleOf(n) EXCEPT !.buf = <<peek_buf[n]>> \o HandleOf(n).buf]
         /\ Cursors[n].buf = <<peek_buf[n]>> \o HandleOf(n).buf
         /\ Cursors[n] \in C!ReadAhead(Cursors[n], data[Cursors[n].ino])
         /\ [Cursors[n] EXCEPT !.buf = HandleOf(n).buf] = HandleOf(n)
         /\ [Cursors[n] EXCEPT !.buf = Cursors[n].buf] = Cursors[n]
<1>1. /\ HandleOf(n) \in [mode : {"Read"}, ino : Inode, pos : Nat, buf : Seq(Unit)]
      /\ n \in 3 .. MaxId
  <2>1. HandleOf(n) \in Handle /\ HandleOf(n).mode = "Read"
    BY EntryType DEF IInv, IsReader
  <2> QED BY <2>1, CursorModes DEF Handle, Closed
<1>2. Cursors[n] = [HandleOf(n) EXCEPT !.buf = <<peek_buf[n]>> \o HandleOf(n).buf]
  BY <1>1 DEF Cursors, Cursor, WithPeek
<1>3. peek_buf[n] \in Char
  BY DEF IInv, TypeOK
<1>4. /\ <<peek_buf[n]>> \o HandleOf(n).buf # <<>>
      /\ <<peek_buf[n]>> \o HandleOf(n).buf \in Seq(Unit)
  BY <1>1, <1>3, PeekedFirst
<1>5. /\ Cursors[n] \in [mode : {"Read"}, ino : Inode, pos : Nat, buf : Seq(Unit)]
      /\ Cursors[n].buf = <<peek_buf[n]>> \o HandleOf(n).buf
      /\ [Cursors[n] EXCEPT !.buf = HandleOf(n).buf] = HandleOf(n)
  BY <1>1, <1>2, <1>4
<1>6. C!NoReadAhead(Cursors[n], data[Cursors[n].ino])
  BY <1>4, <1>5 DEF C!NoReadAhead
<1> QED BY <1>2, <1>5, <1>6 DEF C!ReadAhead

LEMMA SourceAhead ==
  ASSUME IInv, clearing = 0, NEW n \in Id, IsReader(n), peek_buf[n] = None
  PROVE  /\ Cursors[n] = HandleOf(n)
         /\ SourceOf(n) \in C!ReadAhead(Cursors[n], data[Cursors[n].ino])
<1>1. /\ HandleOf(n) \in [mode : {"Read"}, ino : Inode, pos : Nat, buf : Seq(Unit)]
      /\ n \in 3 .. MaxId
  <2>1. HandleOf(n) \in Handle /\ HandleOf(n).mode = "Read"
    BY EntryType DEF IInv, IsReader
  <2> QED BY <2>1, CursorModes DEF Handle, Closed
<1>2. Cursors[n] = [HandleOf(n) EXCEPT !.buf = HandleOf(n).buf]
  BY <1>1 DEF Cursors, Cursor, WithPeek
<1>3. Cursors[n] = HandleOf(n)
  BY <1>1, <1>2
<1> DEFINE h == HandleOf(n)
           text == data[HandleOf(n).ino]
<1>4. h.pos \in Nat /\ Len(text) \in Nat
  <2>1. text \in Seq(Unit)
    BY <1>1 DEF IInv, TypeOK
  <2> QED BY <1>1, <2>1, LenProperties
<1>5. CASE NoReadAhead(h, text)
  BY <1>3, <1>5, SameFiles DEF SourceOf, Filled, C!ReadAhead
<1>6. CASE ~NoReadAhead(h, text)
  <2> DEFINE k == IF BufCap < Len(text) - h.pos THEN BufCap ELSE Len(text) - h.pos
  <2>1. k \in 1 .. Len(text) - h.pos
    BY <1>4, <1>6, StreamsAssumption DEF NoReadAhead
  <2>2. SourceOf(n) = Advance(h, text, k)
    BY <1>6 DEF SourceOf, Filled
  <2>3. C!ReadAhead(h, text) = {Advance(h, text, j) : j \in 1 .. Len(text) - h.pos}
    BY <1>6, SameFiles DEF C!ReadAhead
  <2> HIDE DEF k, h, text
  <2>4. SourceOf(n) \in C!ReadAhead(h, text)
    BY <2>1, <2>2, <2>3
  <2> QED BY <1>3, <2>4 DEF h, text
<1> QED BY <1>3, <1>5, <1>6

\* The steps of the two machines, by what the cursor n does.
LEMMA DeliverInput ==
  ASSUME UNCHANGED <<names, data, Cursors>>, NEW op,
         res' = Answer(op, 0, WithPeek(0, stdin))
  PROVE  /\ op = "read" /\ WithPeek(0, stdin)' = Rest(WithPeek(0, stdin)) => C!Read(0)
         /\ op = "peek" /\ WithPeek(0, stdin)' = C!Unpeeked(WithPeek(0, stdin)) => C!Peek(0)
BY SameFiles DEF C!Read, C!Peek, C!Deliver, Cursors

LEMMA DeliverFile ==
  ASSUME NEW n, C!IsReader(n), UNCHANGED <<names, data, WithPeek(0, stdin)>>,
         NEW op, NEW h \in C!ReadAhead(Cursors[n], data[Cursors[n].ino]),
         res' = Answer(op, n, h.buf)
  PROVE  /\ op = "read" /\ Cursors' = [Cursors EXCEPT ![n] = [h EXCEPT !.buf = Rest(h.buf)]]
              => C!Read(n)
         /\ op = "peek" /\ Cursors' = [Cursors EXCEPT ![n] = [h EXCEPT !.buf = C!Unpeeked(h.buf)]]
              => C!Peek(n)
BY SameFiles DEF C!Read, C!Peek, C!Deliver, Cursors

\* Number 0 is not in the table, and a call on a source leaves the others.
LEMMA SourceMovesOne ==
  ASSUME IInv, NEW n \in Id, Readable(n), ReadOneChar(n)
  PROVE  /\ n = 0 => stdin' = Rest(stdin) /\ UNCHANGED streams
         /\ n # 0 => /\ UNCHANGED stdin
                     /\ HandleOf(n)' = [SourceOf(n) EXCEPT !.buf = Rest(SourceOf(n).buf)]
         /\ \A m \in Id : m # n => HandleOf(m)' = HandleOf(m)
<1>1. CASE n = 0
  BY <1>1 DEF ReadOneChar, HandleOf, InTable
<1>2. CASE n # 0
  <2> DEFINE h == [SourceOf(n) EXCEPT !.buf = Rest(SourceOf(n).buf)]
  <2>1. h \in Handle /\ InTable(n)
    BY <1>2, SourceType, RestType DEF Readable, IInv
  <2>2. streams' = [streams EXCEPT ![n - 2] = h] /\ UNCHANGED stdin
    BY <1>2 DEF ReadOneChar
  <2> HIDE DEF h
  <2>3. \A m \in Id : HandleOf(m)' = IF m = n THEN h ELSE HandleOf(m)
    BY <2>1, <2>2, SetEntry DEF IInv
  <2> QED BY <1>2, <2>2, <2>3 DEF h
<1> QED BY <1>1, <1>2

LEMMA UnchangedCursors ==
  ASSUME UNCHANGED <<stdin, peek_buf, streams, clearing>>, StreamsAssumption
  PROVE  /\ WithPeek(0, stdin)' = WithPeek(0, stdin)
         /\ Cursors' = Cursors
<1>1. \A m \in 3 .. MaxId : HandleOf(m)' = HandleOf(m)
  BY DEF HandleOf, InTable
<1> QED BY <1>1, CursorsSame DEF WithPeek

LEMMA UnsupportedRefines ==
  ASSUME NEW op, NEW n, Unsupported(op, n), UNCHANGED clearing
  PROVE  C!Unsupported(op, n)
BY UnchangedCursors, StreamsAssumption DEF Unsupported, C!Unsupported, files, Cursors

LEMMA ReadRefines ==
  ASSUME IInv, clearing = 0, NEW n \in Id, ReadStreamChar(n), UNCHANGED clearing
  PROVE  C!Read(n)
<1>0. 0 \in Id /\ (n # 0 <=> n \in Id \ {0})
  BY StreamsAssumption DEF Id
<1>1. CASE peek_buf[n] # None
  <2>1. /\ res' = <<"read", n, "Ok", peek_buf[n]>>
        /\ peek_buf' = [peek_buf EXCEPT ![n] = None]
        /\ UNCHANGED <<names, data, stdin, streams>>
    BY <1>1 DEF ReadStreamChar, files
  <2>2. /\ peek_buf'[n] = None
        /\ \A m \in Id : m # n => peek_buf'[m] = peek_buf[m]
        /\ peek_buf[n] \in Char
    BY <1>1, <2>1 DEF IInv, TypeOK
  <2>3. \A m \in Id : HandleOf(m)' = HandleOf(m)
    BY <2>1 DEF HandleOf, InTable
  <2>4. CASE n = 0
    <3>1. WithPeek(0, stdin) = <<peek_buf[0]>> \o stdin /\ WithPeek(0, stdin)' = stdin
      BY <1>1, <2>1, <2>2, <2>4 DEF WithPeek
    <3>2. /\ res' = Answer("read", 0, WithPeek(0, stdin))
          /\ Rest(WithPeek(0, stdin)) = stdin
      BY <2>1, <2>2, <2>4, <3>1, PeekedFirst, FilesAssumption DEF Answer, Rest, IInv, TypeOK
    <3>3. Cursors' = Cursors
      <4>1. \A m \in 3 .. MaxId : m \in Id /\ m # 0
        BY DEF Id
      <4> QED BY <2>2, <2>3, <2>4, <4>1, CursorsSame
    <3> QED BY <2>1, <2>4, <3>1, <3>2, <3>3, DeliverInput
  <2>5. CASE n # 0
    <3>1. IsReader(n) /\ C!IsReader(n) /\ n \in 3 .. MaxId
      BY <1>1, <2>5, CursorModes DEF IInv, NoStalePeek, Readable
    <3>2. HandleOf(n).buf \in Seq(Unit)
      BY EntryType, HandleCases DEF IInv
    <3> DEFINE h == Cursors[n]
    <3>3. /\ h \in C!ReadAhead(Cursors[n], data[Cursors[n].ino])
          /\ h.buf = <<peek_buf[n]>> \o HandleOf(n).buf
          /\ [h EXCEPT !.buf = HandleOf(n).buf] = HandleOf(n)
      BY <1>1, <3>1, PeekedCursor
    <3>4. res' = Answer("read", n, h.buf) /\ Rest(h.buf) = HandleOf(n).buf
      BY <2>1, <2>2, <3>2, <3>3, PeekedFirst, FilesAssumption DEF Answer, Rest
    <3>5. Cursor(n)' = HandleOf(n)
      <4>1. Cursor(n)' = [HandleOf(n) EXCEPT !.buf = HandleOf(n).buf]
        BY <2>2, <2>3, <3>1 DEF Cursor, WithPeek, IsReader
      <4>2. HandleOf(n) \in [mode : {"Read"}, ino : Inode, pos : Nat, buf : Seq(Unit)]
        BY <3>1, EntryType DEF IInv, IsReader, Handle, Closed
      <4> QED BY <4>1, <4>2
    <3>6. Cursors' = [Cursors EXCEPT ![n] = [h EXCEPT !.buf = Rest(h.buf)]]
      <4>1. \A m \in 3 .. MaxId : m \in Id
        BY DEF Id
      <4>2. Cursors' = [Cursors EXCEPT ![n] = HandleOf(n)]
        BY <2>2, <2>3, <3>1, <3>5, <4>1, CursorsSet
      <4> QED BY <3>3, <3>4, <4>2
    <3>7. WithPeek(0, stdin)' = WithPeek(0, stdin)
      BY <1>0, <2>1, <2>2, <2>5 DEF WithPeek
    <3> HIDE DEF h
    <3> QED BY <2>1, <3>1, <3>3, <3>4, <3>6, <3>7, DeliverFile
  <2> QED BY <2>4, <2>5
<1>2. CASE peek_buf[n] = None /\ Readable(n)
  <2>1. /\ res' = Answer("read", n, Ahead(n))
        /\ ReadOneChar(n)
        /\ UNCHANGED <<names, data, peek_buf>>
    BY <1>2 DEF ReadStreamChar, files, Unsupported
  <2>2. \A m \in Id : m # n => HandleOf(m)' = HandleOf(m)
    BY <1>2, <2>1, SourceMovesOne
  <2>3. CASE n = 0
    <3>1. WithPeek(0, stdin) = stdin /\ WithPeek(0, stdin)' = Rest(stdin)
      BY <1>2, <2>1, <2>3, SourceMovesOne DEF WithPeek
    <3>2. Cursors' = Cursors
      <4>1. \A m \in 3 .. MaxId : m \in Id /\ m # 0
        BY DEF Id
      <4> QED BY <2>1, <2>2, <2>3, <4>1, CursorsSame
    <3>3. res' = Answer("read", 0, WithPeek(0, stdin))
      BY <2>1, <2>3, <3>1 DEF Ahead
    <3> QED BY <2>1, <2>3, <3>1, <3>2, <3>3, DeliverInput
  <2>4. CASE n # 0
    <3>1. IsReader(n) /\ C!IsReader(n) /\ n \in 3 .. MaxId
      BY <1>2, <2>4, CursorModes DEF Readable
    <3>2. SourceOf(n) \in C!ReadAhead(Cursors[n], data[Cursors[n].ino])
      BY <1>2, <3>1, SourceAhead
    <3>3. HandleOf(n)' = [SourceOf(n) EXCEPT !.buf = Rest(SourceOf(n).buf)]
      BY <1>2, <2>1, <2>4, SourceMovesOne
    <3>4. Cursor(n)' = [SourceOf(n) EXCEPT !.buf = Rest(SourceOf(n).buf)]
      <4>1. SourceOf(n) \in [mode : {"Read"}, ino : Inode, pos : Nat, buf : Seq(Unit)]
        BY <3>1, SourceType DEF IInv, Handle, Closed
      <4> DEFINE b == Rest(SourceOf(n).buf)
      <4>2. HandleOf(n)' = [SourceOf(n) EXCEPT !.buf = b] /\ peek_buf'[n] = None
        BY <1>2, <2>1, <3>3
      <4>3. [SourceOf(n) EXCEPT !.buf = b].mode = "Read"
        BY <4>1
      <4> HIDE DEF b
      <4>4. Cursor(n)' = [[SourceOf(n) EXCEPT !.buf = b] EXCEPT !.buf = b]
        BY <4>1, <4>2, <4>3 DEF Cursor, WithPeek
      <4> QED BY <4>1, <4>4 DEF b
    <3>5. Cursors' = [Cursors EXCEPT ![n] = [SourceOf(n) EXCEPT !.buf = Rest(SourceOf(n).buf)]]
      <4>1. \A m \in 3 .. MaxId : m \in Id
        BY DEF Id
      <4> QED BY <2>1, <2>2, <3>1, <3>4, <4>1, CursorsSet
    <3>6. WithPeek(0, stdin)' = WithPeek(0, stdin)
      BY <1>2, <2>1, <2>4, SourceMovesOne DEF WithPeek
    <3>7. res' = Answer("read", n, SourceOf(n).buf)
      BY <2>1, <2>4 DEF Ahead
    <3> QED BY <2>1, <3>1, <3>2, <3>5, <3>6, <3>7, DeliverFile
  <2> QED BY <2>3, <2>4
<1>3. CASE peek_buf[n] = None /\ ~Readable(n)
  <2>1. Unsupported("read", n)
    BY <1>3 DEF ReadStreamChar
  <2>2. n # 0 /\ ~C!IsReader(n)
    BY <1>3, CursorModes DEF Readable
  <2> QED BY <2>1, <2>2, UnsupportedRefines DEF C!Read, C!Deliver
<1> QED BY <1>1, <1>2, <1>3

\* What remains once a peek has put what it could decode in the buffer.
LEMMA PeekLeaves ==
  ASSUME NEW units \in Seq(Unit)
  PROVE  C!Unpeeked(units) = IF Decodable(units) THEN <<Head(units)>> \o Rest(units)
                                                 ELSE Rest(units)
<1>1. CASE Decodable(units)
  BY <1>1, HeadThenTail DEF Decodable, Rest, C!Unpeeked, C!Undecodable
<1>2. CASE ~Decodable(units)
  BY <1>2 DEF Decodable, Rest, C!Unpeeked, C!Undecodable
<1> QED BY <1>1, <1>2

LEMMA PeekRefines ==
  ASSUME IInv, clearing = 0, NEW n \in Id, PeekStreamChar(n), UNCHANGED clearing
  PROVE  C!Peek(n)
<1>0. \A m \in 3 .. MaxId : m \in Id /\ m # 0
  BY DEF Id
<1>1. CASE peek_buf[n] # None
  <2>1. /\ res' = <<"peek", n, "Ok", peek_buf[n]>>
        /\ UNCHANGED <<names, data, stdin, peek_buf, streams>>
        /\ peek_buf[n] \in Char
    BY <1>1 DEF PeekStreamChar, files, IInv, TypeOK
  <2>2. /\ WithPeek(0, stdin)' = WithPeek(0, stdin)
        /\ Cursors' = Cursors
    BY <2>1, UnchangedCursors, StreamsAssumption
  <2>3. ASSUME NEW units \in Seq(Unit)
        PROVE  LET all == <<peek_buf[n]>> \o units
               IN  C!Unpeeked(all) = all /\ res' = Answer("peek", n, all)
    BY <2>1, PeekedFirst, FilesAssumption DEF Answer, C!Unpeeked, C!Undecodable
  <2>4. CASE n = 0
    <3>1. WithPeek(0, stdin) = <<peek_buf[0]>> \o stdin /\ stdin \in Seq(Unit)
      BY <1>1, <2>4 DEF WithPeek, IInv, TypeOK
    <3> QED BY <2>1, <2>2, <2>3, <2>4, <3>1, DeliverInput
  <2>5. CASE n # 0
    <3>1. IsReader(n) /\ C!IsReader(n) /\ n \in 3 .. MaxId
      BY <1>1, <2>5, CursorModes DEF IInv, NoStalePeek, Readable
    <3>2. HandleOf(n).buf \in Seq(Unit)
      BY EntryType, HandleCases DEF IInv
    <3> DEFINE h == Cursors[n]
    <3>3. /\ h \in C!ReadAhead(Cursors[n], data[Cursors[n].ino])
          /\ h.buf = <<peek_buf[n]>> \o HandleOf(n).buf
          /\ [h EXCEPT !.buf = h.buf] = h
      BY <1>1, <3>1, PeekedCursor
    <3>4. C!Unpeeked(h.buf) = h.buf /\ res' = Answer("peek", n, h.buf)
      BY <2>3, <3>2, <3>3
    <3>5. Cursors' = [Cursors EXCEPT ![n] = [h EXCEPT !.buf = C!Unpeeked(h.buf)]]
      <4>1. [h EXCEPT !.buf = C!Unpeeked(h.buf)] = Cursors[n]
        BY <3>3, <3>4
      <4>2. [Cursors EXCEPT ![n] = Cursors[n]] = Cursors
        BY DEF Cursors
      <4> HIDE DEF h
      <4> QED BY <2>2, <4>1, <4>2
    <3> HIDE DEF h
    <3> QED BY <2>1, <2>2, <3>1, <3>3, <3>4, <3>5, DeliverFile
  <2> QED BY <2>4, <2>5
<1>2. CASE peek_buf[n] = None /\ Readable(n)
  <2> DEFINE b == Rest(Ahead(n))
             c == IF Decodable(Ahead(n)) THEN Head(Ahead(n)) ELSE None
  <2>1. /\ res' = Answer("peek", n, Ahead(n))
        /\ ReadOneChar(n)
        /\ peek_buf' = [peek_buf EXCEPT ![n] = c]
        /\ UNCHANGED <<names, data>>
    BY <1>2 DEF PeekStreamChar, files, Unsupported
  <2>2. /\ peek_buf'[n] = c
        /\ \A m \in Id : m # n => /\ HandleOf(m)' = HandleOf(m)
                                  /\ peek_buf'[m] = peek_buf[m]
    BY <1>2, <2>1, SourceMovesOne DEF IInv, TypeOK
  <2>3. IF c = None THEN b = C!Unpeeked(Ahead(n)) ELSE <<c>> \o b = C!Unpeeked(Ahead(n))
    BY <1>2, AheadType, PeekLeaves, StreamsAssumption DEF IInv
  <2>4. CASE n = 0
    <3>1. WithPeek(0, stdin) = stdin /\ Ahead(n) = stdin /\ stdin' = b
      BY <1>2, <2>1, <2>4, SourceMovesOne DEF WithPeek, Ahead
    <3>2. WithPeek(0, stdin)' = C!Unpeeked(WithPeek(0, stdin))
      BY <2>2, <2>3, <2>4, <3>1 DEF WithPeek
    <3>3. Cursors' = Cursors
      BY <1>0, <2>2, <2>4, CursorsSame
    <3> HIDE DEF b, c
    <3> QED BY <2>1, <2>4, <3>1, <3>2, <3>3, DeliverInput
  <2>5. CASE n # 0
    <3>1. IsReader(n) /\ C!IsReader(n) /\ n \in 3 .. MaxId
      BY <1>2, <2>5, CursorModes DEF Readable
    <3>2. SourceOf(n) \in C!ReadAhead(Cursors[n], data[Cursors[n].ino])
      BY <1>2, <3>1, SourceAhead
    <3>3. Ahead(n) = SourceOf(n).buf
      BY <2>5 DEF Ahead
    <3>4. HandleOf(n)' = [SourceOf(n) EXCEPT !.buf = b]
      BY <1>2, <2>1, <2>5, <3>3, SourceMovesOne
    <3>5. Cursor(n)' = [SourceOf(n) EXCEPT !.buf = C!Unpeeked(Ahead(n))]
      <4>1. SourceOf(n) \in [mode : {"Read"}, ino : Inode, pos : Nat, buf : Seq(Unit)]
        BY <3>1, SourceType DEF IInv, Handle, Closed
      <4> HIDE DEF b, c
      <4>2. /\ [SourceOf(n) EXCEPT !.buf = b].mode = "Read"
            /\ [SourceOf(n) EXCEPT !.buf = b].buf = b
            /\ \A u : [[SourceOf(n) EXCEPT !.buf = b] EXCEPT !.buf = u]
                        = [SourceOf(n) EXCEPT !.buf = u]
        BY <4>1
      <4>3. Cursor(n)' = [HandleOf(n)' EXCEPT !.buf = IF c = None THEN b ELSE <<c>> \o b]
        BY <2>2, <3>4, <4>2 DEF Cursor, WithPeek
      <4> QED BY <2>3, <3>4, <4>2, <4>3
    <3>6. Cursors' = [Cursors EXCEPT ![n] = [SourceOf(n) EXCEPT !.buf = C!Unpeeked(SourceOf(n).buf)]]
      BY <1>0, <2>2, <3>1, <3>3, <3>5, CursorsSet
    <3>7. WithPeek(0, stdin)' = WithPeek(0, stdin)
      <4>1. 0 \in Id
        BY StreamsAssumption DEF Id
      <4> QED BY <1>2, <2>1, <2>2, <2>5, <4>1, SourceMovesOne DEF WithPeek
    <3> HIDE DEF b, c
    <3> QED BY <2>1, <3>1, <3>2, <3>3, <3>6, <3>7, DeliverFile
  <2> QED BY <2>4, <2>5
<1>3. CASE peek_buf[n] = None /\ ~Readable(n)
  <2>1. Unsupported("peek", n)
    BY <1>3 DEF PeekStreamChar
  <2>2. n # 0 /\ ~C!IsReader(n)
    BY <1>3, CursorModes DEF Readable
  <2> QED BY <2>1, <2>2, UnsupportedRefines DEF C!Peek, C!Deliver
<1> QED BY <1>1, <1>2, <1>3

\* A call that gives number n another handle with nothing peeked at in it.
LEMMA EntryRefines ==
  ASSUME IInv, clearing = 0, UNCHANGED clearing, NEW n \in 3 .. MaxId, NEW h \in Handle,
         peek_buf'[n] = None,
         \A m \in Id : m # n => HandleOf(m)' = HandleOf(m) /\ peek_buf'[m] = peek_buf[m],
         HandleOf(n)' = h, UNCHANGED stdin
  PROVE  /\ Cursors' = [Cursors EXCEPT ![n] = h]
         /\ WithPeek(0, stdin)' = WithPeek(0, stdin)
<1>1. \A m \in 3 .. MaxId : m \in Id /\ m # 0
  BY DEF Id
<1>2. 0 \in Id /\ n # 0
  BY <1>1, StreamsAssumption DEF Id
<1>3. Cursor(n)' = h
  <2>1. CASE h.mode # "Read"
    BY <2>1 DEF Cursor
  <2>2. CASE h.mode = "Read"
    <3>1. h \in [mode : {"Read"}, ino : Inode, pos : Nat, buf : Seq(Unit)]
      BY <2>2 DEF Handle, Closed
    <3>2. Cursor(n)' = [h EXCEPT !.buf = h.buf]
      BY <2>2 DEF Cursor, WithPeek
    <3> QED BY <3>1, <3>2
  <2> QED BY <2>1, <2>2
<1>4. Cursors' = [Cursors EXCEPT ![n] = h]
  BY <1>1, <1>3, CursorsSet
<1> QED BY <1>2, <1>4 DEF WithPeek

LEMMA WriteRefines ==
  ASSUME IInv, clearing = 0, NEW n \in Id, NEW c \in Char, WriteStream(n, c),
         UNCHANGED clearing
  PROVE  C!Write(n, c)
<1>1. CASE n \in {1, 2}
  <2>1. res' = <<"write", n, "Ok", c>> /\ UNCHANGED <<names, data, stdin, peek_buf, streams>>
    BY <1>1 DEF WriteStream, IsWriter, HandleOf, InTable, Closed, files
  <2> QED BY <1>1, <2>1, UnchangedCursors, StreamsAssumption DEF C!Write, Cursors
<1>2. CASE IsWriter(n)
  <2>1. /\ n \in 3 .. MaxId /\ ~IsReader(n) /\ InTable(n) /\ C!IsWriter(n)
        /\ HandleOf(n) \in Handle /\ HandleOf(n).mode = "Write"
        /\ Cursors[n] = HandleOf(n)
    BY <1>2, CursorModes, EntryType DEF IInv, IsReader, IsWriter
  <2>2. peek_buf[n] = None
    BY <2>1 DEF IInv, NoStalePeek, Readable
  <2>3. ASSUME NEW h \in Handle, streams' = [streams EXCEPT ![n - 2] = h],
               UNCHANGED <<stdin, peek_buf>>
        PROVE  /\ Cursors' = [Cursors EXCEPT ![n] = h]
               /\ WithPeek(0, stdin)' = WithPeek(0, stdin)
    <3>1. \A m \in Id : HandleOf(m)' = IF m = n THEN h ELSE HandleOf(m)
      BY <2>1, <2>3, SetEntry DEF IInv
    <3> QED BY <2>1, <2>2, <2>3, <3>1, EntryRefines
  <2>4. /\ HandleOf(n).pos + Len(HandleOf(n).buf) < MaxLen
        /\ res' = <<"write", n, "Ok", c>>
        /\ \/ /\ streams' = [streams EXCEPT ![n - 2] = Appended(HandleOf(n), c)]
              /\ UNCHANGED data
           \/ /\ streams' = [streams EXCEPT ![n - 2] = Appended(Flushed(HandleOf(n)), c)]
              /\ data' = Flush(data, HandleOf(n))
        /\ UNCHANGED <<names, stdin, peek_buf>>
    BY <1>2, <2>1 DEF WriteStream
  <2>5. /\ Appended(HandleOf(n), c) \in Handle
        /\ Appended(Flushed(HandleOf(n)), c) \in Handle
    BY <2>1, AppendedType
  <2>6. /\ Cursors[n].pos + Len(Cursors[n].buf) < MaxLen
        /\ \/ /\ Cursors' = [Cursors EXCEPT ![n] = Appended(Cursors[n], c)]
              /\ UNCHANGED data
           \/ /\ Cursors' = [Cursors EXCEPT ![n] = Appended(Flushed(Cursors[n]), c)]
              /\ data' = Flush(data, Cursors[n])
        /\ WithPeek(0, stdin)' = WithPeek(0, stdin)
    BY <2>1, <2>3, <2>4, <2>5
  <2> QED BY <2>1, <2>4, <2>6, SameFiles DEF C!Write, Cursors
<1>3. CASE n \notin {1, 2} /\ ~IsWriter(n)
  <2>1. Unsupported("write", n) /\ ~C!IsWriter(n)
    BY <1>3, CursorModes DEF WriteStream
  <2> QED BY <1>3, <2>1, UnsupportedRefines DEF C!Write
<1> QED BY <1>1, <1>2, <1>3

LEMMA InstallRefines ==
  ASSUME IInv, clearing = 0, NEW p \in Path, NEW h \in Handle, Install(p, h),
         UNCHANGED <<stdin, peek_buf, clearing>>
  PROVE  C!Attach(p, h) /\ WithPeek(0, stdin)' = WithPeek(0, stdin)
<1>0. /\ C!Opened = 3 .. MaxId
      /\ Len(streams) \in Nat /\ Len(streams) + 2 <= MaxId
  BY LenProperties DEF C!Opened, IInv, TypeOK
<1>1. ASSUME NEW n \in Id, n >= 3, HandleOf(n) = Closed,
             \A m \in Id : HandleOf(m)' = IF m = n THEN h ELSE HandleOf(m),
             res' = <<"open", p, "Ok", n>>
      PROVE  C!Attach(p, h) /\ WithPeek(0, stdin)' = WithPeek(0, stdin)
  <2>1. n \in 3 .. MaxId /\ C!IsClosed(n) /\ ~IsReader(n)
    BY <1>1, CursorModes DEF Id, IsReader, Closed
  <2>2. peek_buf'[n] = None
    BY <2>1 DEF IInv, NoStalePeek, Readable
  <2>3. /\ Cursors' = [Cursors EXCEPT ![n] = h]
        /\ WithPeek(0, stdin)' = WithPeek(0, stdin)
    BY <1>1, <2>1, <2>2, EntryRefines
  <2> QED BY <1>0, <1>1, <2>1, <2>3 DEF C!Attach, Cursors
<1>2. ASSUME NEW i \in 1 .. Len(streams), IsFirstEmpty(i),
             streams' = [streams EXCEPT ![i] = h], res' = <<"open", p, "Ok", i + 2>>
      PROVE  C!Attach(p, h) /\ WithPeek(0, stdin)' = WithPeek(0, stdin)
  <2>1. /\ i + 2 \in Id /\ i + 2 >= 3 /\ InTable(i + 2) /\ (i + 2) - 2 = i
        /\ HandleOf(i + 2) = Closed
    BY <1>2, EmptyEntry DEF IInv
  <2>2. streams' = [streams EXCEPT ![(i + 2) - 2] = h]
    BY <1>2, <2>1
  <2>3. \A m \in Id : HandleOf(m)' = IF m = i + 2 THEN h ELSE HandleOf(m)
    BY <2>1, <2>2, SetEntry DEF IInv
  <2> QED BY <1>1, <1>2, <2>1, <2>3
<1>3. CASE /\ Len(streams) + 3 <= MaxId
           /\ streams' = Append(streams, h)
           /\ res' = <<"open", p, "Ok", Len(streams) + 3>>
  <2>1. Len(streams) + 3 \in Id /\ Len(streams) + 3 >= 3
    BY <1>0, <1>3, StreamsAssumption DEF Id
  <2>2. /\ \A m \in Id : HandleOf(m)' = IF m = Len(streams) + 3 THEN h ELSE HandleOf(m)
        /\ HandleOf(Len(streams) + 3) = Closed
    BY <1>3, AddEntry DEF IInv
  <2> QED BY <1>1, <1>3, <2>1, <2>2
<1>4. CASE /\ Empty = {} /\ Len(streams) + 3 > MaxId
           /\ res' = <<"open", p, "Unsupported", 0>>
           /\ UNCHANGED streams
  <2>1. ASSUME NEW n \in 3 .. MaxId PROVE ~C!IsClosed(n)
    <3>1. n \in Id /\ n - 2 \in 1 .. Len(streams) /\ InTable(n)
      BY <1>0, <1>4, StreamsAssumption DEF Id, InTable
    <3>2. HandleOf(n).mode # "Closed"
      BY <1>4, <3>1 DEF HandleOf, Empty
    <3> QED BY <3>1, <3>2, CursorModes DEF Closed
  <2>2. Cursors' = Cursors /\ WithPeek(0, stdin)' = WithPeek(0, stdin)
    BY <1>4, UnchangedCursors, StreamsAssumption
  <2> QED BY <1>0, <1>4, <2>1, <2>2 DEF C!Attach, Cursors
<1> QED BY <1>2, <1>3, <1>4 DEF Install

LEMMA OpenRefines ==
  ASSUME IInv, clearing = 0, NEW p \in Path, NEW mode, OpenFile(p, mode),
         UNCHANGED clearing
  PROVE  C!OpenToRead(p) \/ C!OpenToWrite(p) \/ C!OpenOther(p)
<1>0. UNCHANGED <<stdin, peek_buf>>
  BY DEF OpenFile
<1>1. CASE names[p] # NoInode /\ Install(p, Reader(names[p])) /\ UNCHANGED files
  <2>1. Reader(names[p]) \in Handle
    BY <1>1, NewHandles DEF IInv, TypeOK
  <2>2. C!Attach(p, Reader(names[p])) /\ WithPeek(0, stdin)' = WithPeek(0, stdin)
    BY <1>0, <1>1, <2>1, InstallRefines
  <2> QED BY <1>1, <2>2, SameFiles DEF C!OpenToRead, files
<1>2. ASSUME NEW i \in CreateTargets(p, names, {HandleOf(n) : n \in Id}),
             names' = [names EXCEPT ![p] = i], data' = [data EXCEPT ![i] = <<>>],
             Install(p, Writer(i))
      PROVE  C!OpenToWrite(p)
  <2>1. Writer(i) \in Handle
    BY <1>2, NewHandles DEF CreateTargets, IInv, TypeOK
  <2>2. C!Attach(p, Writer(i)) /\ WithPeek(0, stdin)' = WithPeek(0, stdin)
    BY <1>0, <1>2, <2>1, InstallRefines
  <2>3. \A n \in 3 .. MaxId : n \in Id /\ Cursors[n].ino = HandleOf(n).ino
    <3> SUFFICES ASSUME NEW n \in 3 .. MaxId
                 PROVE  n \in Id /\ Cursors[n].ino = HandleOf(n).ino
      OBVIOUS
    <3>1. n \in Id /\ HandleOf(n) \in Handle
      BY EntryType DEF IInv, Id
    <3>2. CASE HandleOf(n).mode = "Read"
      <4>1. HandleOf(n) \in [mode : {"Read"}, ino : Inode, pos : Nat, buf : Seq(Unit)]
        BY <3>1, <3>2 DEF Handle, Closed
      <4> QED BY <3>1, <3>2, <4>1 DEF Cursors, Cursor
    <3>3. CASE HandleOf(n).mode # "Read"
      BY <3>1, <3>3 DEF Cursors, Cursor
    <3> QED BY <3>1, <3>2, <3>3
  <2>4. i \in CreateTargets(p, names, {Cursors[n] : n \in 3 .. MaxId})
    BY <1>2, <2>3 DEF CreateTargets
  <2> QED BY <1>2, <2>2, <2>4, SameFiles DEF C!OpenToWrite, Cursors
<1>3. CASE NotOpened(p, "ReadFailed") \/ NotOpened(p, "WriteFailed") \/ NotOpened(p, "Unsupported")
  <2>1. Cursors' = Cursors /\ WithPeek(0, stdin)' = WithPeek(0, stdin)
    BY <1>0, <1>3, UnchangedCursors, StreamsAssumption DEF NotOpened
  <2> QED BY <1>3, <2>1 DEF NotOpened, files, C!OpenToRead, C!OpenToWrite, C!OpenOther, Cursors
<1> QED BY <1>1, <1>2, <1>3 DEF OpenFile

LEMMA CloseRefines ==
  ASSUME IInv, clearing = 0, NEW n \in Id, CloseStream(n), UNCHANGED clearing
  PROVE  C!Close(n)
<1>1. CASE IsReader(n) \/ IsWriter(n)
  <2>1. /\ n \in 3 .. MaxId /\ InTable(n) /\ HandleOf(n) \in Handle /\ Closed \in Handle
        /\ C!IsReader(n) \/ C!IsWriter(n)
    BY <1>1, CursorModes, EntryType DEF IInv, IsReader, IsWriter, Handle
  <2>2. /\ streams' = [streams EXCEPT ![n - 2] = Closed]
        /\ peek_buf' = [peek_buf EXCEPT ![n] = None]
        /\ data' = Flush(data, HandleOf(n))
        /\ res' = <<"close", n, "Ok", Nul>>
        /\ UNCHANGED <<names, stdin>>
    BY <1>1 DEF CloseStream
  <2>3. \A m \in Id : HandleOf(m)' = IF m = n THEN Closed ELSE HandleOf(m)
    BY <2>1, <2>2, SetEntry DEF IInv
  <2>4. \A m \in Id : peek_buf'[m] = IF m = n THEN None ELSE peek_buf[m]
    BY <2>2 DEF IInv, TypeOK
  <2>5. /\ Cursors' = [Cursors EXCEPT ![n] = Closed]
        /\ WithPeek(0, stdin)' = WithPeek(0, stdin)
    BY <2>1, <2>2, <2>3, <2>4, EntryRefines
  <2>6. Flush(data, HandleOf(n)) = Flush(data, Cursors[n])
    <3>1. CASE ~IsReader(n)
      BY <2>1, <3>1, CursorModes
    <3>2. CASE IsReader(n)
      <4>1. Cursors[n].mode # "Write" /\ HandleOf(n).mode # "Write"
        BY <2>1, <3>2, CursorModes DEF IsReader, IsWriter, C!IsWriter, C!Opened, Cursors
      <4> QED BY <4>1, NothingToFlush
    <3> QED BY <3>1, <3>2
  <2> QED BY <2>1, <2>2, <2>5, <2>6, SameFiles DEF C!Close, Cursors
<1>2. CASE ~IsReader(n) /\ ~IsWriter(n)
  <2>1. Unsupported("close", n)
    BY <1>2 DEF CloseStream
  <2>2. HandleOf(n) = Closed
    BY <1>2, EntryType, HandleCases DEF IInv, IsReader, IsWriter
  <2>3. n \notin C!Opened \/ C!IsClosed(n)
    BY <2>2, CursorModes DEF C!Opened, Id
  <2> QED BY <2>1, <2>3, UnsupportedRefines DEF C!Close
<1> QED BY <1>1, <1>2

LEMMA FileRefines ==
  ASSUME NEW p \in Path, UNCHANGED clearing
  PROVE  /\ FileExists(p) => C!FileExists(p)
         /\ DeleteFile(p) => C!DeleteFile(p)
BY UnchangedCursors, StreamsAssumption
   DEF FileExists, DeleteFile, C!FileExists, C!DeleteFile, files, Cursors

(* A reset: readers vanish at once, so that dropping them later, or the    *)
(* table, is no step of GriftCursors; writers are dropped in order.        *)
LEMMA StdIoRefines ==
  ASSUME IInv, clearing = 0, StdIo
  PROVE  ~(clearing # 0) /\ C!BeginReset
<1>1. /\ UNCHANGED <<names, data, stdin, streams>>
      /\ clearing' = 1 /\ res' = <<"std_io">>
      /\ \A n \in Id : peek_buf'[n] = None
  BY DEF StdIo, files
<1>2. WithPeek(0, stdin)' \in {WithPeek(0, stdin), Rest(WithPeek(0, stdin))}
  <2>1. 0 \in Id /\ stdin \in Seq(Unit) /\ peek_buf[0] \in Char \cup {None}
    BY StreamsAssumption DEF Id, IInv, TypeOK
  <2>2. WithPeek(0, stdin)' = stdin
    BY <1>1, <2>1 DEF WithPeek
  <2>3. CASE peek_buf[0] = None
    BY <2>2, <2>3 DEF WithPeek
  <2>4. CASE peek_buf[0] # None
    <3>1. Rest(WithPeek(0, stdin)) = stdin
      BY <2>1, <2>4, PeekedFirst DEF WithPeek, Rest
    <3> QED BY <2>2, <3>1
  <2> QED BY <2>3, <2>4
<1>3. Cursors' = [n \in 3 .. MaxId |-> IF C!IsReader(n) THEN Closed ELSE Cursors[n]]
  <2>1. ASSUME NEW n \in 3 .. MaxId
        PROVE  Cursor(n)' = IF C!IsReader(n) THEN Closed ELSE Cursors[n]
    <3>1. n \in Id /\ HandleOf(n)' = HandleOf(n)
      BY <1>1 DEF Id, HandleOf, InTable
    <3>2. (C!IsReader(n) <=> IsReader(n)) /\ (~IsReader(n) => Cursors[n] = HandleOf(n))
      BY <3>1, CursorModes
    <3> QED BY <1>1, <3>1, <3>2 DEF Cursor, IsReader
  <2> HIDE DEF Cursor
  <2> QED BY <2>1 DEF Cursors
<1> QED BY <1>1, <1>2, <1>3, SameFiles DEF C!BeginReset, Cursors

LEMMA ClearingCursors ==
  ASSUME IInv, clearing # 0, NEW n \in 3 .. MaxId
  PROVE  /\ Cursors[n] = IF IsReader(n) THEN Closed ELSE HandleOf(n)
         /\ n - 2 < clearing => Cursors[n] = Closed
<1>1. Cursors[n] = IF IsReader(n) THEN Closed ELSE HandleOf(n)
  BY DEF Cursors, Cursor, IsReader
<1>2. ASSUME n - 2 < clearing PROVE HandleOf(n) = Closed
  <2>1. n \in Id /\ n - 2 \in 1 .. clearing - 1
    BY <1>2, LenProperties DEF Id, IInv, TypeOK
  <2> QED BY <2>1 DEF HandleOf, IInv
<1> QED BY <1>1, <1>2

LEMMA ClearEntryRefines ==
  ASSUME IInv, clearing # 0, ClearEntry
  PROVE  \/ \E n \in C!Opened : C!DropWriter(n)
         \/ UNCHANGED C!cursorVars
<1> DEFINE n == clearing + 2
<1>1. Len(streams) \in Nat /\ clearing \in 1 .. Len(streams)
  BY LenProperties DEF ClearEntry, IInv, TypeOK
<1>2. n \in 3 .. MaxId /\ n \in Id /\ n - 2 = clearing /\ InTable(n)
  BY <1>1, StreamsAssumption DEF Id, InTable, IInv, TypeOK
<1>3. HandleOf(n) = streams[clearing] /\ HandleOf(n) \in Handle /\ Closed \in Handle
  BY <1>2, EntryType DEF HandleOf, IInv, Handle
<1>4. /\ streams' = [streams EXCEPT ![n - 2] = Closed]
      /\ data' = Flush(data, HandleOf(n))
      /\ clearing' = clearing + 1
      /\ UNCHANGED <<names, stdin, peek_buf, res>>
  BY <1>2, <1>3 DEF ClearEntry
<1>5. \A m \in Id : HandleOf(m)' = IF m = n THEN Closed ELSE HandleOf(m)
  <2> HIDE DEF n
  <2> QED BY <1>2, <1>3, <1>4, SetEntry DEF IInv
<1>6. clearing' # 0 /\ WithPeek(0, stdin)' = WithPeek(0, stdin)
  BY <1>1, <1>4 DEF WithPeek
<1>7. Cursors' = [Cursors EXCEPT ![n] = Closed]
  <2>1. ASSUME NEW m \in 3 .. MaxId
        PROVE  Cursor(m)' = IF m = n THEN Closed ELSE Cursor(m)
    BY <1>5, <1>6, <2>1 DEF Cursor, Id, Closed
  <2> HIDE DEF Cursor, n
  <2> QED BY <1>2, <2>1 DEF Cursors
<1>8. \A m \in 3 .. n - 1 : Cursors[m] = Closed
  <2> SUFFICES ASSUME NEW m \in 3 .. n - 1 PROVE Cursors[m] = Closed
    OBVIOUS
  <2>1. m \in 3 .. MaxId /\ m - 2 < clearing
    BY <1>1, <1>2, StreamsAssumption
  <2> QED BY <2>1, ClearingCursors
<1> HIDE DEF n
<1>9. CASE IsWriter(n)
  <2>1. Cursors[n] = HandleOf(n) /\ Cursors[n].mode = "Write"
    BY <1>2, <1>9, ClearingCursors DEF IsWriter, IsReader
  <2>2. C!IsWriter(n) /\ \A m \in 3 .. n - 1 : C!IsClosed(m)
    <3>1. C!IsWriter(n)
      BY <1>2, <2>1 DEF C!IsWriter, C!Opened, Cursors
    <3>2. \A m \in 3 .. n - 1 : m \in 3 .. MaxId
      BY <1>2, StreamsAssumption
    <3> QED BY <1>8, <3>1, <3>2 DEF C!IsClosed, C!Opened, Cursors, Closed
  <2>3. C!DropWriter(n)
    BY <1>4, <1>6, <1>7, <2>1, <2>2, SameFiles DEF C!DropWriter, Cursors
  <2> QED BY <1>2, <2>3 DEF C!Opened
<1>10. CASE ~IsWriter(n)
  <2>1. UNCHANGED data
    BY <1>4, <1>10, NothingToFlush DEF IsWriter
  <2>2. Cursors[n] = Closed
    BY <1>2, <1>3, <1>10, ClearingCursors, HandleCases DEF IsWriter, IsReader
  <2>3. Cursors' = Cursors
    BY <1>2, <1>7, <2>2 DEF Cursors
  <2> QED BY <1>4, <1>6, <2>1, <2>3 DEF C!cursorVars, Cursors
<1> QED BY <1>9, <1>10

LEMMA ClearDoneRefines ==
  ASSUME IInv, clearing # 0, ClearDone
  PROVE  C!EndReset
<1>1. /\ Len(streams) \in Nat /\ clearing > Len(streams)
      /\ streams' = <<>> /\ clearing' = 0
      /\ UNCHANGED <<names, data, stdin, peek_buf, res>>
  BY LenProperties DEF ClearDone, files, IInv, TypeOK
<1>2. \A n \in 3 .. MaxId : Cursors[n] = Closed
  <2> SUFFICES ASSUME NEW n \in 3 .. MaxId PROVE Cursors[n] = Closed
    OBVIOUS
  <2>1. CASE n - 2 < clearing
    BY <2>1, ClearingCursors
  <2>2. CASE ~(n - 2 < clearing)
    <3>1. ~InTable(n)
      BY <1>1, <2>2 DEF InTable, IInv, TypeOK
    <3> QED BY <3>1, ClearingCursors DEF HandleOf
  <2> QED BY <2>1, <2>2
<1>3. \A n \in 3 .. MaxId : Cursor(n)' = Closed
  <2> SUFFICES ASSUME NEW n \in 3 .. MaxId PROVE Cursor(n)' = Closed
    OBVIOUS
  <2>1. Len(streams') = 0
    BY <1>1, EmptySeq
  <2>2. ~InTable(n)'
    BY <2>1 DEF InTable
  <2>3. HandleOf(n)' = Closed
    BY <2>2 DEF HandleOf
  <2> QED BY <2>3 DEF Cursor, Closed
<1>4. Cursors' = Cursors
  <2> HIDE DEF Cursor
  <2>1. Cursors' = [n \in 3 .. MaxId |-> Closed]
    BY <1>3 DEF Cursors
  <2>2. Cursors = [n \in 3 .. MaxId |-> Closed]
    BY <1>2 DEF Cursors
  <2> QED BY <2>1, <2>2
<1>5. \A n \in C!Opened : C!IsClosed(n)
  BY <1>2 DEF C!IsClosed, C!Opened, Cursors, Closed
<1>6. WithPeek(0, stdin)' = WithPeek(0, stdin)
  BY <1>1 DEF WithPeek
<1> QED BY <1>1, <1>4, <1>5, <1>6 DEF C!EndReset, Cursors

LEMMA InitRefines == Init => C!Init
<1> SUFFICES ASSUME Init PROVE C!Init
  OBVIOUS
<1>1. /\ WithPeek(0, stdin) = stdin
      /\ Cursors = [n \in 3 .. MaxId |-> Closed]
  <2>1. 0 \in Id
    BY StreamsAssumption DEF Id
  <2>2. \A n \in 3 .. MaxId : HandleOf(n) = Closed
    BY EmptySeq DEF Init, HandleOf, InTable
  <2> QED BY <2>1, <2>2 DEF Init, WithPeek, Cursors, Cursor, Closed
<1> QED BY <1>1, SameFiles DEF Init, C!Init, Cursors

LEMMA NextRefines == IInv /\ [Next]_vars => [C!Next]_C!cursorVars
<1> SUFFICES ASSUME IInv, [Next]_vars PROVE [C!Next]_C!cursorVars
  OBVIOUS
<1>1. CASE clearing = 0 /\ Call /\ UNCHANGED clearing
  <2>1. C!Call
    BY <1>1, ReadRefines, PeekRefines, CloseRefines, WriteRefines, OpenRefines,
       FileRefines, SameFiles DEF Call, C!Call
  <2> QED BY <1>1, <2>1 DEF C!Next
<1>2. CASE clearing = 0 /\ StdIo
  BY <1>2, StdIoRefines DEF C!Next
<1>3. CASE clearing # 0 /\ ClearEntry
  BY <1>3, ClearEntryRefines DEF C!Next
<1>4. CASE clearing # 0 /\ ClearDone
  BY <1>4, ClearDoneRefines DEF C!Next
<1>5. CASE UNCHANGED vars
  <2>1. Cursors' = Cursors /\ WithPeek(0, stdin)' = WithPeek(0, stdin)
    BY <1>5, UnchangedCursors, StreamsAssumption DEF vars
  <2> QED BY <1>5, <2>1 DEF vars, C!cursorVars, Cursors
<1> QED BY <1>1, <1>2, <1>3, <1>4, <1>5 DEF Next

(* The streams are cursors: with peek buffers, numbers that are reused and *)
(* buffers of any size, every read delivers what comes next in its file.   *)
THEOREM StreamsImplementCursors == Spec => ImplementsCursors
<1> QED BY InitRefines, NextRefines, Invariance, PTL DEF Spec, ImplementsCursors, C!Spec
=============================================================================
