--------------------------- MODULE GriftCursors ---------------------------
(***************************************************************************)
(* What the streams of grift promise: each number from 3 up is closed or   *)
(* stands for a cursor into a file, and number 0 for one into the input.   *)
(* There is no peek buffer and no table: a peek looks at what the cursor   *)
(* would deliver next and takes it only if it cannot be decoded; open      *)
(* picks any closed number and fails for want of one only when there is    *)
(* none.  How much is read ahead and when writes reach the file is left    *)
(* open, except that closing completes them.                               *)
(***************************************************************************)
EXTENDS GriftFiles

CONSTANTS MaxId,      \* the largest stream number
          MaxLen,     \* bound: no writer goes beyond this offset
          Disks, Inputs   \* the files and the input to start from

VARIABLES names,      \* the file each path names
          data,       \* the contents of the files
          stdin,      \* the input still to come
          cursors,    \* the handle of each stream from 3 up
          resetting,  \* the streams are being closed by IoState::std_io
          res         \* result of the last call

cursorVars == <<names, data, stdin, cursors, resetting, res>>

Id     == 0 .. MaxId
Opened == 3 .. MaxId
IsReader(n) == n \in Opened /\ cursors[n].mode = "Read"
IsWriter(n) == n \in Opened /\ cursors[n].mode = "Write"
IsClosed(n) == n \in Opened /\ cursors[n].mode = "Closed"

Init == /\ \E d \in Disks : names = d.names /\ data = d.data
        /\ stdin \in Inputs
        /\ cursors = [n \in Opened |-> Closed]
        /\ resetting = FALSE
        /\ res = <<"std_io">>
-----------------------------------------------------------------------------
(* The cursor n once it has something to deliver, if there is anything. *)
ReadAhead(h, text) == IF NoReadAhead(h, text) THEN {h}
                      ELSE {Advance(h, text, k) : k \in 1 .. Len(text) - h.pos}

Unsupported(op, n) == /\ res' = <<op, n, "Unsupported", Nul>>
                      /\ UNCHANGED <<names, data, stdin, cursors>>

\* Read and peek differ in what they leave, Left(units), of the units.
Deliver(op, n, Left(_)) ==
  \/ /\ n = 0
     /\ res' = Answer(op, n, stdin)
     /\ stdin' = Left(stdin)
     /\ UNCHANGED <<names, data, cursors>>
  \/ /\ IsReader(n)
     /\ \E h \in ReadAhead(cursors[n], data[cursors[n].ino]) :
          /\ res' = Answer(op, n, h.buf)
          /\ cursors' = [cursors EXCEPT ![n] = [h EXCEPT !.buf = Left(h.buf)]]
     /\ UNCHANGED <<names, data, stdin>>
  \/ /\ n # 0 /\ ~IsReader(n)
     /\ Unsupported(op, n)

Undecodable(units) == units # <<>> /\ Head(units) = Bad
Unpeeked(units)    == IF Undecodable(units) THEN Tail(units) ELSE units

Read(n) == Deliver("read", n, Rest)
Peek(n) == Deliver("peek", n, Unpeeked)

Write(n, c) ==
  \/ /\ n \in {1, 2}
     /\ res' = <<"write", n, "Ok", c>>
     /\ UNCHANGED <<names, data, stdin, cursors>>
  \/ /\ IsWriter(n)
     /\ cursors[n].pos + Len(cursors[n].buf) < MaxLen
     /\ res' = <<"write", n, "Ok", c>>
     /\ \/ /\ cursors' = [cursors EXCEPT ![n] = Appended(cursors[n], c)]
           /\ UNCHANGED data
        \/ /\ cursors' = [cursors EXCEPT ![n] = Appended(Flushed(cursors[n]), c)]
           /\ data' = Flush(data, cursors[n])
     /\ UNCHANGED <<names, stdin>>
  \/ /\ n \notin {1, 2} /\ ~IsWriter(n)
     /\ Unsupported("write", n)

\* The new handle gets a closed number, or, failing that, is dropped.
Attach(p, h) ==
  \/ \E n \in Opened : /\ IsClosed(n)
                       /\ cursors' = [cursors EXCEPT ![n] = h]
                       /\ res' = <<"open", p, "Ok", n>>
  \/ /\ \A n \in Opened : ~IsClosed(n)
     /\ res' = <<"open", p, "Unsupported", 0>>
     /\ UNCHANGED cursors

OpenToRead(p) ==
  \/ /\ names[p] # NoInode
     /\ Attach(p, Reader(names[p]))
     /\ UNCHANGED <<names, data, stdin>>
  \/ /\ res' = <<"open", p, "ReadFailed", 0>>
     /\ UNCHANGED <<names, data, stdin, cursors>>

OpenToWrite(p) ==
  \/ \E i \in CreateTargets(p, names, {cursors[n] : n \in Opened}) :
       /\ names' = [names EXCEPT ![p] = i]
       /\ data' = [data EXCEPT ![i] = <<>>]
       /\ Attach(p, Writer(i))
       /\ UNCHANGED stdin
  \/ /\ res' = <<"open", p, "WriteFailed", 0>>
     /\ UNCHANGED <<names, data, stdin, cursors>>

OpenOther(p) == /\ res' = <<"open", p, "Unsupported", 0>>
                /\ UNCHANGED <<names, data, stdin, cursors>>

Close(n) ==
  \/ /\ IsReader(n) \/ IsWriter(n)
     /\ cursors' = [cursors EXCEPT ![n] = Closed]
     /\ data' = Flush(data, cursors[n])
     /\ res' = <<"close", n, "Ok", Nul>>
     /\ UNCHANGED <<names, stdin>>
  \/ /\ n \notin Opened \/ IsClosed(n)
     /\ Unsupported("close", n)

FileExists(p) == /\ res' = <<"exists", p, names[p] # NoInode>>
                 /\ UNCHANGED <<names, data, stdin, cursors>>

DeleteFile(p) ==
  \/ /\ names[p] # NoInode
     /\ names' = [names EXCEPT ![p] = NoInode]
     /\ res' = <<"delete", p, "Ok">>
     /\ UNCHANGED <<data, stdin, cursors>>
  \/ /\ res' = <<"delete", p, "WriteFailed">>
     /\ UNCHANGED <<names, data, stdin, cursors>>

\* A reset forgets the readers, and a character of the input that was only
\* looked at may go with them; the writers are completed in order.
BeginReset ==
  /\ stdin' \in {stdin, Rest(stdin)}
  /\ cursors' = [n \in Opened |-> IF IsReader(n) THEN Closed ELSE cursors[n]]
  /\ resetting' = TRUE
  /\ res' = <<"std_io">>
  /\ UNCHANGED <<names, data>>

DropWriter(n) ==
  /\ IsWriter(n)
  /\ \A k \in 3 .. n - 1 : IsClosed(k)
  /\ cursors' = [cursors EXCEPT ![n] = Closed]
  /\ data' = Flush(data, cursors[n])
  /\ UNCHANGED <<names, stdin, resetting, res>>

EndReset == /\ \A n \in Opened : IsClosed(n)
            /\ resetting' = FALSE
            /\ UNCHANGED <<names, data, stdin, cursors, res>>
-----------------------------------------------------------------------------
Call == \/ \E n \in Id : \/ Read(n)
                         \/ Peek(n)
                         \/ Close(n)
                         \/ \E c \in Char : Write(n, c)
        \/ \E p \in Path : \/ OpenToRead(p)
                           \/ OpenToWrite(p)
                           \/ OpenOther(p)
                           \/ FileExists(p)
                           \/ DeleteFile(p)

Next == \/ /\ ~resetting
           /\ \/ Call /\ UNCHANGED resetting
              \/ BeginReset
        \/ /\ resetting
           /\ \/ \E n \in Opened : DropWriter(n)
              \/ EndReset

Spec == Init /\ [][Next]_cursorVars
=============================================================================
