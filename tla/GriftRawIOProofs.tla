-------------------------- MODULE GriftRawIOProofs --------------------------
(***************************************************************************)
(* Theorems about GriftRawIO, for every table, every set of files and any  *)
(* number of retries: the numbers a program holds are those of open        *)
(* streams, and the characters it is given are those of the input, in      *)
(* order.                                                                  *)
(***************************************************************************)
EXTENDS GriftRawIO, GriftStreamsProofs

Open(n) == IsReader(n) \/ IsWriter(n)

-----------------------------------------------------------------------------
(* What the calls of GriftStreams do to the streams that are open, and to  *)
(* the input.                                                              *)

LEMMA SameModes ==
  ASSUME UNCHANGED streams
  PROVE  \A m \in Id : Open(m)' <=> Open(m)
BY DEF Open, IsReader, IsWriter, HandleOf, InTable

LEMMA SourceKeepsModes ==
  ASSUME IInv, NEW n \in Id, Readable(n), ReadOneChar(n)
  PROVE  \A m \in Id : Open(m)' <=> Open(m)
<1>1. CASE n = 0
  BY <1>1, SourceMovesOne, SameModes
<1>2. CASE n # 0
  <2>1. IsReader(n)
    BY <1>2 DEF Readable
  <2>2. Rest(SourceOf(n).buf) \in Seq(Unit)
    BY <2>1, SourceType, RestType DEF IInv
  <2> DEFINE h == [SourceOf(n) EXCEPT !.buf = Rest(SourceOf(n).buf)]
  <2>3. h.mode = "Read"
    BY <2>1, <2>2, SourceType, HandleCases DEF IInv, Handle, Closed
  <2>4. HandleOf(n)' = h /\ \A m \in Id : m # n => HandleOf(m)' = HandleOf(m)
    BY <1>2, SourceMovesOne
  <2> HIDE DEF h
  <2> QED BY <2>1, <2>3, <2>4 DEF Open, IsReader, IsWriter
<1> QED BY <1>1, <1>2

\* Reading a character and looking at one open and close nothing.
LEMMA ReadingKeepsModes ==
  ASSUME IInv, NEW n \in Id, ReadStreamChar(n) \/ PeekStreamChar(n)
  PROVE  \A m \in Id : Open(m)' <=> Open(m)
BY SameModes, SourceKeepsModes DEF ReadStreamChar, PeekStreamChar, Unsupported

\* An open answers a number that was closed, and opens no other.
LEMMA OpenModes ==
  ASSUME IInv, NEW p \in Path, NEW mode, OpenFile(p, mode)
  PROVE  /\ res'[3] # "Ok" => \A m \in Id : Open(m)' <=> Open(m)
         /\ res'[3] = "Ok" => /\ res'[4] \in Id /\ ~Open(res'[4])
                              /\ \A m \in Id : Open(m)' <=> (m = res'[4] \/ Open(m))
<1>1. ASSUME NEW h \in Handle, h.mode \in {"Read", "Write"}, Install(p, h)
      PROVE  /\ res'[3] # "Ok" => \A m \in Id : Open(m)' <=> Open(m)
             /\ res'[3] = "Ok" => /\ res'[4] \in Id /\ ~Open(res'[4])
                                  /\ \A m \in Id : Open(m)' <=> (m = res'[4] \/ Open(m))
  <2>1. ASSUME NEW i \in 1 .. Len(streams), IsFirstEmpty(i),
               streams' = [streams EXCEPT ![i] = h], res' = <<"open", p, "Ok", i + 2>>
        PROVE  /\ res'[3] = "Ok" /\ res'[4] \in Id /\ ~Open(res'[4])
               /\ \A m \in Id : Open(m)' <=> (m = res'[4] \/ Open(m))
    <3>1. i + 2 \in Id /\ InTable(i + 2) /\ HandleOf(i + 2) = Closed /\ (i + 2) - 2 = i
      BY <2>1, EmptyEntry DEF IInv
    <3>2. \A m \in Id : HandleOf(m)' = IF m = i + 2 THEN h ELSE HandleOf(m)
      BY <2>1, <3>1, SetEntry DEF IInv
    <3>3. res'[3] = "Ok" /\ res'[4] = i + 2
      BY <2>1
    <3> QED BY <1>1, <3>1, <3>2, <3>3 DEF Open, IsReader, IsWriter, Closed
  <2>2. ASSUME Len(streams) + 3 <= MaxId, streams' = Append(streams, h),
               res' = <<"open", p, "Ok", Len(streams) + 3>>
        PROVE  /\ res'[3] = "Ok" /\ res'[4] \in Id /\ ~Open(res'[4])
               /\ \A m \in Id : Open(m)' <=> (m = res'[4] \/ Open(m))
    <3>1. Len(streams) + 3 \in Id
      BY <2>2, LenProperties, StreamsAssumption DEF IInv, TypeOK, Id
    <3>2. /\ HandleOf(Len(streams) + 3) = Closed
          /\ \A m \in Id : HandleOf(m)' = IF m = Len(streams) + 3 THEN h ELSE HandleOf(m)
      BY <2>2, AddEntry DEF IInv
    <3>3. res'[3] = "Ok" /\ res'[4] = Len(streams) + 3
      BY <2>2
    <3> QED BY <1>1, <3>1, <3>2, <3>3 DEF Open, IsReader, IsWriter, Closed
  <2>3. ASSUME res' = <<"open", p, "Unsupported", 0>>, UNCHANGED streams
        PROVE  res'[3] # "Ok" /\ \A m \in Id : Open(m)' <=> Open(m)
    BY <2>3, SameModes
  <2> QED BY <1>1, <2>1, <2>2, <2>3 DEF Install
<1>2. ASSUME NEW why \in {"ReadFailed", "WriteFailed", "Unsupported"}, NotOpened(p, why)
      PROVE  res'[3] # "Ok" /\ \A m \in Id : Open(m)' <=> Open(m)
  BY <1>2, SameModes DEF NotOpened
<1>3. ASSUME names[p] # NoInode, Install(p, Reader(names[p]))
      PROVE  Reader(names[p]) \in Handle /\ Reader(names[p]).mode = "Read"
  BY <1>3, NewHandles DEF IInv, TypeOK
<1>4. ASSUME NEW i \in CreateTargets(p, names, {HandleOf(n) : n \in Id})
      PROVE  Writer(i) \in Handle /\ Writer(i).mode = "Write"
  BY <1>4, NewHandles DEF CreateTargets, IInv, TypeOK
<1> QED BY <1>1, <1>2, <1>3, <1>4 DEF OpenFile

LEMMA CloseModes ==
  ASSUME IInv, NEW n \in Id, CloseStream(n)
  PROVE  \A m \in Id : Open(m)' <=> (m # n /\ Open(m))
<1>1. CASE Open(n)
  <2>1. InTable(n) /\ Closed \in Handle
    BY <1>1, EntryType, NewHandles DEF IInv, Open, IsReader, IsWriter, Handle
  <2>2. streams' = [streams EXCEPT ![n - 2] = Closed]
    BY <1>1 DEF CloseStream, Open
  <2>3. \A m \in Id : HandleOf(m)' = IF m = n THEN Closed ELSE HandleOf(m)
    BY <2>1, <2>2, SetEntry DEF IInv
  <2> QED BY <2>3 DEF Open, IsReader, IsWriter, Closed
<1>2. CASE ~Open(n)
  <2>1. UNCHANGED streams
    BY <1>2 DEF CloseStream, Open, Unsupported
  <2>2. \A m \in Id : Open(m)' <=> Open(m)
    BY <2>1, SameModes
  <2> HIDE DEF Open
  <2> QED BY <1>2, <2>2
<1> QED BY <1>1, <1>2
-----------------------------------------------------------------------------
(* The invariant: wherever load stands, its stream is one of those that it *)
(* has opened and not closed.                                              *)
Loading == \A w \in Places, p \in Path, n \in Id : call = <<w, p, n>> => n \in loading

Numbers == /\ held \subseteq Id /\ loading \subseteq Id
           /\ \A n \in held \cup loading : Open(n)
           /\ held \cap loading = {}

RawInv == IInv /\ clearing = 0 /\ Numbers /\ Loading

\* The words for the calls of the program are not those for places in load.
LEMMA Elsewhere ==
  ASSUME call' = NoCall \/ call' \in Calls
  PROVE  Loading'
<1>1. ASSUME NEW w \in Places, NEW p \in Path, NEW n \in Id
      PROVE  <<w, p, n>> \notin Calls
  <2>1. <<w, p, n>>[1] \notin {"raw-read-char", "raw-peek-char", "raw-close", "raw-open", "load"}
    BY DEF Places
  <2>2. \A c \in Calls : c[1] \in {"raw-read-char", "raw-peek-char", "raw-close", "raw-open", "load"}
    BY DEF Calls
  <2> QED BY <2>1, <2>2
<1> QED BY <1>1, RawAssumption DEF Loading

LEMMA InitRaw == RawInit => RawInv
<1> SUFFICES ASSUME RawInit PROVE RawInv
  OBVIOUS
<1>1. \A w \in Places, p \in Path, n \in Id : call # <<w, p, n>>
  BY RawAssumption DEF RawInit
<1> QED BY <1>1, InitInv DEF RawInit, RawInv, Numbers, Loading, Init

\* Every call of GriftRawIO leaves the streams as GriftStreams would.
LEMMA StreamsHold ==
  ASSUME RawInv, [RawNext]_<<vars, rawVars>>
  PROVE  IInv' /\ clearing' = 0
<1>1. CASE Ask \/ UNCHANGED <<vars, rawVars>>
  <2>1. UNCHANGED vars
    BY <1>1 DEF Ask
  <2> QED BY <2>1, NextInv DEF RawInv, vars
<1>2. CASE /\ \E n \in Id : ReadStreamChar(n) \/ PeekStreamChar(n) \/ CloseStream(n)
           /\ UNCHANGED clearing
  BY <1>2, ReadInv, PeekInv, CloseInv DEF RawInv
<1>3. CASE /\ \E p \in Path : \E mode : OpenFile(p, mode)
           /\ UNCHANGED clearing
  BY <1>3, OpenInv DEF RawInv
<1> QED BY <1>1, <1>2, <1>3
        DEF RawNext, RawReadChar, RawPeekChar, RawClose, RawOpen,
            LoadOpen, LoadLook, LoadPeek, LoadParse, LoadClose
-----------------------------------------------------------------------------
\* Calls that neither open nor close.
LEMMA NumbersKept ==
  ASSUME RawInv, NEW n \in Id, ReadStreamChar(n) \/ PeekStreamChar(n),
         UNCHANGED <<held, loading>>
  PROVE  Numbers'
<1>1. \A m \in Id : Open(m)' <=> Open(m)
  BY ReadingKeepsModes DEF RawInv
<1> HIDE DEF Open
<1> QED BY <1>1 DEF RawInv, Numbers

\* An open whose number goes to S, one of the two sets, or is lost.
LEMMA NumbersOpened ==
  ASSUME RawInv, NEW p \in Path, NEW mode, OpenFile(p, mode),
         \/ UNCHANGED <<held, loading>>
         \/ res'[3] = "Ok" /\ held' = held \cup {res'[4]} /\ UNCHANGED loading
         \/ res'[3] = "Ok" /\ loading' = loading \cup {res'[4]} /\ UNCHANGED held
  PROVE  Numbers'
<1>1. /\ res'[3] # "Ok" => \A m \in Id : Open(m)' <=> Open(m)
      /\ res'[3] = "Ok" => /\ res'[4] \in Id /\ ~Open(res'[4])
                           /\ \A m \in Id : Open(m)' <=> (m = res'[4] \/ Open(m))
  BY OpenModes DEF RawInv
<1> HIDE DEF Open
<1> QED BY <1>1 DEF RawInv, Numbers

\* A close takes its number out of both.
LEMMA NumbersClosed ==
  ASSUME RawInv, NEW n \in Id, CloseStream(n), loading' = loading \ {n},
         held' = held \ {n}
  PROVE  Numbers'
<1>1. \A m \in Id : Open(m)' <=> (m # n /\ Open(m))
  BY CloseModes DEF RawInv
<1> HIDE DEF Open
<1> QED BY <1>1 DEF RawInv, Numbers

LEMMA NumbersNext ==
  ASSUME RawInv, [RawNext]_<<vars, rawVars>>
  PROVE  Numbers' /\ Loading'
<1>1. CASE Ask
  <2>1. Numbers'
    BY <1>1, SameModes DEF Ask, RawInv, Numbers, vars, Open
  <2>2. Loading'
    BY <1>1, Elsewhere DEF Ask
  <2> QED BY <2>1, <2>2
<1>2. ASSUME NEW n \in Id, RawReadChar(n) \/ RawPeekChar(n)
      PROVE  Numbers' /\ Loading'
  <2>1. Numbers'
    BY <1>2, NumbersKept DEF RawReadChar, RawPeekChar
  <2>2. call \in Calls /\ (call' = NoCall \/ call' = call)
    BY <1>2 DEF RawReadChar, RawPeekChar, RunOut, Return, Calls
  <2> QED BY <2>1, <2>2, Elsewhere
<1>3. ASSUME NEW n \in Id, RawClose(n)
      PROVE  Numbers' /\ Loading'
  <2>1. Numbers'
    BY <1>3, NumbersClosed DEF RawClose
  <2> QED BY <1>3, <2>1, Elsewhere DEF RawClose, Return
<1>4. ASSUME NEW p \in Path, NEW mode \in Modes, RawOpen(p, mode)
      PROVE  Numbers' /\ Loading'
  <2>1. Numbers'
    BY <1>4, NumbersOpened DEF RawOpen, Succeeded
  <2>2. call \in Calls /\ (call' = NoCall \/ call' = call)
    BY <1>4 DEF RawOpen, RunOut, Return, Calls
  <2> QED BY <2>1, <2>2, Elsewhere
<1>5. ASSUME NEW p \in Path, LoadOpen(p)
      PROVE  Numbers' /\ Loading'
  <2>1. Numbers'
    BY <1>5, NumbersOpened DEF LoadOpen, Succeeded
  <2>2. CASE res'[3] = "Ok"
    <3>1. call' = <<"skip_ws", p, res'[4]>> /\ res'[4] \in loading'
      BY <1>5, <2>2 DEF LoadOpen, Succeeded
    <3>2. \A w, q, n : call' = <<w, q, n>> => n = res'[4]
      BY <3>1
    <3> QED BY <2>1, <3>1, <3>2 DEF Loading
  <2>3. CASE res'[3] # "Ok"
    BY <1>5, <2>1, <2>3, Elsewhere DEF LoadOpen, Succeeded, Return
  <2> QED BY <2>2, <2>3
<1>6. ASSUME NEW p \in Path, NEW n \in Id, LoadLook(p, n) \/ LoadPeek(p, n) \/ LoadParse(p, n)
      PROVE  Numbers' /\ Loading'
  <2>1. Numbers'
    BY <1>6, NumbersKept DEF LoadLook, LoadPeek, LoadParse
  <2>2. \E w \in Places : call = <<w, p, n>>
    BY <1>6 DEF LoadLook, LoadPeek, LoadParse, Places
  <2>3. n \in loading /\ UNCHANGED loading
    BY <1>6, <2>2 DEF LoadLook, LoadPeek, LoadParse, RawInv, Loading
  <2>4. \/ call' = NoCall \/ call' = <<"load", p>>
        \/ \E w : call' = <<w, p, n>>
    BY <1>6 DEF LoadLook, LoadPeek, LoadParse, RunOut, Return
  <2>5. CASE call' = NoCall \/ call' = <<"load", p>>
    BY <2>1, <2>5, Elsewhere DEF Calls
  <2>6. ASSUME NEW w, call' = <<w, p, n>> PROVE Loading'
    <3>1. \A v, q, m : call' = <<v, q, m>> => m = n
      BY <2>6
    <3> QED BY <2>3, <3>1 DEF Loading
  <2> QED BY <2>1, <2>4, <2>5, <2>6
<1>7. ASSUME NEW p \in Path, NEW n \in Id, LoadClose(p, n)
      PROVE  Numbers' /\ Loading'
  <2>1. n \in loading
    BY <1>7 DEF LoadClose, RawInv, Loading, Places
  <2>2. held' = held \ {n}
    BY <1>7, <2>1 DEF LoadClose, RawInv, Numbers
  <2>3. Numbers'
    BY <1>7, <2>2, NumbersClosed DEF LoadClose
  <2> QED BY <1>7, <2>3, Elsewhere DEF LoadClose, Return
<1>8. CASE UNCHANGED <<vars, rawVars>>
  BY <1>8, SameModes DEF vars, rawVars, RawInv, Numbers, Loading, Open
<1> QED BY <1>1, <1>2, <1>3, <1>4, <1>5, <1>6, <1>7, <1>8 DEF RawNext

THEOREM RawInvariance == RawSpec => []RawInv
<1>1. RawInv /\ [RawNext]_<<vars, rawVars>> => RawInv'
  BY StreamsHold, NumbersNext DEF RawInv
<1> QED BY InitRaw, <1>1, PTL DEF RawSpec

(* A number the program holds, or load works with, is that of an open      *)
(* stream, and never of both: eval.rs:1240, 1250, 1368; io.rs:313, 343.    *)
THEOREM NumbersStayLive == RawSpec => []NumbersLive
<1>1. RawInv => NumbersLive
  BY DEF RawInv, Numbers, NumbersLive, Open
<1> QED BY RawInvariance, <1>1, PTL
-----------------------------------------------------------------------------
(* The order of the input.  What is still to come loses characters at its  *)
(* head only, and raw-read-char returns the one it has taken there.        *)

\* To leave out the first of what is to come keeps the order of the rest.
LEMMA DropOne ==
  ASSUME NEW s \in Seq(Unit), NEW u \in Seq(Unit), NEW t \in Seq(Unit),
         Subsequence(s \o u, t)
  PROVE  Subsequence(s \o Rest(u), t)
<1>1. CASE u = <<>>
  BY <1>1 DEF Rest
<1>2. CASE u # <<>>
  <2>1. /\ Rest(u) = Tail(u) /\ Tail(u) \in Seq(Unit) /\ Len(Tail(u)) = Len(u) - 1
        /\ \A i \in 1 .. Len(u) - 1 : Tail(u)[i] = u[i + 1]
    BY <1>2, HeadTailProperties DEF Rest
  <2>2. Len(s) \in Nat /\ Len(u) \in Nat \ {0} /\ Len(t) \in Nat
    BY <1>2, LenProperties, EmptySeq
  <2> DEFINE a == s \o u
             b == s \o Tail(u)
  <2>3. /\ Len(a) = Len(s) + Len(u)
        /\ \A i \in 1 .. Len(a) : a[i] = IF i <= Len(s) THEN s[i] ELSE u[i - Len(s)]
    BY ConcatProperties
  <2>4. /\ Len(b) = Len(s) + Len(u) - 1
        /\ \A i \in 1 .. Len(b) : b[i] = IF i <= Len(s) THEN s[i] ELSE Tail(u)[i - Len(s)]
    BY <2>1, <2>2, ConcatProperties
  <2>5. PICK f \in [1 .. Len(a) -> 1 .. Len(t)] :
          /\ \A i, j \in 1 .. Len(a) : i < j => f[i] < f[j]
          /\ \A i \in 1 .. Len(a) : a[i] = t[f[i]]
    BY DEF Subsequence
  <2> DEFINE up(i) == IF i <= Len(s) THEN i ELSE i + 1
             g == [i \in 1 .. Len(b) |-> f[up(i)]]
  <2> HIDE DEF a, b
  <2>6. \A i \in 1 .. Len(b) : up(i) \in 1 .. Len(a) /\ b[i] = a[up(i)]
    <3> SUFFICES ASSUME NEW i \in 1 .. Len(b)
                 PROVE  up(i) \in 1 .. Len(a) /\ b[i] = a[up(i)]
      OBVIOUS
    <3>1. CASE i <= Len(s)
      BY <3>1, <2>2, <2>3, <2>4
    <3>2. CASE ~(i <= Len(s))
      <4>1. up(i) = i + 1 /\ i + 1 \in 1 .. Len(a) /\ ~(i + 1 <= Len(s))
        BY <3>2, <2>2, <2>3, <2>4
      <4>2. i - Len(s) \in 1 .. Len(u) - 1 /\ (i - Len(s)) + 1 = (i + 1) - Len(s)
        BY <3>2, <2>2, <2>4
      <4>3. Tail(u)[i - Len(s)] = u[(i - Len(s)) + 1]
        BY <4>2, <2>1
      <4> QED BY <3>2, <4>1, <4>2, <4>3, <2>3, <2>4
    <3> QED BY <3>1, <3>2
  <2>7. \A i, j \in 1 .. Len(b) : i < j => up(i) < up(j)
    BY <2>2, <2>4
  <2> HIDE DEF up
  <2>8. g \in [1 .. Len(b) -> 1 .. Len(t)]
    BY <2>5, <2>6
  <2>9. /\ \A i, j \in 1 .. Len(b) : i < j => g[i] < g[j]
        /\ \A i \in 1 .. Len(b) : b[i] = t[g[i]]
    BY <2>5, <2>6, <2>7
  <2> HIDE DEF g
  <2>10. Subsequence(b, t)
    BY <2>8, <2>9 DEF Subsequence
  <2> QED BY <2>1, <2>10 DEF b
<1> QED BY <1>1, <1>2

LEMMA UpcomingType ==
  ASSUME IInv
  PROVE  /\ 0 \in Id /\ ~IsReader(0) /\ ~IsWriter(0)
         /\ Upcoming(0) = WithPeek(0, stdin)
         /\ Upcoming(0) \in Seq(Unit)
<1>1. 0 \in Id /\ ~IsReader(0) /\ ~IsWriter(0)
  BY StreamsAssumption DEF Id, IsReader, IsWriter, HandleOf, InTable, Closed
<1>2. peek_buf[0] \in Char \cup {None} /\ stdin \in Seq(Unit)
  BY <1>1 DEF IInv, TypeOK
<1>3. Upcoming(0) = WithPeek(0, stdin)
  BY DEF Upcoming
<1>4. WithPeek(0, stdin) \in Seq(Unit)
  BY <1>2, PeekedFirst DEF WithPeek
<1> QED BY <1>1, <1>3, <1>4

\* What is to come does not change with the other streams.
LEMMA UpcomingSame ==
  ASSUME stdin' = stdin, peek_buf'[0] = peek_buf[0]
  PROVE  Upcoming(0)' = Upcoming(0)
BY DEF Upcoming, WithPeek

LEMMA UpcomingElsewhere ==
  ASSUME IInv,
         \/ \E n \in Id \ {0} : ReadStreamChar(n) \/ PeekStreamChar(n)
         \/ \E n \in Id : CloseStream(n)
         \/ \E p \in Path : \E mode : OpenFile(p, mode)
  PROVE  Upcoming(0)' = Upcoming(0)
<1>1. CASE \E n \in Id \ {0} : ReadStreamChar(n) \/ PeekStreamChar(n)
  <2>1. PICK n \in Id \ {0} : ReadStreamChar(n) \/ PeekStreamChar(n)
    BY <1>1
  <2>2. stdin' = stdin
    BY <2>1 DEF ReadStreamChar, PeekStreamChar, ReadOneChar, Unsupported
  <2>3. \/ UNCHANGED peek_buf
        \/ \E c : peek_buf' = [peek_buf EXCEPT ![n] = c]
    BY <2>1 DEF ReadStreamChar, PeekStreamChar, Unsupported
  <2>4. peek_buf'[0] = peek_buf[0]
    BY <2>1, <2>3, UpcomingType DEF IInv, TypeOK
  <2> QED BY <2>2, <2>4, UpcomingSame
<1>2. CASE \E n \in Id : CloseStream(n)
  <2>1. PICK n \in Id : CloseStream(n)
    BY <1>2
  <2>2. stdin' = stdin
    BY <2>1 DEF CloseStream, Unsupported
  <2>3. \/ UNCHANGED peek_buf
        \/ n # 0 /\ peek_buf' = [peek_buf EXCEPT ![n] = None]
    BY <2>1, UpcomingType DEF CloseStream, Unsupported
  <2>4. peek_buf'[0] = peek_buf[0]
    BY <2>1, <2>3, UpcomingType DEF IInv, TypeOK
  <2> QED BY <2>2, <2>4, UpcomingSame
<1>3. CASE \E p \in Path : \E mode : OpenFile(p, mode)
  BY <1>3, UpcomingSame DEF OpenFile
<1> QED BY <1>1, <1>2, <1>3

LEMMA ReadTakesHead ==
  ASSUME IInv, ReadStreamChar(0)
  PROVE  /\ Upcoming(0)' = Rest(Upcoming(0))
         /\ res'[3] = "Ok" => Upcoming(0) # <<>> /\ res'[4] = Head(Upcoming(0))
<1>1. stdin \in Seq(Unit) /\ peek_buf[0] \in Char \cup {None}
  BY UpcomingType DEF IInv, TypeOK
<1>2. CASE peek_buf[0] # None
  <2>1. /\ res' = <<"read", 0, "Ok", peek_buf[0]>> /\ stdin' = stdin
        /\ peek_buf' = [peek_buf EXCEPT ![0] = None]
    BY <1>2 DEF ReadStreamChar
  <2>2. Upcoming(0) = <<peek_buf[0]>> \o stdin
    BY <1>2, UpcomingType DEF WithPeek
  <2>3. peek_buf'[0] = None
    BY <2>1, UpcomingType DEF IInv, TypeOK
  <2>4. Upcoming(0)' = stdin
    BY <2>1, <2>3 DEF Upcoming, WithPeek
  <2>5. /\ Upcoming(0) # <<>> /\ Head(Upcoming(0)) = peek_buf[0]
        /\ Tail(Upcoming(0)) = stdin
    BY <1>1, <1>2, <2>2, PeekedFirst
  <2> QED BY <2>1, <2>4, <2>5 DEF Rest
<1>3. CASE peek_buf[0] = None
  <2>1. res' = Answer("read", 0, stdin) /\ stdin' = Rest(stdin) /\ UNCHANGED peek_buf
    BY <1>3 DEF ReadStreamChar, Readable, Ahead, ReadOneChar
  <2>2. Upcoming(0) = stdin /\ Upcoming(0)' = stdin'
    BY <1>3, <2>1 DEF Upcoming, WithPeek
  <2> QED BY <2>1, <2>2 DEF Answer
<1> QED BY <1>2, <1>3

\* A look keeps the character, unless it can not be decoded.
LEMMA PeekKeepsOrDrops ==
  ASSUME IInv, PeekStreamChar(0)
  PROVE  Upcoming(0)' \in {Upcoming(0), Rest(Upcoming(0))}
<1>1. stdin \in Seq(Unit)
  BY DEF IInv, TypeOK
<1>2. CASE peek_buf[0] # None
  BY <1>2, UpcomingSame DEF PeekStreamChar
<1>3. CASE peek_buf[0] = None
  <2>1. /\ stdin' = Rest(stdin)
        /\ peek_buf' = [peek_buf EXCEPT ![0] = IF Decodable(stdin) THEN Head(stdin) ELSE None]
    BY <1>3 DEF PeekStreamChar, Readable, Ahead, ReadOneChar
  <2>2. /\ Upcoming(0) = stdin
        /\ peek_buf'[0] = IF Decodable(stdin) THEN Head(stdin) ELSE None
    BY <1>3, <2>1, UpcomingType DEF WithPeek, IInv, TypeOK
  <2>3. CASE Decodable(stdin)
    <3>1. stdin # <<>> /\ Head(stdin) \in Char
      BY <1>1, <2>3, HeadTailProperties DEF Decodable, Unit
    <3>2. Upcoming(0)' = <<Head(stdin)>> \o Tail(stdin)
      BY <2>1, <2>2, <2>3, <3>1, StreamsAssumption DEF Upcoming, WithPeek, Rest
    <3> QED BY <1>1, <2>2, <3>1, <3>2, HeadThenTail
  <2>4. CASE ~Decodable(stdin)
    BY <2>1, <2>2, <2>4 DEF Upcoming, WithPeek
  <2> QED BY <2>3, <2>4
<1> QED BY <1>2, <1>3

InOrder == /\ got \in Seq(Unit) /\ input \in Seq(Unit)
           /\ ReadsInOrder

LEMMA InOrderInit == RawInit => InOrder
<1> SUFFICES ASSUME RawInit PROVE InOrder
  OBVIOUS
<1>1. IInv /\ stdin \in Seq(Unit) /\ got = <<>> /\ input = stdin
  BY InitInv DEF RawInit, IInv, TypeOK
<1>2. Upcoming(0) = stdin
  BY <1>1, UpcomingType DEF RawInit, Init, WithPeek
<1>3. got \o Upcoming(0) = stdin /\ got \in Seq(Unit)
  BY <1>1, <1>2, EmptySeq, ConcatEmptySeq
<1>4. Subsequence(stdin, stdin)
  <2> DEFINE f == [i \in 1 .. Len(stdin) |-> i]
  <2>1. /\ f \in [1 .. Len(stdin) -> 1 .. Len(stdin)]
        /\ \A i, j \in 1 .. Len(stdin) : i < j => f[i] < f[j]
        /\ \A i \in 1 .. Len(stdin) : stdin[i] = stdin[f[i]]
    OBVIOUS
  <2> QED BY <2>1 DEF Subsequence
<1> QED BY <1>1, <1>3, <1>4 DEF InOrder, ReadsInOrder

LEMMA InOrderNext ==
  ASSUME RawInv, InOrder, [RawNext]_<<vars, rawVars>>
  PROVE  InOrder'
<1>0. Upcoming(0) \in Seq(Unit)
  BY UpcomingType DEF RawInv
<1>1. ASSUME Upcoming(0)' \in {Upcoming(0), Rest(Upcoming(0))}, UNCHANGED <<got, input>>
      PROVE  InOrder'
  BY <1>0, <1>1, DropOne DEF InOrder, ReadsInOrder
<1>2. CASE Ask \/ UNCHANGED <<vars, rawVars>>
  <2>1. UNCHANGED <<stdin, peek_buf, got, input>>
    BY <1>2 DEF Ask, vars, rawVars
  <2> QED BY <1>1, <2>1, UpcomingSame
<1>3. ASSUME NEW n \in Id, RawReadChar(n), UNCHANGED input
      PROVE  InOrder'
  <2>1. CASE n # 0
    BY <1>1, <1>3, <2>1, UpcomingElsewhere DEF RawReadChar, RawInv
  <2>2. CASE n = 0
    <3>1. /\ Upcoming(0)' = Rest(Upcoming(0))
          /\ res'[3] = "Ok" => Upcoming(0) # <<>> /\ res'[4] = Head(Upcoming(0))
      BY <1>3, <2>2, ReadTakesHead DEF RawReadChar, RawInv
    <3>2. CASE UNCHANGED got
      BY <1>1, <1>3, <3>1, <3>2
    <3>3. CASE res'[3] = "Ok" /\ got' = Append(got, res'[4])
      <4>1. Upcoming(0) # <<>> /\ got' = Append(got, Head(Upcoming(0)))
        BY <3>1, <3>3
      <4>2. /\ Head(Upcoming(0)) \in Unit /\ Tail(Upcoming(0)) \in Seq(Unit)
            /\ Rest(Upcoming(0)) = Tail(Upcoming(0))
        BY <1>0, <4>1, HeadTailProperties DEF Rest
      <4>3. got' \in Seq(Unit) /\ got' = got \o <<Head(Upcoming(0))>>
        BY <4>1, <4>2, AppendProperties, AppendIsConcat DEF InOrder
      <4>4. got' \o Upcoming(0)' = got \o (<<Head(Upcoming(0))>> \o Tail(Upcoming(0)))
        <5>1. <<Head(Upcoming(0))>> \in Seq(Unit) /\ got \in Seq(Unit)
          BY <4>2 DEF InOrder
        <5>2. (got \o <<Head(Upcoming(0))>>) \o Tail(Upcoming(0))
                = got \o (<<Head(Upcoming(0))>> \o Tail(Upcoming(0)))
          BY <4>2, <5>1, ConcatAssociative
        <5> QED BY <3>1, <4>2, <4>3, <5>2
      <4>5. got' \o Upcoming(0)' = got \o Upcoming(0)
        BY <1>0, <4>1, <4>4, HeadThenTail
      <4> QED BY <1>3, <4>3, <4>5 DEF InOrder, ReadsInOrder
    <3>4. UNCHANGED got \/ (res'[3] = "Ok" /\ got' = Append(got, res'[4]))
      BY <1>3, <2>2 DEF RawReadChar, Succeeded
    <3> QED BY <3>2, <3>3, <3>4
  <2> QED BY <2>1, <2>2
<1>4. CASE /\ \E n \in Id : PeekStreamChar(n) \/ (n # 0 /\ ReadStreamChar(n)) \/ CloseStream(n)
           /\ UNCHANGED <<got, input>>
  BY <1>1, <1>4, PeekKeepsOrDrops, UpcomingElsewhere DEF RawInv
<1>5. CASE (\E p \in Path : \E mode : OpenFile(p, mode)) /\ UNCHANGED <<got, input>>
  BY <1>1, <1>5, UpcomingElsewhere DEF RawInv
<1>6. ASSUME NEW p \in Path, NEW n \in Id, LoadParse(p, n)
      PROVE  n # 0
  BY <1>6, UpcomingType DEF LoadParse, Places, RawInv, Loading, Numbers, Open
<1>7. CASE /\ \/ \E n \in Id : RawPeekChar(n) \/ RawClose(n)
              \/ \E p \in Path, n \in Id : LoadLook(p, n) \/ LoadPeek(p, n) \/ LoadParse(p, n)
                                           \/ LoadClose(p, n)
           /\ UNCHANGED input
  BY <1>4, <1>6, <1>7 DEF RawPeekChar, RawClose, LoadLook, LoadPeek, LoadParse, LoadClose
<1>8. CASE /\ \E p \in Path : LoadOpen(p) \/ \E mode \in Modes : RawOpen(p, mode)
           /\ UNCHANGED input
  BY <1>5, <1>8 DEF RawOpen, LoadOpen
<1> QED BY <1>2, <1>3, <1>7, <1>8 DEF RawNext

(* For every input, table and number of retries, what raw-read-char has    *)
(* returned and what is still to come are parts of the input, in order and *)
(* none twice: io.rs:257, 284; eval.rs:1219, 1227.                         *)
THEOREM CharactersInOrder == RawSpec => []ReadsInOrder
<1>1. RawInv /\ InOrder /\ [RawNext]_<<vars, rawVars>> => InOrder'
  BY InOrderNext
<1>2. InOrder => ReadsInOrder
  BY DEF InOrder
<1> QED BY RawInvariance, InOrderInit, <1>1, <1>2, PTL DEF RawSpec
=============================================================================
