---------------------------- MODULE GriftRawIO ----------------------------
(***************************************************************************)
(* The builtins that read and open streams, and load, over GriftStreams,   *)
(* under the retry loop of eval_expr: what the stream delivered needs a    *)
(* cell of the heap, and when there is none the evaluation is run again    *)
(* from its start, or given up if a collection frees nothing.  The heap is *)
(* reduced to that: any allocation may fail.  A character of a loaded file *)
(* stands for a datum.                                                     *)
(***************************************************************************)
EXTENDS GriftStreams

CONSTANTS NoCall,      \* no builtin is being evaluated
          Modes,       \* the integers programs pass to raw-open
          MaxRetries   \* bound on retries in a session

(* Where load_file can stand once it has opened its stream. *)
Places == {"parse_atom_from", "skip_ws", "peek_char", "parse_expr", "close"}

VARIABLES call,     \* the evaluation in progress and its operands
          retries,  \* retries so far
          took,     \* characters the raw-read-char in progress has taken
          input,    \* history: the input at the start
          got,      \* history: the characters of it that were returned
          held,     \* streams whose number the program has
          loading   \* streams that load has opened

rawVars == <<call, retries, took, input, got, held, loading>>

RawInit == /\ Init
           /\ call = NoCall
           /\ retries = 0
           /\ took = 0
           /\ input = stdin
           /\ got = <<>>
           /\ held = {}
           /\ loading = {}

Calls == ({"raw-read-char", "raw-peek-char", "raw-close"} \X Id)
         \cup ({"raw-open"} \X Path \X Modes)
         \cup ({"load"} \X Path)

ASSUME RawAssumption ==
  /\ Modes \subseteq Int
  /\ MaxRetries \in Nat
  /\ NoCall \notin Calls \cup (Places \X Path \X Id)

\* The program starts a call.  One whose stream argument is no number, or no
\* number of a stream, is answered TypeError or InvalidArgument by
\* get_stream_number and changes nothing: a stutter.
Ask == /\ call = NoCall
       /\ call' \in Calls
       /\ took' = 0
       /\ UNCHANGED <<vars, retries, input, got, held, loading>>

Succeeded == res'[3] = "Ok"
Return    == call' = NoCall /\ UNCHANGED retries

\* eval_expr after OutOfMemory: evaluate start again, or report the error.
RunOut(start) == \/ /\ retries < MaxRetries
                    /\ retries' = retries + 1
                    /\ call' = start
                 \/ Return
-----------------------------------------------------------------------------
RawReadChar(n) ==
  /\ call = <<"raw-read-char", n>>
  /\ ReadStreamChar(n)
  /\ took' = IF Succeeded THEN took + 1 ELSE took
  /\ \/ /\ Return
        /\ got' = IF n = 0 /\ Succeeded THEN Append(got, res'[4]) ELSE got
     \/ /\ Succeeded
        /\ RunOut(call)
        /\ UNCHANGED got
  /\ UNCHANGED <<held, loading>>

RawPeekChar(n) ==
  /\ call = <<"raw-peek-char", n>>
  /\ PeekStreamChar(n)
  /\ Return \/ (Succeeded /\ RunOut(call))
  /\ UNCHANGED <<took, got, held, loading>>

(* The mode is any integer and is cut to a u8; the number returned needs a *)
(* cell of its own.                                                        *)
RawOpen(p, mode) ==
  /\ call = <<"raw-open", p, mode>>
  /\ OpenFile(p, mode % 256)
  /\ \/ /\ Return
        /\ held' = IF Succeeded THEN held \cup {res'[4]} ELSE held
     \/ /\ Succeeded
        /\ RunOut(call)
        /\ UNCHANGED held
  /\ UNCHANGED <<took, got, loading>>

RawClose(n) ==
  /\ call = <<"raw-close", n>>
  /\ CloseStream(n)
  /\ Return
  /\ held' = held \ {n}
  /\ loading' = loading \ {n}
  /\ UNCHANGED <<took, got>>
-----------------------------------------------------------------------------
(* load_file: StreamSource turns every failure to read into the end of the *)
(* input.  A datum may be ill-formed or run out of memory, and then the    *)
(* function is left with the stream open.                                  *)
LoadOpen(p) ==
  /\ call = <<"load", p>>
  /\ OpenFile(p, 0)
  /\ IF Succeeded
     THEN /\ call' = <<"skip_ws", p, res'[4]>>
          /\ loading' = loading \cup {res'[4]}
          /\ UNCHANGED retries
     ELSE Return /\ UNCHANGED loading
  /\ UNCHANGED <<took, got, held>>

\* Where load_file looks ahead whatever comes of it: past an atom, and past
\* white space.  Each look can take bytes away that cannot be decoded.
LoadLook(p, n) ==
  /\ \/ call = <<"parse_atom_from", p, n>> /\ call' = <<"skip_ws", p, n>>
     \/ call = <<"skip_ws", p, n>> /\ call' = <<"peek_char", p, n>>
  /\ PeekStreamChar(n)
  /\ UNCHANGED <<retries, took, got, held, loading>>

LoadPeek(p, n) ==
  /\ call = <<"peek_char", p, n>>
  /\ PeekStreamChar(n)
  /\ call' = IF Succeeded THEN <<"parse_expr", p, n>> ELSE <<"close", p, n>>
  /\ UNCHANGED <<retries, took, got, held, loading>>

LoadParse(p, n) ==
  /\ call = <<"parse_expr", p, n>>
  /\ ReadStreamChar(n)
  /\ \/ /\ call' \in {<<"parse_atom_from", p, n>>, <<"skip_ws", p, n>>}
        /\ UNCHANGED retries
     \/ Return
     \/ RunOut(<<"load", p>>)
  /\ UNCHANGED <<took, got, held, loading>>

LoadClose(p, n) ==
  /\ call = <<"close", p, n>>
  /\ CloseStream(n)
  /\ Return
  /\ loading' = loading \ {n}
  /\ UNCHANGED <<took, got, held>>

RawNext ==
  \/ Ask
  \/ /\ \/ \E n \in Id : RawReadChar(n) \/ RawPeekChar(n) \/ RawClose(n)
        \/ \E p \in Path : \/ \E mode \in Modes : RawOpen(p, mode)
                           \/ LoadOpen(p)
                           \/ \E n \in Id : \/ LoadLook(p, n)
                                            \/ LoadPeek(p, n)
                                            \/ LoadParse(p, n)
                                            \/ LoadClose(p, n)
     /\ UNCHANGED <<clearing, input>>

RawSpec == RawInit /\ [][RawNext]_<<vars, rawVars>>
-----------------------------------------------------------------------------
Subsequence(s, t) ==
  \E f \in [1 .. Len(s) -> 1 .. Len(t)] :
    /\ \A i, j \in 1 .. Len(s) : i < j => f[i] < f[j]
    /\ \A i \in 1 .. Len(s) : s[i] = t[f[i]]

(* Whatever is peeked at, retried and given up, what raw-read-char has     *)
(* returned and what is still to come are parts of the input, in order and *)
(* none of them twice.                                                     *)
ReadsInOrder == Subsequence(got \o Upcoming(0), input)

(* A number that raw-open returned, or that load works with, denotes an    *)
(* open stream until it is closed, and never two of them, although numbers *)
(* are reused at once and retries open streams that nobody gets to know.   *)
NumbersLive == /\ \A n \in held \cup loading : IsReader(n) \/ IsWriter(n)
               /\ held \cap loading = {}

(* eval.rs: raw-read-char reads one character.  Run again for want of a    *)
(* cell to put it in, it reads the one after.                              *)
OneCharPerCall == took <= 1

(* eval.rs: raw-open opens a file and returns the stream number.  Every    *)
(* stream open should be one that the program has been given, but for      *)
(* those of load; one opened by an attempt that ran out of memory is not.  *)
OpenHandsOver ==
  \A n \in Id : IsReader(n) \/ IsWriter(n) => n \in held \cup loading

(* eval.rs: mode 1 creates or truncates.  So does 257.                     *)
OnlyModeOneCreates ==
  [][(\E p \in Path, mode \in Modes \ {1} : call = <<"raw-open", p, mode>>)
       => UNCHANGED files]_<<vars, rawVars>>

(* eval.rs: load parses all expressions of the stream.  It takes bytes     *)
(* that it cannot decode, twice in a row, for the end of the file.         *)
LoadReadsAll ==
  \A p \in Path, n \in Id : call = <<"close", p, n>> => Upcoming(n) = <<>>
=============================================================================
