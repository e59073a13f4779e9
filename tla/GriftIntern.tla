---------------------------- MODULE GriftIntern ----------------------------
(***************************************************************************)
(* Symbol interning: Lisp::symbol, called by the interpreter with a name   *)
(* of its own, and Lisp::symbol_from_chain, called by the parser with the  *)
(* chain of characters it has read and turned round.  A symbol is a cell   *)
(* that leads to the chain of its name; the list of all symbols hangs from *)
(* a fixed slot.  Each step is at most one call on the heap that allocates *)
(* or writes; the heap is the abstract one of GriftHeap, which the slots,  *)
(* the free list and the collector of the other modules implement.  No     *)
(* collection happens inside a call: the evaluator collects between its    *)
(* own steps, and retries what ran out of memory.                          *)
(***************************************************************************)
EXTENDS GriftReach, Integers, Sequences, FiniteSets

CONSTANTS N,         \* slots of the heap
          Char,      \* characters
          Names,     \* names the program and its input mention
          MaxHeld    \* other cells the program keeps alive at a time

ASSUME InternAssumption ==
  /\ N \in Nat \ {0, 1}
  /\ Names \in SUBSET (Seq(Char) \ {<< >>})
  /\ MaxHeld \in Nat

VARIABLES store,     \* the allocated cells
          res,       \* result of the last call on the heap
          held,      \* cells the rest of the program keeps alive
          job,       \* the call in progress
          known      \* by name, every symbol answered for it (observation only)

internVars == <<store, res, held, job, known>>

Slot == 0 .. N-1
NIL         == 0     \* the first of the fixed slots
INTERN_LIST == 1     \* the last of them; the program allocates the rest

Nil          == [kind |-> "Nil"]
CharPair(c, i) == [kind |-> "CharPair", ch |-> c, cdr |-> i]
Symbol(i)    == [kind |-> "Symbol", name |-> i]
Cons(i, j)   == [kind |-> "Cons", car |-> i, cdr |-> j]

Cell == {Nil} \cup {CharPair(c, i) : c \in Char, i \in Slot}
        \cup {Symbol(i) : i \in Slot} \cup {Cons(i, j) : i, j \in Slot}

(* What trace() yields. *)
Links == [c \in Cell |-> CASE c.kind = "Nil"    -> << >>
                           [] c.kind = "CharPair" -> IF c.cdr = NIL THEN << >> ELSE <<c.cdr>>
                           [] c.kind = "Symbol" -> <<c.name>>
                           [] c.kind = "Cons"   -> <<c.car, c.cdr>>]

Heap == INSTANCE GriftHeap WITH Value <- Cell, Children <- Links

Allocated == DOMAIN store
Kind(i, k) == i \in Allocated /\ store[i].kind = k
-----------------------------------------------------------------------------
(* The chain at i holds the characters of s and ends in NIL: p lists its   *)
(* cells.                                                                  *)
Along(i, s, p) ==
  /\ p[1] = i
  /\ \A k \in 1 .. Len(s) :
       store[p[k]] = CharPair(s[k], IF k = Len(s) THEN NIL ELSE p[k+1])

(* string_eq *)
Spells(i, s) == \E p \in [1 .. Len(s) -> Allocated] : Along(i, s, p)

(* strings_equal: the same chain, or two of the same characters. *)
SameChars(i, j) == i = j \/ \E s \in Names : Spells(i, s) /\ Spells(j, s)

Job == [at : {"idle", "read", "reverse", "walk", "chars", "symbol", "entry", "publish"},
        via : {"none", "str", "chain"}, name : Names \cup {<< >>}, count : Nat,
        cur : Slot, chain : Slot, prev : Slot, sym : Slot, entry : Slot]

IdleJob == [at |-> "idle", via |-> "none", name |-> << >>, count |-> 0,
            cur |-> NIL, chain |-> NIL, prev |-> NIL, sym |-> NIL, entry |-> NIL]

InternInit ==
  /\ store = [i \in {NIL, INTERN_LIST} |-> IF i = NIL THEN Nil ELSE Cons(NIL, NIL)]
  /\ res = Heap!Ok("new", "unit")
  /\ held = {}
  /\ job = IdleJob
  /\ known = [s \in Names |-> {}]
-----------------------------------------------------------------------------
(* The two outcomes of an allocation. *)
Fresh(c, i) == Heap!Alloc(c) /\ res' = Heap!Ok("alloc", i)
Full(c)     == Heap!Alloc(c) /\ res' = Heap!Err("alloc", "OutOfMemory")

Goto(where) == [job EXCEPT !.at = where]
Fail        == job' = IdleJob /\ UNCHANGED known
Answer(i)   == job' = IdleJob /\ known' = [known EXCEPT ![job.name] = @ \cup {i}]

GrownPast(i, then) == \* mutant: one character too many
  /\ job' = [job EXCEPT !.count = @ + 1, !.chain = i,
                        !.at = IF job.count = Len(job.name) THEN then ELSE @]
  /\ UNCHANGED known

(* The chain has one character more; after the last one the call goes on. *)
Grown(i, then) ==
  /\ job' = [job EXCEPT !.count = @ + 1, !.chain = i,
                        !.at = IF job.count + 1 = Len(job.name) THEN then ELSE @]
  /\ UNCHANGED known

(* symbol(s) *)
CallSymbol(s) ==
  /\ job.at = "idle"
  /\ job' = [IdleJob EXCEPT !.at = "walk", !.via = "str", !.name = s,
                            !.cur = store[INTERN_LIST].car]
  /\ UNCHANGED <<store, res, held, known>>

(* The parser meets the first character of the atom s. *)
MeetAtom(s) ==
  /\ job.at = "idle"
  /\ job' = [IdleJob EXCEPT !.at = "read", !.via = "chain", !.name = s]
  /\ UNCHANGED <<store, res, held, known>>

(* parse_atom_from: each character in front of the chain of those before;  *)
(* a failure leaves the chain to the collector.                            *)
ReadChar ==
  LET k == job.count + 1
      c == CharPair(job.name[k], job.chain)
  IN  /\ job.at = "read"
      /\ \/ Full(c) /\ Fail
         \/ \E i \in Slot : Fresh(c, i) /\ Grown(i, "reverse")
      /\ UNCHANGED held

TurnNothing ==        \* mutant: the cells keep their order
  /\ job.at = "reverse"
  /\ job' = [Goto("walk") EXCEPT !.cur = store[INTERN_LIST].car]
  /\ UNCHANGED <<store, res, held, known>>

(* reverse_chain, one cell: its cdr leads back to the cell before. *)
TurnCell ==
  LET rest == store[job.chain].cdr
  IN  /\ job.at = "reverse"
      /\ Heap!Set(job.chain, [store[job.chain] EXCEPT !.cdr = job.prev])
      /\ job' = IF rest = NIL
                THEN [Goto("walk") EXCEPT !.cur = store[INTERN_LIST].car]
                ELSE [job EXCEPT !.chain = rest, !.prev = job.chain]
      /\ UNCHANGED <<held, known>>

(* The entry under the cursor names the symbol sought: symbol_name_eq or,  *)
(* for a chain, strings_equal.                                             *)
Matches(sym) == \/ job.via = "str"   /\ Spells(store[sym].name, job.name)
                \/ job.via = "chain" /\ SameChars(store[sym].name, job.chain)

Compare ==
  LET sym == store[job.cur].car
  IN  /\ job.at = "walk"
      /\ job.cur # NIL
      /\ \/ Matches(sym) /\ Answer(sym)     \* a chain just read becomes garbage
         \/ ~Matches(sym) /\ job' = [job EXCEPT !.cur = store[job.cur].cdr]
                          /\ UNCHANGED known
      /\ UNCHANGED <<store, res, held>>

(* No entry has the name.  alloc_string asks for room before it begins.    *)
NotFound ==
  /\ job.at = "walk"
  /\ job.cur = NIL
  /\ \/ job.via = "chain" /\ job' = Goto("symbol") /\ UNCHANGED known
     \/ /\ job.via = "str"
        /\ N - Cardinality(Allocated) < Len(job.name)
        /\ Fail
     \/ /\ job.via = "str"
        /\ N - Cardinality(Allocated) >= Len(job.name)
        /\ job' = Goto("chars")
        /\ UNCHANGED known
  /\ UNCHANGED <<store, res, held>>

(* alloc_string: the last character first. *)
CopyChar ==
  LET k == job.count + 1
      c == CharPair(job.name[Len(job.name) + 1 - k], job.chain)
  IN  /\ job.at = "chars"
      /\ \/ Full(c) /\ Fail
         \/ \E i \in Slot : Fresh(c, i) /\ Grown(i, "symbol")
      /\ UNCHANGED held

SymbolKeepsRoot ==    \* mutant: a failure leaves the chain on the root stack
  /\ job.at = "symbol"
  /\ \/ Full(Symbol(job.chain)) /\ Fail /\ held' = held \cup {job.chain}
     \/ /\ \E i \in Slot : /\ Fresh(Symbol(job.chain), i)
                           /\ job' = [Goto("entry") EXCEPT !.sym = i]
        /\ UNCHANGED <<known, held>>

MakeSymbol ==
  /\ job.at = "symbol"
  /\ \/ Full(Symbol(job.chain)) /\ Fail
     \/ /\ \E i \in Slot : /\ Fresh(Symbol(job.chain), i)
                           /\ job' = [Goto("entry") EXCEPT !.sym = i]
        /\ UNCHANGED known
  /\ UNCHANGED held

EntryAlone ==         \* mutant: the new entry does not lead to the list before
  /\ job.at = "entry"
  /\ \/ Full(Cons(job.sym, NIL)) /\ Fail
     \/ /\ \E i \in Slot : /\ Fresh(Cons(job.sym, NIL), i)
                           /\ job' = [Goto("publish") EXCEPT !.entry = i]
        /\ UNCHANGED known
  /\ UNCHANGED held

(* The list has not changed since the call read its head. *)
MakeEntry ==
  LET entry == Cons(job.sym, store[INTERN_LIST].car)
  IN  /\ job.at = "entry"
      /\ \/ Full(entry) /\ Fail
         \/ /\ \E i \in Slot : Fresh(entry, i) /\ job' = [Goto("publish") EXCEPT !.entry = i]
            /\ UNCHANGED known
      /\ UNCHANGED held

Publish ==
  /\ job.at = "publish"
  /\ Heap!Set(INTERN_LIST, Cons(job.entry, store[INTERN_LIST].cdr))
  /\ Answer(job.sym)
  /\ UNCHANGED held
-----------------------------------------------------------------------------
(* The rest of the program: it makes cells of its own, lets go of them,    *)
(* and collects with the fixed slots and what it holds as roots.  It       *)
(* writes only to lists and environments it has made itself.               *)
Elsewhere ==
  /\ job.at = "idle"
  /\ Cardinality(held) < MaxHeld
  /\ \/ \E i \in Slot : Fresh(Cons(NIL, NIL), i) /\ held' = held \cup {i}
     \/ Full(Cons(NIL, NIL)) /\ UNCHANGED held
  /\ UNCHANGED <<job, known>>

LetGo == /\ job.at = "idle"
         /\ \E i \in held : held' = held \ {i}
         /\ UNCHANGED <<store, res, job, known>>

Collect ==
  /\ job.at = "idle"
  /\ Heap!Collect({NIL, INTERN_LIST} \cup held)
  /\ UNCHANGED <<held, job, known>>

CallStep == ReadChar \/ TurnCell \/ Compare \/ NotFound \/ CopyChar
            \/ MakeSymbol \/ MakeEntry \/ Publish

InternNext == (\E s \in Names : CallSymbol(s) \/ MeetAtom(s))
              \/ CallStep \/ Elsewhere \/ LetGo \/ Collect

InternSpec == InternInit /\ [][InternNext]_internVars
-----------------------------------------------------------------------------
InternTypeOK ==
  /\ Allocated \subseteq Slot /\ store \in [Allocated -> Cell]
  /\ held \in SUBSET (Slot \ {NIL, INTERN_LIST})
  /\ known \in [Names -> SUBSET Slot]
  /\ job \in Job
  /\ job.at \in {"read", "chars"} => job.count < Len(job.name)

(* The cells of the list of symbols. *)
NextEntry == [i \in Slot |-> IF Kind(i, "Cons") THEN {store[i].cdr} ELSE {}]
Entries   == Reachable(NextEntry, {store[INTERN_LIST].car}) \ {NIL}
Listed    == {store[e].car : e \in Entries}

(* eq? on symbols is equality of their names: every answer ever given for  *)
(* a name is the same symbol, and that symbol still spells the name,       *)
(* whatever was read, failed for want of memory or was collected since.    *)
(* Code: the search of the list before a symbol is made, the list as a     *)
(* root of every collection (lisp.rs:180-189, 402-415).                    *)
SymbolsForever ==
  \A s \in Names : /\ \A i, j \in known[s] : i = j
                   /\ \A i \in known[s] : Kind(i, "Symbol") /\ Spells(store[i].name, s)

(* No two entries of the list name symbols of the same characters, and     *)
(* every entry names a symbol: also those of calls that did not answer.    *)
(* Code: symbol and symbol_from_chain publish last (lisp.rs:200, 424).     *)
SymbolsUnique ==
  LET entries == Entries
      name(e) == store[store[e].car].name
  IN  /\ \A e \in entries : /\ Kind(e, "Cons") /\ Kind(store[e].car, "Symbol")
                            /\ \E s \in Names : Spells(name(e), s)
      /\ \A e, f \in entries : e # f => ~SameChars(name(e), name(f))

(* What a call leaves behind that failed, or that found its symbol, is     *)
(* garbage and nothing but garbage: after a collection the heap holds the  *)
(* fixed slots, the program's own cells and, for each symbol, its entry,   *)
(* itself and its characters.                                              *)
NamesCost == LET length(i) == CHOOSE n \in {Len(s) : s \in Names} :
                                \E s \in Names : Len(s) = n /\ Spells(store[i].name, s)
                 total[S \in SUBSET Listed] ==
                   IF S = {} THEN 0
                   ELSE LET i == CHOOSE i \in S : TRUE IN 2 + length(i) + total[S \ {i}]
             IN  total[Listed]
GarbageOnly ==
  [][Collect => Cardinality(Allocated') = 2 + Cardinality(held') + NamesCost']_internVars
=============================================================================
