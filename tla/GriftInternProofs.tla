-------------------------- MODULE GriftInternProofs --------------------------
(***************************************************************************)
(* Symbols are unique and permanent in heaps of every size and for all     *)
(* names, whatever runs out of memory or is collected in between, and a    *)
(* collection leaves no cell of a call that failed.  The invariant names   *)
(* what the code only reaches: the table of all symbols, as a sequence of  *)
(* rows, and the cells of each row, which no two rows share, no call       *)
(* writes to and every collection keeps.                                   *)
(***************************************************************************)
EXTENDS GriftIntern, SequenceTheorems, FiniteSetTheorems, WellFoundedInduction, TLAPS

USE InternAssumption

\* A symbol of the table, oldest first: the cell of the list that leads to
\* it, itself, the chain of its characters, what they spell, and all the cells
\* it takes.
Row == [entry : Slot, sym : Slot, chars : Slot, name : Names, cells : SUBSET Slot]

SpeltIn(M, i, s) == \E p \in [1 .. Len(s) -> M] : Along(i, s, p)

Owns(r) ==
  /\ \E p \in [1 .. Len(r.name) -> r.cells] :
       /\ Along(r.chars, r.name, p)
       /\ r.cells = {r.entry, r.sym} \cup {p[j] : j \in 1 .. Len(r.name)}
  /\ IsFiniteSet(r.cells) /\ Cardinality(r.cells) = 2 + Len(r.name)

Layout(T, M) ==
  /\ M = UNION {T[k].cells : k \in 1 .. Len(T)}
  /\ \A k \in 1 .. Len(T) : Owns(T[k])
  /\ \A j, k \in 1 .. Len(T) : j # k => T[j].cells \cap T[k].cells = {}

Table(T, M) ==
  /\ M \subseteq Allocated \ {NIL, INTERN_LIST}
  /\ store[INTERN_LIST] = Cons(IF T = << >> THEN NIL ELSE T[Len(T)].entry, NIL)
  /\ \A k \in 1 .. Len(T) :
       /\ T[k].entry \in M /\ T[k].sym \in M
       /\ store[T[k].entry] = Cons(T[k].sym, IF k = 1 THEN NIL ELSE T[k-1].entry)
       /\ store[T[k].sym] = Symbol(T[k].chars)
       /\ SpeltIn(M, T[k].chars, T[k].name)
  /\ \A j, k \in 1 .. Len(T) : T[j].name = T[k].name => j = k
  /\ Layout(T, M)

KnownOK(T) == \A s \in Names : \A i \in known[s] :
                \E k \in 1 .. Len(T) : T[k].sym = i /\ T[k].name = s

\* The chain of the call in progress, cell by cell: as the parser makes it,
\* each leading to the one before, and as it is once turned round.
Made(w, k)   == store[w[k]] = CharPair(job.name[k], IF k = 1 THEN NIL ELSE w[k-1])
Turned(w, k) == store[w[k]] = CharPair(job.name[k], IF k = Len(job.name) THEN NIL ELSE w[k+1])
Cells        == [1 .. Len(job.name) -> Slot]
Apart(w, D, M) == /\ \A k \in D : w[k] \in Allocated \ M
                  /\ \A j, k \in D : w[j] = w[k] => j = k

New(T) == \A k \in 1 .. Len(T) : T[k].name # job.name

ReadOK(M) ==
  /\ job.prev = NIL /\ job.via = "chain"
  /\ \E w \in Cells : /\ Apart(w, 1 .. job.count, M)
                      /\ \A k \in 1 .. job.count : Made(w, k)
                      /\ job.chain = IF job.count = 0 THEN NIL ELSE w[job.count]

ReverseOK(M) ==
  LET n == Len(job.name)
  IN  /\ job.via = "chain"
      /\ \E w \in Cells, u \in 1 .. n :
           /\ Apart(w, 1 .. n, M)
           /\ \A k \in 1 .. u : Made(w, k)
           /\ \A k \in u+1 .. n : Turned(w, k)
           /\ job.chain = w[u]
           /\ job.prev = IF u = n THEN NIL ELSE w[u+1]

\* The chain is complete, and no part of it is of the table.
Chained(M) == \E w \in Cells : Apart(w, 1 .. Len(job.name), M) /\ Along(job.chain, job.name, w)

\* The symbols from the head of the list down to the cursor have other names.
WalkOK(T, M) ==
  /\ \/ job.via = "str" /\ job.count = 0 /\ job.chain = NIL
     \/ job.via = "chain" /\ Chained(M)
  /\ \E c \in 0 .. Len(T) : /\ job.cur = IF c = 0 THEN NIL ELSE T[c].entry
                            /\ \A k \in c+1 .. Len(T) : T[k].name # job.name

CharsOK(M) ==
  LET n == Len(job.name)
  IN  \E w \in Cells :
        /\ Apart(w, n+1-job.count .. n, M)
        /\ \A k \in n+1-job.count .. n : Turned(w, k)
        /\ job.chain = IF job.count = 0 THEN NIL ELSE w[n+1-job.count]

SymbolOK(M) == job.sym \in Allocated \ M /\ store[job.sym] = Symbol(job.chain)
EntryOK(M)  == /\ job.entry \in Allocated \ (M \cup {NIL, INTERN_LIST})
               /\ store[job.entry] = Cons(job.sym, store[INTERN_LIST].car)

JobOK(T, M) ==
  /\ job.at # "idle" => job.name \in Names
  /\ job.at = "read" => ReadOK(M)
  /\ job.at = "reverse" => ReverseOK(M)
  /\ job.at = "walk" => WalkOK(T, M)
  /\ job.at = "chars" => CharsOK(M)
  /\ job.at \in {"chars", "symbol", "entry", "publish"} => New(T)
  /\ job.at \in {"symbol", "entry", "publish"} => Chained(M)
  /\ job.at \in {"entry", "publish"} => SymbolOK(M)
  /\ job.at = "publish" => EntryOK(M)

Fixed == {NIL, INTERN_LIST} \subseteq Allocated /\ store[NIL] = Nil

\* The program's own cells.
HeldOK == \A i \in held : i \in Allocated /\ store[i] = Cons(NIL, NIL)

InternInv ==
  /\ InternTypeOK /\ Fixed /\ HeldOK
  /\ \E T \in Seq(Row), M \in SUBSET Slot : Table(T, M) /\ KnownOK(T) /\ JobOK(T, M)
-----------------------------------------------------------------------------
(* A set of numbers that is not empty has a least element. *)
LEMMA LeastNumber ==
  ASSUME NEW S \in SUBSET Nat, NEW x \in S
  PROVE  \E m \in S : \A k \in S : ~(k < m)
<1> DEFINE R == OpToRel(<, Nat)
<1>1. IsWellFoundedOn(R, Nat)
  BY NatLessThanWellFounded, Zenon
<1>2. \A a, b : a \in Nat /\ b \in Nat /\ a < b => <<a, b>> \in R
  BY Zenon DEF OpToRel
<1> HIDE DEF R
<1>3. PICK m \in S : \A k \in S : <<k, m>> \notin R
  BY <1>1, WFMin, Zenon
<1>4. ASSUME NEW k \in S, k < m PROVE FALSE
  BY <1>2, <1>3, <1>4, Zenon
<1> QED BY <1>4

LEMMA KindsDiffer ==
  /\ \A c, i : CharPair(c, i) # Nil /\ CharPair(c, i).ch = c /\ CharPair(c, i).cdr = i
  /\ \A c, i, j, k : CharPair(c, i) # Cons(j, k) /\ CharPair(c, i) # Symbol(j)
  /\ \A i, j, k : Symbol(i) # Cons(j, k) /\ Symbol(i) # Nil /\ Cons(j, k) # Nil
  /\ \A i : Symbol(i).name = i /\ Symbol(i).kind = "Symbol"
  /\ \A i, j : Cons(i, j).car = i /\ Cons(i, j).cdr = j /\ Cons(i, j).kind = "Cons"
  /\ \A c, i : CharPair(c, i).kind = "CharPair"
BY DEF CharPair, Nil, Cons, Symbol

\* The part of SpellsUnique that is the same for the two strings.
LEMMA SpellsAlong ==
  ASSUME Fixed, NEW i, NEW s \in Names, NEW t \in Names, NEW p, NEW q,
         Along(i, s, p), Along(i, t, q)
  PROVE  \A k \in 1 .. Len(s) : k \in 1 .. Len(t) /\ p[k] = q[k] /\ s[k] = t[k]
<1>0. Len(s) \in Nat \ {0} /\ Len(t) \in Nat \ {0}
  BY LenProperties, EmptySeq
<1> DEFINE Wrong == {k \in 1 .. Len(s) : ~(k \in 1 .. Len(t) /\ p[k] = q[k])}
<1>1. Wrong = {}
  <2> SUFFICES ASSUME NEW x \in Wrong PROVE FALSE
    OBVIOUS
  <2>1. Wrong \in SUBSET Nat
    BY <1>0
  <2>2. PICK m \in Wrong : \A k \in Wrong : ~(k < m)
    <3> HIDE DEF Wrong
    <3> QED BY <2>1, LeastNumber
  <2>3. m # 1
    BY <1>0 DEF Along
  <2>4. m - 1 \in 1 .. Len(s) /\ m - 1 < m /\ m - 1 # Len(s) /\ (m - 1) + 1 = m
    BY <1>0, <2>3
  <2>5. m - 1 \in 1 .. Len(t) /\ p[m-1] = q[m-1]
    BY <2>2, <2>4
  <2>6. store[p[m-1]] = CharPair(s[m-1], p[m]) /\ store[p[m]] # Nil
    <3>1. store[p[m]] = CharPair(s[m], IF m = Len(s) THEN NIL ELSE p[m+1])
      BY DEF Along
    <3> QED BY <2>4, <3>1, KindsDiffer DEF Along
  <2>7. store[q[m-1]] = CharPair(t[m-1], IF m - 1 = Len(t) THEN NIL ELSE q[m])
    BY <2>4, <2>5 DEF Along
  <2>8. p[m] = IF m - 1 = Len(t) THEN NIL ELSE q[m]
    BY <2>5, <2>6, <2>7, KindsDiffer
  <2>9. m - 1 # Len(t) /\ p[m] = q[m]
    BY <2>6, <2>8 DEF Fixed
  <2> QED BY <1>0, <2>5, <2>9
<1>2. ASSUME NEW k \in 1 .. Len(s) PROVE k \in 1 .. Len(t) /\ p[k] = q[k] /\ s[k] = t[k]
  <2>1. k \in 1 .. Len(t) /\ p[k] = q[k]
    BY <1>1
  <2>2. /\ store[p[k]] = CharPair(s[k], IF k = Len(s) THEN NIL ELSE p[k+1])
        /\ store[q[k]] = CharPair(t[k], IF k = Len(t) THEN NIL ELSE q[k+1])
    BY <2>1 DEF Along
  <2> QED BY <2>1, <2>2, KindsDiffer
<1> QED BY <1>2

\* A chain spells one name.
LEMMA SpellsUnique ==
  ASSUME Fixed, NEW i, NEW s \in Names, NEW t \in Names, Spells(i, s), Spells(i, t)
  PROVE  s = t
<1>1. PICK p \in [1 .. Len(s) -> Allocated] : Along(i, s, p)
  BY DEF Spells
<1>2. PICK q \in [1 .. Len(t) -> Allocated] : Along(i, t, q)
  BY DEF Spells
<1>3. Along(i, s, p) /\ Along(i, t, q)
  BY <1>1, <1>2
<1>4. \A k \in 1 .. Len(s) : k \in 1 .. Len(t) /\ p[k] = q[k] /\ s[k] = t[k]
  BY <1>3, SpellsAlong
<1>5. \A k \in 1 .. Len(t) : k \in 1 .. Len(s) /\ q[k] = p[k] /\ t[k] = s[k]
  BY <1>3, SpellsAlong
<1>6. /\ \A k \in 1 .. Len(s) : k \in 1 .. Len(t) /\ s[k] = t[k]
      /\ \A k \in 1 .. Len(t) : k \in 1 .. Len(s)
  BY <1>4, <1>5
<1>7. Len(s) \in Nat /\ Len(t) \in Nat
  BY LenProperties
<1>8. Len(s) = Len(t)
  BY <1>6, <1>7
<1> QED BY <1>6, <1>8, SeqEqual
-----------------------------------------------------------------------------
(* The heap.                                                               *)

Typed == Allocated \subseteq Slot /\ store \in [Allocated -> Cell]

\* An allocation adds one cell.
LEMMA AllocStep ==
  ASSUME Typed, NEW c \in Cell, NEW i, Fresh(c, i)
  PROVE  /\ i \in Slot \ Allocated /\ Allocated' = Allocated \cup {i}
         /\ store'[i] = c /\ \A j \in Allocated : store'[j] = store[j]
         /\ Typed'
<1>1. PICK m \in Slot \ Allocated :
        /\ store' = [j \in Allocated \cup {m} |-> IF j = m THEN c ELSE store[j]]
        /\ i = m
  BY DEF Fresh, Heap!Alloc, Heap!Ok, Heap!Err, Heap!Idx, Heap!Allocated, Slot, Allocated
<1>2. Allocated' = Allocated \cup {i} /\ i \in Slot \ Allocated
  BY <1>1 DEF Allocated
<1>3. store' = [j \in Allocated \cup {i} |-> IF j = i THEN c ELSE store[j]]
  BY <1>1
<1>4. store' \in [Allocated \cup {i} -> Cell]
  BY <1>3 DEF Typed
<1> QED BY <1>2, <1>3, <1>4 DEF Typed

LEMMA FullStep ==
  ASSUME NEW c, Full(c)
  PROVE  UNCHANGED store
BY DEF Full, Heap!Alloc, Heap!Ok, Heap!Err

LEMMA SetStep ==
  ASSUME Typed, NEW i \in Allocated, NEW c \in Cell, Heap!Set(i, c)
  PROVE  /\ Allocated' = Allocated /\ store'[i] = c
         /\ \A j \in Allocated \ {i} : store'[j] = store[j]
         /\ Typed'
<1>1. store' = [store EXCEPT ![i] = c]
  BY DEF Heap!Set, Heap!OnIndex, Heap!Allocated, Allocated
<1>2. store' \in [Allocated -> Cell] /\ Allocated' = Allocated
  BY <1>1 DEF Typed, Allocated
<1> QED BY <1>1, <1>2 DEF Typed

LEMMA CellCases ==
  /\ Nil \in Cell
  /\ \A i, j \in Slot : Symbol(i) \in Cell /\ Cons(i, j) \in Cell
  /\ \A c \in Char, i \in Slot : CharPair(c, i) \in Cell
  /\ NIL \in Slot /\ INTERN_LIST \in Slot /\ NIL # INTERN_LIST
BY DEF Cell, Slot, NIL, INTERN_LIST

\* What a cell leads to.
LEMMA LinksOfCells ==
  /\ \A i \in Slot : Links[Symbol(i)] = <<i>>
  /\ \A i, j \in Slot : Links[Cons(i, j)] = <<i, j>>
  /\ \A c \in Char, i \in Slot : i # NIL => Links[CharPair(c, i)] = <<i>>
  /\ \A c \in Char : Links[CharPair(c, NIL)] = << >>
  /\ Links[Nil] = << >>
<1>1. \A c \in Cell : Links[c] = CASE c.kind = "Nil" -> << >>
                           [] c.kind = "CharPair" -> IF c.cdr = NIL THEN << >> ELSE <<c.cdr>>
                           [] c.kind = "Symbol" -> <<c.name>>
                           [] c.kind = "Cons"   -> <<c.car, c.cdr>>
  BY DEF Links
<1>2. \A i \in Slot : Links[Symbol(i)] = <<i>>
  <2> SUFFICES ASSUME NEW i \in Slot PROVE Links[Symbol(i)] = <<i>>
    OBVIOUS
  <2>1. Symbol(i) \in Cell /\ Symbol(i).kind = "Symbol" /\ Symbol(i).name = i
    BY CellCases, KindsDiffer
  <2> QED BY <1>1, <2>1
<1>3. \A i, j \in Slot : Links[Cons(i, j)] = <<i, j>>
  <2> SUFFICES ASSUME NEW i \in Slot, NEW j \in Slot PROVE Links[Cons(i, j)] = <<i, j>>
    OBVIOUS
  <2>1. /\ Cons(i, j) \in Cell /\ Cons(i, j).kind = "Cons"
        /\ Cons(i, j).car = i /\ Cons(i, j).cdr = j
    BY CellCases, KindsDiffer
  <2> QED BY <1>1, <2>1
<1>4. \A c \in Char, i \in Slot : i # NIL => Links[CharPair(c, i)] = <<i>>
  <2> SUFFICES ASSUME NEW c \in Char, NEW i \in Slot, i # NIL
               PROVE  Links[CharPair(c, i)] = <<i>>
    OBVIOUS
  <2>1. /\ CharPair(c, i) \in Cell /\ CharPair(c, i).kind = "CharPair"
        /\ CharPair(c, i).cdr = i
    BY CellCases, KindsDiffer
  <2> QED BY <1>1, <2>1
<1>5. \A c \in Char : Links[CharPair(c, NIL)] = << >>
  <2> SUFFICES ASSUME NEW c \in Char PROVE Links[CharPair(c, NIL)] = << >>
    OBVIOUS
  <2>1. /\ CharPair(c, NIL) \in Cell /\ CharPair(c, NIL).kind = "CharPair"
        /\ CharPair(c, NIL).cdr = NIL
    BY CellCases, KindsDiffer
  <2> QED BY <1>1, <2>1
<1>6. Links[Nil] = << >>
  <2>1. Nil \in Cell /\ Nil.kind = "Nil"
    BY CellCases DEF Nil
  <2> QED BY <1>1, <2>1
<1> QED BY <1>2, <1>3, <1>4, <1>5, <1>6
-----------------------------------------------------------------------------
(* The table.                                                              *)

LEMMA AlongKept ==
  ASSUME NEW i, NEW s, NEW S, NEW p \in [1 .. Len(s) -> S], Along(i, s, p),
         \A j \in S : store'[j] = store[j]
  PROVE  Along(i, s, p)'
BY DEF Along

LEMMA SpellsKept ==
  ASSUME NEW i, NEW s, Spells(i, s),
         \A j \in Allocated : j \in Allocated' /\ store'[j] = store[j]
  PROVE  Spells(i, s)'
<1>1. PICK p \in [1 .. Len(s) -> Allocated] : Along(i, s, p)
  BY DEF Spells
<1>2. Along(i, s, p)'
  BY <1>1, AlongKept
<1>3. p \in [1 .. Len(s) -> Allocated']
  BY <1>1
<1> QED BY <1>2, <1>3 DEF Spells

LEMMA SpeltInKept ==
  ASSUME NEW M, NEW i, NEW s, SpeltIn(M, i, s),
         \A j \in M : store'[j] = store[j]
  PROVE  SpeltIn(M, i, s)'
<1>1. PICK p \in [1 .. Len(s) -> M] : Along(i, s, p)
  BY DEF SpeltIn
<1> QED BY <1>1, AlongKept DEF SpeltIn

LEMMA SpeltInSpells ==
  ASSUME NEW M \in SUBSET Allocated, NEW i, NEW s, SpeltIn(M, i, s)
  PROVE  Spells(i, s)
<1>1. PICK p \in [1 .. Len(s) -> M] : Along(i, s, p)
  BY DEF SpeltIn
<1>2. p \in [1 .. Len(s) -> Allocated]
  OBVIOUS
<1> QED BY <1>1, <1>2 DEF Spells

LEMMA OwnsKept ==
  ASSUME NEW r, Owns(r), \A j \in r.cells : store'[j] = store[j]
  PROVE  Owns(r)'
<1>1. PICK p \in [1 .. Len(r.name) -> r.cells] :
        /\ Along(r.chars, r.name, p)
        /\ r.cells = {r.entry, r.sym} \cup {p[j] : j \in 1 .. Len(r.name)}
  BY DEF Owns
<1>2. Along(r.chars, r.name, p)'
  BY <1>1, AlongKept
<1> QED BY <1>1, <1>2 DEF Owns

\* It is as it was when its cells and the fixed ones are.
LEMMA TableKept ==
  ASSUME NEW T \in Seq(Row), NEW M, Table(T, M),
         \A j \in M \cup {INTERN_LIST} : j \in Allocated' /\ store'[j] = store[j]
  PROVE  Table(T, M)'
<1>1. \A k \in 1 .. Len(T) :
        /\ T[k].entry \in M /\ T[k].sym \in M
        /\ store'[T[k].entry] = Cons(T[k].sym, IF k = 1 THEN NIL ELSE T[k-1].entry)
        /\ store'[T[k].sym] = Symbol(T[k].chars)
        /\ SpeltIn(M, T[k].chars, T[k].name)'
  BY SpeltInKept DEF Table
<1>2. store'[INTERN_LIST] = Cons(IF T = << >> THEN NIL ELSE T[Len(T)].entry, NIL)
  BY DEF Table
<1>3. M \subseteq Allocated' \ {NIL, INTERN_LIST}
  BY DEF Table
<1>4. Layout(T, M)'
  <2>1. M = UNION {T[k].cells : k \in 1 .. Len(T)}
    BY DEF Table, Layout
  <2>2. ASSUME NEW k \in 1 .. Len(T) PROVE Owns(T[k])'
    <3>1. Owns(T[k]) /\ \A j \in T[k].cells : store'[j] = store[j]
      BY <2>1 DEF Table, Layout
    <3> QED BY <3>1, OwnsKept
  <2> QED BY <2>1, <2>2 DEF Table, Layout
<1> QED BY <1>1, <1>2, <1>3, <1>4 DEF Table

LEMMA RowType ==
  ASSUME NEW T \in Seq(Row), NEW k \in 1 .. Len(T)
  PROVE  /\ T[k] \in Row /\ T[k].entry \in Slot /\ T[k].sym \in Slot
         /\ T[k].chars \in Slot /\ T[k].name \in Names /\ T[k].cells \in SUBSET Slot
<1>1. T[k] \in Row
  OBVIOUS
<1> QED BY <1>1 DEF Row

\* Every cell of the table can be reached from INTERN_LIST.
LEMMA TableReached ==
  ASSUME Typed, Fixed, NEW T \in Seq(Row), NEW M, Table(T, M),
         NEW S, INTERN_LIST \in S,
         \A i \in S \cap Allocated : \A k \in DOMAIN Links[store[i]] :
            Links[store[i]][k] \in Allocated => Links[store[i]][k] \in S
  PROVE  \A k \in 1 .. Len(T) :
           /\ T[k].entry \in S /\ T[k].sym \in S
           /\ \A p \in [1 .. Len(T[k].name) -> Allocated] :
                Along(T[k].chars, T[k].name, p) => \A j \in 1 .. Len(T[k].name) : p[j] \in S
<1>0. Len(T) \in Nat
  BY LenProperties
<1>1. \A i, j \in Slot : \A e \in S \cap Allocated :
        store[e] = Cons(i, j) => (i \in Allocated => i \in S) /\ (j \in Allocated => j \in S)
  <2> SUFFICES ASSUME NEW i \in Slot, NEW j \in Slot, NEW e \in S \cap Allocated,
                      store[e] = Cons(i, j)
               PROVE  (i \in Allocated => i \in S) /\ (j \in Allocated => j \in S)
    OBVIOUS
  <2>1. Links[store[e]] = <<i, j>>
    BY LinksOfCells
  <2>2. 1 \in DOMAIN Links[store[e]] /\ 2 \in DOMAIN Links[store[e]]
    BY <2>1
  <2>3. Links[store[e]][1] = i /\ Links[store[e]][2] = j
    BY <2>1
  <2> QED BY <2>2, <2>3
<1>2. \A i \in Slot : \A e \in S \cap Allocated :
        store[e] = Symbol(i) => (i \in Allocated => i \in S)
  <2> SUFFICES ASSUME NEW i \in Slot, NEW e \in S \cap Allocated, store[e] = Symbol(i)
               PROVE  i \in Allocated => i \in S
    OBVIOUS
  <2>1. Links[store[e]] = <<i>>
    BY LinksOfCells
  <2>2. 1 \in DOMAIN Links[store[e]] /\ Links[store[e]][1] = i
    BY <2>1
  <2> QED BY <2>2
<1>3. \A c \in Char, i \in Slot : \A e \in S \cap Allocated :
        i # NIL /\ store[e] = CharPair(c, i) => (i \in Allocated => i \in S)
  <2> SUFFICES ASSUME NEW c \in Char, NEW i \in Slot, NEW e \in S \cap Allocated,
                      i # NIL, store[e] = CharPair(c, i)
               PROVE  i \in Allocated => i \in S
    OBVIOUS
  <2>1. Links[store[e]] = <<i>>
    BY LinksOfCells
  <2>2. 1 \in DOMAIN Links[store[e]] /\ Links[store[e]][1] = i
    BY <2>1
  <2> QED BY <2>2
<1> DEFINE Missed == {m \in Nat : m < Len(T) /\ T[Len(T) - m].entry \notin S}
<1>4. Missed = {}
  <2> SUFFICES ASSUME NEW x \in Missed PROVE FALSE
    OBVIOUS
  <2>1. PICK m \in Missed : \A k \in Missed : ~(k < m)
    <3>1. Missed \in SUBSET Nat
      OBVIOUS
    <3> HIDE DEF Missed
    <3> QED BY <3>1, LeastNumber
  <2> DEFINE k == Len(T) - m
  <2>2. k \in 1 .. Len(T) /\ T[k].entry \notin S /\ T[k].entry \in Slot /\ T[k].entry \in Allocated
    BY <1>0, <2>1, RowType DEF Table
  <2>3. CASE m = 0
    <3>1. k = Len(T) /\ T # << >>
      BY <1>0, <2>3, <2>2, EmptySeq
    <3>2. store[INTERN_LIST] = Cons(T[k].entry, NIL)
      BY <3>1 DEF Table
    <3>3. INTERN_LIST \in S \cap Allocated /\ NIL \in Slot
      BY CellCases DEF Fixed
    <3> QED BY <1>1, <2>2, <3>2, <3>3
  <2>4. CASE m # 0
    <3>1. m - 1 \in Nat /\ m - 1 < m /\ Len(T) - (m - 1) = k + 1 /\ k + 1 \in 1 .. Len(T)
          /\ k + 1 # 1 /\ (k + 1) - 1 = k
      BY <1>0, <2>1, <2>2, <2>4
    <3>2. T[k+1].entry \in S
      <4>1. m - 1 \notin Missed
        BY <2>1, <3>1
      <4>2. m - 1 < Len(T)
        BY <1>0, <2>1, <3>1
      <4> QED BY <3>1, <4>1, <4>2
    <3>3. /\ store[T[k+1].entry] = Cons(T[k+1].sym, T[k].entry)
          /\ T[k+1].entry \in Allocated /\ T[k+1].sym \in Slot
      BY <3>1, RowType DEF Table
    <3> QED BY <1>1, <2>2, <3>2, <3>3
  <2> QED BY <2>3, <2>4
<1>5. \A k \in 1 .. Len(T) : T[k].entry \in S
  <2> SUFFICES ASSUME NEW k \in 1 .. Len(T) PROVE T[k].entry \in S
    OBVIOUS
  <2>1. Len(T) - k \in Nat /\ Len(T) - k < Len(T) /\ Len(T) - (Len(T) - k) = k
    BY <1>0
  <2> QED BY <1>4, <2>1
<1>6. \A k \in 1 .. Len(T) : T[k].sym \in S
  <2> SUFFICES ASSUME NEW k \in 1 .. Len(T) PROVE T[k].sym \in S
    OBVIOUS
  <2>1. store[T[k].entry] = Cons(T[k].sym, IF k = 1 THEN NIL ELSE T[k-1].entry)
    BY DEF Table
  <2>2. T[k].entry \in Allocated /\ T[k].sym \in Allocated /\ T[k].sym \in Slot
    BY RowType DEF Table
  <2>3. (IF k = 1 THEN NIL ELSE T[k-1].entry) \in Slot
    <3>1. CASE k = 1
      BY <3>1, CellCases
    <3>2. CASE k # 1
      <4>1. k - 1 \in 1 .. Len(T)
        BY <1>0, <3>2
      <4> QED BY <3>2, <4>1, RowType
    <3> QED BY <3>1, <3>2
  <2> QED BY <1>1, <1>5, <2>1, <2>2, <2>3
<1>7. ASSUME NEW k \in 1 .. Len(T), NEW p \in [1 .. Len(T[k].name) -> Allocated],
             Along(T[k].chars, T[k].name, p)
      PROVE  \A j \in 1 .. Len(T[k].name) : p[j] \in S
  <2> DEFINE n == Len(T[k].name)
             Lost == {j \in Nat : j \in 1 .. n /\ p[j] \notin S}
  <2>0. T[k].name \in Names /\ T[k].name \in Seq(Char) /\ n \in Nat \ {0}
    BY RowType, LenProperties, EmptySeq
  <2> SUFFICES ASSUME NEW x \in Lost PROVE FALSE
    BY <2>0
  <2>1. PICK j \in Lost : \A i \in Lost : ~(i < j)
    <3>1. Lost \in SUBSET Nat
      OBVIOUS
    <3> HIDE DEF Lost
    <3> QED BY <3>1, LeastNumber
  <2>2. p[j] \in Allocated /\ p[j] \in Slot /\ p[j] \notin S /\ j \in 1 .. n
    BY <1>7, <2>1 DEF Typed
  <2>3. CASE j = 1
    <3>1. p[1] = T[k].chars
      BY <1>7 DEF Along
    <3>2. store[T[k].sym] = Symbol(T[k].chars) /\ T[k].sym \in Allocated
      BY DEF Table
    <3> QED BY <1>2, <1>6, <2>2, <2>3, <3>1, <3>2
  <2>4. CASE j # 1
    <3>1. j - 1 \in 1 .. n /\ j - 1 < j /\ j - 1 \in Nat /\ j - 1 # n /\ (j - 1) + 1 = j
      BY <2>0, <2>2, <2>4
    <3>2. p[j-1] \in S /\ p[j-1] \in Allocated
      BY <1>7, <2>1, <3>1
    <3>3. store[p[j-1]] = CharPair(T[k].name[j-1], p[j])
      BY <1>7, <3>1 DEF Along
    <3>4. T[k].name[j-1] \in Char
      BY <2>0, <3>1
    <3>5. p[j] # NIL
      <4>1. \E c, i : store[p[j]] = CharPair(c, i)
        BY <1>7, <2>2 DEF Along
      <4> QED BY <4>1, KindsDiffer DEF Fixed
    <3> QED BY <1>3, <2>2, <3>2, <3>3, <3>4, <3>5
  <2> QED BY <2>3, <2>4
<1> QED BY <1>5, <1>6, <1>7

\* All cells of the table can be reached from the list.
LEMMA TableReachable ==
  ASSUME Typed, Fixed, NEW T \in Seq(Row), NEW M, Table(T, M),
         NEW S, INTERN_LIST \in S,
         \A i \in S \cap Allocated : \A k \in DOMAIN Links[store[i]] :
            Links[store[i]][k] \in Allocated => Links[store[i]][k] \in S
  PROVE  M \subseteq S
<1>1. \A k \in 1 .. Len(T) :
        /\ T[k].entry \in S /\ T[k].sym \in S
        /\ \A p \in [1 .. Len(T[k].name) -> Allocated] :
             Along(T[k].chars, T[k].name, p) => \A j \in 1 .. Len(T[k].name) : p[j] \in S
  BY TableReached
<1>2. M \subseteq Allocated /\ M = UNION {T[k].cells : k \in 1 .. Len(T)}
  BY DEF Table, Layout
<1>3. ASSUME NEW k \in 1 .. Len(T) PROVE T[k].cells \subseteq S
  <2>1. PICK p \in [1 .. Len(T[k].name) -> T[k].cells] :
          /\ Along(T[k].chars, T[k].name, p)
          /\ T[k].cells = {T[k].entry, T[k].sym} \cup {p[j] : j \in 1 .. Len(T[k].name)}
    BY DEF Table, Layout, Owns
  <2>2. p \in [1 .. Len(T[k].name) -> Allocated]
    BY <1>2, <2>1
  <2>3. \A j \in 1 .. Len(T[k].name) : p[j] \in S
    BY <1>1, <2>1, <2>2
  <2> QED BY <1>1, <2>1, <2>3
<1> QED BY <1>2, <1>3

\* What a collection keeps: the least set that holds the roots and whatever
\* the cells of it lead to.
LEMMA CollectStep ==
  ASSUME Typed, NEW R \in SUBSET Allocated, Heap!Collect(R)
  PROVE  \E S \in SUBSET Slot :
           /\ R \subseteq S
           /\ \A i \in S \cap Allocated : \A k \in DOMAIN Links[store[i]] :
                Links[store[i]][k] \in Allocated => Links[store[i]][k] \in S
           /\ store' = [i \in Allocated \cap S |-> store[i]]
           /\ \A X \in SUBSET Slot :
                /\ R \subseteq X
                /\ \A i \in X \cap Allocated : \A k \in DOMAIN Links[store[i]] : Links[store[i]][k] \in X
                => S \subseteq X
<1> DEFINE succ == Heap!Successors
           S == Heap!Reachable(succ, R)
<1>1. /\ DOMAIN succ = Slot
      /\ \A i \in Allocated : succ[i] = {Links[store[i]][k] : k \in DOMAIN Links[store[i]]} \cap Slot
      /\ \A i \in Slot \ Allocated : succ[i] = {}
  BY DEF Heap!Successors, Heap!Idx, Heap!Allocated, Allocated, Slot, Typed
<1>2. R \cap Allocated = R
  OBVIOUS
<1>3. store' = [i \in Allocated \cap S |-> store[i]]
  BY <1>2 DEF Heap!Collect, Heap!Allocated, Allocated
<1> HIDE DEF succ
<1>4. S \in SUBSET Slot /\ R \subseteq S
  BY <1>1 DEF Heap!Reachable, Typed
<1>5. \A i \in S : succ[i] \cap Slot \subseteq S
  <2> SUFFICES ASSUME NEW i \in S, NEW j \in succ[i] \cap Slot PROVE j \in S
    OBVIOUS
  <2>1. ASSUME NEW X \in SUBSET Slot, R \subseteq X, Heap!ClosedIn(succ, X) PROVE j \in X
    <3>1. i \in X
      BY <1>1, <2>1 DEF Heap!Reachable
    <3> QED BY <2>1, <3>1 DEF Heap!ClosedIn
  <2> QED BY <1>1, <2>1 DEF Heap!Reachable
<1>6. ASSUME NEW i \in S \cap Allocated, NEW k \in DOMAIN Links[store[i]],
             Links[store[i]][k] \in Allocated
      PROVE  Links[store[i]][k] \in S
  <2> HIDE DEF S
  <2>1. Links[store[i]][k] \in Slot
    BY <1>6 DEF Typed
  <2>2. Links[store[i]][k] \in succ[i]
    BY <1>1, <2>1
  <2> QED BY <1>5, <2>1, <2>2
<1>7. ASSUME NEW X \in SUBSET Slot, R \subseteq X,
             \A i \in X \cap Allocated : \A k \in DOMAIN Links[store[i]] : Links[store[i]][k] \in X
      PROVE  S \subseteq X
  <2>1. ASSUME NEW i \in X PROVE succ[i] \subseteq X
    <3>1. CASE i \in Allocated
      BY <1>1, <1>7, <3>1
    <3>2. CASE i \notin Allocated
      BY <1>1, <3>2
    <3> QED BY <3>1, <3>2
  <2>2. Heap!ClosedIn(succ, X)
    BY <2>1 DEF Heap!ClosedIn
  <2> QED BY <1>1, <1>7, <2>2 DEF Heap!Reachable
<1> HIDE DEF S
<1> QED BY <1>3, <1>4, <1>6, <1>7
-----------------------------------------------------------------------------
(* The steps.  What each shows is that the table stays, with the same cells *)
(* unless it publishes or collects, and that the call is where it should be.*)

InternAt(T, M) == /\ InternTypeOK /\ Fixed /\ HeldOK
                  /\ Table(T, M) /\ KnownOK(T) /\ JobOK(T, M)

LEMMA InternFromAt ==
  ASSUME NEW T \in Seq(Row), NEW M \in SUBSET Slot, InternAt(T, M)
  PROVE  InternInv
BY DEF InternAt, InternInv

LEMMA IdleOK ==
  ASSUME NEW T, NEW M, job = IdleJob
  PROVE  JobOK(T, M)
BY DEF JobOK, IdleJob

\* The program's own cells, and the chain of the call, as long as they are not
\* written to.
LEMMA HeldKept ==
  ASSUME HeldOK, held' \subseteq held, \A j \in held : j \in Allocated' /\ store'[j] = store[j]
  PROVE  HeldOK'
BY DEF HeldOK

LEMMA ChainedSpells ==
  ASSUME NEW M, Chained(M)
  PROVE  Spells(job.chain, job.name)
<1>1. PICK w \in Cells : Apart(w, 1 .. Len(job.name), M) /\ Along(job.chain, job.name, w)
  BY DEF Chained
<1>2. w \in [1 .. Len(job.name) -> Allocated]
  BY <1>1 DEF Cells, Apart
<1> QED BY <1>1, <1>2 DEF Spells

LEMMA ChainedKept ==
  ASSUME NEW M, Chained(M), \A j \in Allocated : j \in Allocated' /\ store'[j] = store[j],
         job'.name = job.name, job'.chain = job.chain
  PROVE  Chained(M)'
<1>1. PICK w \in Cells : Apart(w, 1 .. Len(job.name), M) /\ Along(job.chain, job.name, w)
  BY DEF Chained
<1>2. \A k \in 1 .. Len(job.name) : w[k] \in Allocated \ M
  BY <1>1 DEF Apart
<1>3. Apart(w, 1 .. Len(job.name), M)'
  BY <1>1, <1>2 DEF Apart
<1>4. Along(job.chain, job.name, w)'
  BY <1>1, <1>2 DEF Along
<1>5. w \in Cells'
  BY <1>1 DEF Cells
<1> QED BY <1>3, <1>4, <1>5 DEF Chained

\* A table is as it was after an allocation, or when nothing is allocated.
LEMMA TableGrows ==
  ASSUME NEW T \in Seq(Row), NEW M \in SUBSET Slot, Fixed, Table(T, M),
         \A j \in Allocated : j \in Allocated' /\ store'[j] = store[j]
  PROVE  Fixed' /\ Table(T, M)'
<1>1. \A j \in M \cup {INTERN_LIST} : j \in Allocated' /\ store'[j] = store[j]
  BY DEF Fixed, Table
<1>2. Table(T, M)'
  BY <1>1, TableKept
<1> QED BY <1>2 DEF Fixed

\* The head of the list, and why it is a slot.
LEMMA HeadOfList ==
  ASSUME Typed, NEW T \in Seq(Row), NEW M, Table(T, M)
  PROVE  /\ store[INTERN_LIST].car = IF Len(T) = 0 THEN NIL ELSE T[Len(T)].entry
         /\ store[INTERN_LIST].cdr = NIL
         /\ store[INTERN_LIST].car \in Slot
<1>1. store[INTERN_LIST] = Cons(IF T = << >> THEN NIL ELSE T[Len(T)].entry, NIL)
  BY DEF Table
<1>2. T = << >> <=> Len(T) = 0
  BY EmptySeq
<1>3. Len(T) # 0 => T[Len(T)].entry \in Slot
  BY RowType, LenProperties
<1> QED BY <1>1, <1>2, <1>3, KindsDiffer, CellCases

LEMMA JobTyped ==
  ASSUME InternTypeOK
  PROVE  /\ Typed
         /\ job.at \in {"idle", "read", "reverse", "walk", "chars", "symbol", "entry", "publish"}
         /\ job.count \in Nat /\ job.cur \in Slot /\ job.chain \in Slot /\ job.prev \in Slot
         /\ job.sym \in Slot /\ job.entry \in Slot
BY DEF InternTypeOK, Typed, Job

LEMMA IdleTyped == IdleJob \in Job
BY CellCases DEF IdleJob, Job

\* The type invariant after a step that leaves the program's own cells alone.
LEMMA TypeKept ==
  ASSUME InternTypeOK, Typed', UNCHANGED held, known' \in [Names -> SUBSET Slot],
         job' \in Job, job'.at \in {"read", "chars"} => job'.count < Len(job'.name)
  PROVE  InternTypeOK'
BY DEF InternTypeOK, Typed, Job

LEMMA NameTyped ==
  ASSUME NEW s \in Names
  PROVE  s \in Seq(Char) /\ Len(s) \in Nat \ {0} /\ \A k \in 1 .. Len(s) : s[k] \in Char
BY LenProperties, EmptySeq, ElementOfSeq

LEMMA GrownStep ==
  ASSUME job \in Job, NEW i \in Slot, NEW then \in {"reverse", "symbol"}, Grown(i, then)
  PROVE  /\ job' \in Job /\ UNCHANGED known
         /\ job'.name = job.name /\ job'.count = job.count + 1 /\ job'.chain = i
         /\ job'.via = job.via /\ job'.prev = job.prev
         /\ job'.at = IF job.count + 1 = Len(job.name) THEN then ELSE job.at
<1>1. PICK at : at = IF job.count + 1 = Len(job.name) THEN then ELSE job.at
  OBVIOUS
<1>2. job' = [job EXCEPT !.count = job.count + 1, !.chain = i, !.at = at] /\ UNCHANGED known
  BY <1>1 DEF Grown
<1>3. at \in {"idle", "read", "reverse", "walk", "chars", "symbol", "entry", "publish"}
  BY <1>1 DEF Job
<1>4. job.count + 1 \in Nat
  BY DEF Job
<1> QED BY <1>1, <1>2, <1>3, <1>4 DEF Job

\* A call that ends without an answer.
LEMMA EndsKept ==
  ASSUME NEW T \in Seq(Row), NEW M \in SUBSET Slot, InternAt(T, M),
         Typed', \A j \in Allocated : j \in Allocated' /\ store'[j] = store[j],
         Fail, UNCHANGED held
  PROVE  InternAt(T, M)'
<1>1. Fixed' /\ Table(T, M)'
  BY TableGrows DEF InternAt
<1>2. KnownOK(T)'
  BY DEF InternAt, KnownOK, Fail
<1>3. JobOK(T, M)'
  BY DEF JobOK, IdleJob, Fail
<1>4. InternTypeOK'
  <2>1. job' = IdleJob /\ job'.at = "idle" /\ known' = known
    BY DEF Fail, IdleJob
  <2> QED BY <2>1, IdleTyped, TypeKept DEF InternAt, InternTypeOK
<1>5. HeldOK'
  BY HeldKept DEF InternAt, HeldOK
<1> QED BY <1>1, <1>2, <1>3, <1>4, <1>5 DEF InternAt

LEMMA CallSymbolInv ==
  ASSUME NEW T \in Seq(Row), NEW M \in SUBSET Slot, InternAt(T, M),
         NEW s \in Names, CallSymbol(s)
  PROVE  InternAt(T, M)'
<1>1. Typed /\ UNCHANGED store
  BY JobTyped DEF InternAt, CallSymbol
<1>2. Fixed' /\ Table(T, M)'
  BY <1>1, TableGrows DEF InternAt, Allocated
<1>3. KnownOK(T)'
  BY DEF InternAt, KnownOK, CallSymbol
<1>4. /\ store[INTERN_LIST].car \in Slot
      /\ store[INTERN_LIST].car = IF Len(T) = 0 THEN NIL ELSE T[Len(T)].entry
  BY <1>1, HeadOfList DEF InternAt
<1>5. WalkOK(T, M)'
  <2>1. Len(T) \in Nat
    BY LenProperties
  <2>2. Len(T) \in 0 .. Len(T) /\ Len(T)+1 .. Len(T) = {}
    BY <2>1
  <2>3. job'.cur = store[INTERN_LIST].car /\ job'.via = "str" /\ job'.count = 0 /\ job'.chain = NIL
    BY DEF CallSymbol, IdleJob
  <2> QED BY <1>4, <2>2, <2>3 DEF WalkOK
<1>6. job'.at = "walk" /\ job'.name = s
  BY DEF CallSymbol, IdleJob
<1>7. JobOK(T, M)'
  BY <1>5, <1>6 DEF JobOK
<1>8. InternTypeOK'
  <2>1. job' \in Job
    BY <1>4, IdleTyped DEF CallSymbol, Job
  <2>2. UNCHANGED <<held, known>> /\ Typed'
    BY <1>1 DEF CallSymbol, Typed, Allocated
  <2> QED BY <1>6, <2>1, <2>2, TypeKept DEF InternAt, InternTypeOK
<1>9. HeldOK'
  BY <1>1 DEF InternAt, HeldOK, CallSymbol, Allocated
<1> QED BY <1>2, <1>3, <1>7, <1>8, <1>9 DEF InternAt

LEMMA MeetAtomInv ==
  ASSUME NEW T \in Seq(Row), NEW M \in SUBSET Slot, InternAt(T, M),
         NEW s \in Names, MeetAtom(s)
  PROVE  InternAt(T, M)'
<1>1. Typed /\ UNCHANGED store
  BY JobTyped DEF InternAt, MeetAtom
<1>2. Fixed' /\ Table(T, M)'
  BY <1>1, TableGrows DEF InternAt, Allocated
<1>3. KnownOK(T)'
  BY DEF InternAt, KnownOK, MeetAtom
<1>4. /\ job'.at = "read" /\ job'.name = s /\ job'.count = 0 /\ job'.prev = NIL
      /\ job'.chain = NIL /\ job'.via = "chain"
  BY DEF MeetAtom, IdleJob
<1>5. ReadOK(M)'
  <2>1. PICK w : w = [k \in 1 .. Len(s) |-> NIL]
    OBVIOUS
  <2>2. w \in Cells'
    BY <1>4, <2>1, CellCases DEF Cells
  <2>3. 1 .. job'.count = {}
    BY <1>4
  <2> QED BY <1>4, <2>2, <2>3 DEF ReadOK, Apart
<1>6. JobOK(T, M)'
  BY <1>4, <1>5 DEF JobOK
<1>7. InternTypeOK'
  <2>1. job' \in Job
    BY IdleTyped DEF MeetAtom, Job
  <2>2. UNCHANGED <<held, known>> /\ Typed'
    BY <1>1 DEF MeetAtom, Typed, Allocated
  <2>3. 0 < Len(s)
    BY NameTyped
  <2> QED BY <1>4, <2>1, <2>2, <2>3, TypeKept DEF InternAt, InternTypeOK
<1>8. HeldOK'
  BY <1>1 DEF InternAt, HeldOK, MeetAtom, Allocated
<1> QED BY <1>2, <1>3, <1>6, <1>7, <1>8 DEF InternAt

LEMMA ReadCharInv ==
  ASSUME NEW T \in Seq(Row), NEW M \in SUBSET Slot, InternAt(T, M), ReadChar
  PROVE  InternAt(T, M)'
<1>0. PICK n, k, c : n = Len(job.name) /\ k = job.count + 1 /\ c = CharPair(job.name[k], job.chain)
  OBVIOUS
<1>1. /\ Typed /\ job.at = "read" /\ job.name \in Names /\ ReadOK(M) /\ job.count \in Nat
      /\ job.count < n /\ job.chain \in Slot
  BY <1>0, JobTyped DEF InternAt, ReadChar, JobOK, InternTypeOK
<1>2. n \in Nat \ {0} /\ k \in 1 .. n /\ c \in Cell
  <2>1. n \in Nat \ {0}
    BY <1>0, <1>1, NameTyped
  <2>2. k \in 1 .. n
    BY <1>0, <1>1, <2>1
  <2> QED BY <1>0, <1>1, <2>1, <2>2, NameTyped, CellCases
<1>3. CASE Full(c) /\ Fail
  <2>1. UNCHANGED store /\ UNCHANGED held
    BY <1>3, FullStep DEF ReadChar
  <2> QED BY <1>1, <1>3, <2>1, EndsKept DEF Typed, Allocated
<1>4. CASE \E i \in Slot : Fresh(c, i) /\ Grown(i, "reverse")
  <2>1. PICK i \in Slot : Fresh(c, i) /\ Grown(i, "reverse")
    BY <1>4
  <2>2. /\ i \in Slot \ Allocated /\ Allocated' = Allocated \cup {i} /\ store'[i] = c
        /\ \A j \in Allocated : store'[j] = store[j]
        /\ Typed'
    BY <1>1, <1>2, <2>1, AllocStep
  <2>3. Fixed' /\ Table(T, M)' /\ i \notin M
    BY <2>2, TableGrows DEF InternAt, Table
  <2>4. /\ job'.name = job.name /\ job'.count = k /\ job'.chain = i /\ job'.via = job.via
        /\ job'.prev = job.prev /\ job'.at = IF k = n THEN "reverse" ELSE "read"
        /\ job' \in Job /\ UNCHANGED <<known, held>>
    <3>1. job \in Job /\ UNCHANGED held
      BY DEF InternAt, InternTypeOK, ReadChar
    <3> QED BY <1>0, <1>1, <2>1, <3>1, GrownStep
  <2>5. PICK w \in [1 .. n -> Slot] :
          /\ Apart(w, 1 .. job.count, M)
          /\ \A j \in 1 .. job.count : Made(w, j)
          /\ job.chain = IF job.count = 0 THEN NIL ELSE w[job.count]
    BY <1>0, <1>1 DEF ReadOK, Cells
  <2>12. PICK v : v = [w EXCEPT ![k] = i]
    OBVIOUS
  <2>6. v \in [1 .. n -> Slot] /\ v[k] = i /\ \A j \in 1 .. job.count : v[j] = w[j] /\ j # k
    BY <1>0, <1>1, <1>2, <2>1, <2>5, <2>12
  <2>7. 1 .. k = 1 .. job.count \cup {k}
    BY <1>0, <1>1
  <2>8. Apart(v, 1 .. k, M)'
    <3>1. \A j \in 1 .. job.count : /\ v[j] = w[j] /\ v[j] \in Allocated \ M
      BY <2>5, <2>6 DEF Apart
    <3>2. \A j \in 1 .. k : v[j] \in Allocated' \ M
      BY <2>2, <2>3, <2>6, <2>7, <3>1
    <3>3. \A j, l \in 1 .. job.count : v[j] = v[l] => j = l
      BY <2>5, <3>1 DEF Apart
    <3>4. \A j \in 1 .. job.count : v[j] # v[k]
      BY <2>2, <2>6, <3>1
    <3>5. \A j, l \in 1 .. k : v[j] = v[l] => j = l
      BY <2>7, <3>3, <3>4
    <3> QED BY <3>2, <3>5 DEF Apart
  <2>9. ASSUME NEW j \in 1 .. k PROVE Made(v, j)'
    <3>1. CASE j = k
      <4>1. job.chain = IF k = 1 THEN NIL ELSE v[k-1]
        BY <1>0, <1>1, <2>5, <2>6
      <4>2. store'[v[k]] = CharPair(job.name[k], job.chain)
        BY <1>0, <2>2, <2>6
      <4> QED BY <2>4, <3>1, <4>1, <4>2 DEF Made
    <3>2. CASE j # k
      <4>1. j \in 1 .. job.count /\ (j = 1 \/ j - 1 \in 1 .. job.count)
        BY <1>0, <1>1, <3>2
      <4>2. store'[v[j]] = store[w[j]]
        BY <2>2, <2>5, <2>6, <4>1 DEF Apart
      <4>3. (IF j = 1 THEN NIL ELSE v[j-1]) = (IF j = 1 THEN NIL ELSE w[j-1])
        BY <2>6, <4>1
      <4>4. store[w[j]] = CharPair(job.name[j], IF j = 1 THEN NIL ELSE w[j-1])
        BY <2>5, <4>1 DEF Made
      <4> QED BY <2>4, <4>2, <4>3, <4>4 DEF Made
    <3> QED BY <3>1, <3>2
  <2>10. KnownOK(T)'
    BY <2>4 DEF InternAt, KnownOK
  <2>11. JobOK(T, M)'
    <3>1. CASE k = n
      <4>1. ReverseOK(M)'
        <5>1. v \in Cells' /\ n \in 1 .. Len(job'.name) /\ n+1 .. Len(job'.name) = {}
          BY <1>0, <1>2, <2>4, <2>6 DEF Cells
        <5>2. /\ Apart(v, 1 .. n, M)' /\ \A j \in 1 .. n : Made(v, j)'
          BY <2>8, <2>9, <3>1
        <5>3. job'.via = "chain" /\ job'.chain = v[n] /\ job'.prev = NIL
          BY <1>1, <2>4, <2>6, <3>1 DEF ReadOK
        <5>4. n = Len(job'.name)
          BY <1>0, <2>4
        <5> QED BY <5>1, <5>2, <5>3, <5>4 DEF ReverseOK
      <4> QED BY <1>1, <2>4, <3>1, <4>1 DEF JobOK
    <3>2. CASE k # n
      <4>1. ReadOK(M)'
        <5>1. v \in Cells'
          BY <1>0, <2>4, <2>6 DEF Cells
        <5>2. k # 0
          BY <1>2
        <5>3. job'.via = "chain" /\ job'.chain = v[k] /\ job'.prev = NIL /\ job'.count = k
          BY <1>1, <2>4, <2>6 DEF ReadOK
        <5> QED BY <2>8, <2>9, <5>1, <5>2, <5>3 DEF ReadOK
      <4> QED BY <1>1, <2>4, <3>2, <4>1 DEF JobOK
    <3> QED BY <3>1, <3>2
  <2>13. InternTypeOK'
    <3>1. k \in Nat /\ (k # n => k < n)
      BY <1>0, <1>1, <1>2
    <3> QED BY <1>0, <2>2, <2>4, <3>1, TypeKept DEF InternAt, InternTypeOK
  <2>14. HeldOK'
    BY <2>2, <2>4, HeldKept DEF InternAt, HeldOK
  <2> QED BY <2>3, <2>10, <2>11, <2>13, <2>14 DEF InternAt
<1> QED BY <1>0, <1>3, <1>4 DEF ReadChar

\* A call that moves on without a new cell and without an answer.
LEMMA StepsKept ==
  ASSUME NEW T \in Seq(Row), NEW M \in SUBSET Slot, InternAt(T, M),
         Typed', \A j \in Allocated : j \in Allocated' /\ store'[j] = store[j],
         UNCHANGED <<held, known>>, job' \in Job,
         job'.at \in {"read", "chars"} => job'.count < Len(job'.name), JobOK(T, M)'
  PROVE  InternAt(T, M)'
<1>1. Fixed' /\ Table(T, M)'
  BY TableGrows DEF InternAt
<1>2. KnownOK(T)'
  BY DEF InternAt, KnownOK
<1>3. InternTypeOK'
  BY TypeKept DEF InternAt, InternTypeOK
<1>4. HeldOK'
  BY HeldKept DEF InternAt, HeldOK
<1> QED BY <1>1, <1>2, <1>3, <1>4 DEF InternAt

\* The cursor stands at a row of the table, or at the end of the list.
LEMMA CursorRow ==
  ASSUME Typed, Fixed, NEW T \in Seq(Row), NEW M, Table(T, M), NEW c \in 1 .. Len(T)
  PROVE  /\ T[c].entry # NIL /\ T[c].sym \in Slot /\ T[c].name \in Names
         /\ store[T[c].entry].car = T[c].sym
         /\ store[T[c].entry].cdr = IF c - 1 = 0 THEN NIL ELSE T[c-1].entry
         /\ store[T[c].entry].cdr \in Slot
         /\ store[T[c].sym].name = T[c].chars
         /\ Spells(T[c].chars, T[c].name)
<1>1. /\ T[c].entry # NIL
      /\ store[T[c].entry] = Cons(T[c].sym, IF c = 1 THEN NIL ELSE T[c-1].entry)
      /\ store[T[c].sym] = Symbol(T[c].chars)
      /\ SpeltIn(M, T[c].chars, T[c].name) /\ M \subseteq Allocated
  BY DEF Table
<1>2. Len(T) \in Nat
  BY LenProperties
<1>3. c - 1 = 0 <=> c = 1
  BY <1>2
<1>4. c # 1 => c - 1 \in 1 .. Len(T)
  BY <1>2
<1>5. (IF c = 1 THEN NIL ELSE T[c-1].entry) \in Slot
  BY <1>4, RowType, CellCases
<1>6. Spells(T[c].chars, T[c].name)
  BY <1>1, SpeltInSpells
<1> QED BY <1>1, <1>3, <1>5, <1>6, RowType, KindsDiffer

\* Matches is equality of names.
LEMMA MatchesRow ==
  ASSUME Typed, Fixed, NEW T \in Seq(Row), NEW M, Table(T, M), WalkOK(T, M),
         job.name \in Names, NEW c \in 1 .. Len(T)
  PROVE  Matches(T[c].sym) <=> T[c].name = job.name
<1>1. store[T[c].sym].name = T[c].chars /\ Spells(T[c].chars, T[c].name) /\ T[c].name \in Names
  BY CursorRow
<1>2. CASE job.via = "str"
  BY <1>1, <1>2, SpellsUnique DEF Matches
<1>3. CASE job.via = "chain" /\ Chained(M)
  <2>0. Spells(job.chain, job.name)
    BY <1>3, ChainedSpells
  <2>1. ASSUME T[c].name = job.name PROVE SameChars(T[c].chars, job.chain)
    BY <1>1, <2>0, <2>1 DEF SameChars
  <2>2. ASSUME SameChars(T[c].chars, job.chain) PROVE T[c].name = job.name
    <3>1. CASE T[c].chars = job.chain
      BY <1>1, <2>0, <3>1, SpellsUnique
    <3>2. CASE \E s \in Names : Spells(T[c].chars, s) /\ Spells(job.chain, s)
      <4>1. PICK s \in Names : Spells(T[c].chars, s) /\ Spells(job.chain, s)
        BY <3>2
      <4>2. s = T[c].name
        BY <1>1, <4>1, SpellsUnique
      <4>3. s = job.name
        BY <2>0, <4>1, SpellsUnique
      <4> QED BY <4>2, <4>3
    <3> QED BY <2>2, <3>1, <3>2 DEF SameChars
  <2> QED BY <1>1, <1>3, <2>1, <2>2 DEF Matches
<1> QED BY <1>2, <1>3 DEF WalkOK

LEMMA CompareInv ==
  ASSUME NEW T \in Seq(Row), NEW M \in SUBSET Slot, InternAt(T, M), Compare
  PROVE  InternAt(T, M)'
<1>1. /\ Typed /\ Fixed /\ Table(T, M) /\ job.at = "walk" /\ job.name \in Names /\ WalkOK(T, M)
      /\ UNCHANGED <<store, held>> /\ job \in Job /\ job.cur # NIL
  BY JobTyped DEF InternAt, Compare, JobOK, InternTypeOK
<1>2. Typed' /\ \A j \in Allocated : j \in Allocated' /\ store'[j] = store[j]
  BY <1>1 DEF Typed, Allocated
<1>3. PICK c \in 0 .. Len(T) : /\ job.cur = IF c = 0 THEN NIL ELSE T[c].entry
                               /\ \A k \in c+1 .. Len(T) : T[k].name # job.name
  BY <1>1 DEF WalkOK
<1>4. Len(T) \in Nat
  BY LenProperties
<1>5. c \in 1 .. Len(T) /\ job.cur = T[c].entry
  BY <1>1, <1>3, <1>4
<1>6. /\ store[job.cur].car = T[c].sym /\ T[c].sym \in Slot
      /\ store[job.cur].cdr = IF c - 1 = 0 THEN NIL ELSE T[c-1].entry
      /\ store[job.cur].cdr \in Slot
  BY <1>1, <1>5, CursorRow
<1>7. Matches(T[c].sym) <=> T[c].name = job.name
  BY <1>1, <1>5, MatchesRow
<1>8. CASE Matches(T[c].sym) /\ Answer(T[c].sym)
  <2>1. /\ job' = IdleJob /\ job'.at = "idle" /\ T[c].name = job.name
        /\ known' = [known EXCEPT ![job.name] = @ \cup {T[c].sym}]
        /\ known \in [Names -> SUBSET Slot]
    BY <1>7, <1>8 DEF Answer, IdleJob, InternAt, InternTypeOK
  <2>2. known' \in [Names -> SUBSET Slot]
    BY <1>1, <1>6, <2>1
  <2>3. ASSUME NEW s \in Names, NEW i \in known'[s]
        PROVE  \E k \in 1 .. Len(T) : T[k].sym = i /\ T[k].name = s
    <3>1. CASE i \in known[s]
      BY <3>1 DEF InternAt, KnownOK
    <3>2. CASE i \notin known[s]
      <4>1. s = job.name /\ i = T[c].sym
        BY <1>1, <2>1, <2>3, <3>2
      <4> QED BY <1>5, <2>1, <4>1
    <3> QED BY <3>1, <3>2
  <2>4. Fixed' /\ Table(T, M)'
    BY <1>1, <1>2, TableGrows
  <2>5. InternTypeOK'
    BY <1>1, <1>2, <2>1, <2>2, IdleTyped, TypeKept DEF InternAt
  <2>6. JobOK(T, M)'
    BY <2>1 DEF JobOK
  <2>7. KnownOK(T)'
    BY <2>3 DEF KnownOK
  <2>8. HeldOK'
    BY <1>1, <1>2, HeldKept DEF InternAt, HeldOK
  <2> QED BY <2>4, <2>5, <2>6, <2>7, <2>8 DEF InternAt
<1>9. CASE ~Matches(T[c].sym) /\ job' = [job EXCEPT !.cur = store[job.cur].cdr]
                              /\ UNCHANGED known
  <2>1. /\ job' \in Job /\ job'.at = "walk" /\ job'.name = job.name /\ job'.via = job.via
        /\ job'.count = job.count /\ job'.chain = job.chain
        /\ job'.cur = IF c - 1 = 0 THEN NIL ELSE T[c-1].entry
    BY <1>1, <1>6, <1>9 DEF Job
  <2>2. c - 1 \in 0 .. Len(T) /\ (c-1)+1 = c /\ c .. Len(T) = {c} \cup c+1 .. Len(T)
    BY <1>4, <1>5
  <2>3. \A k \in (c-1)+1 .. Len(T) : T[k].name # job'.name
    BY <1>3, <1>7, <1>9, <2>1, <2>2
  <2>4. Chained(M) => Chained(M)'
    BY <1>2, <2>1, ChainedKept
  <2>5. WalkOK(T, M)'
    <3>1. \/ job'.via = "str" /\ job'.count = 0 /\ job'.chain = NIL
          \/ job'.via = "chain" /\ Chained(M)'
      BY <1>1, <2>1, <2>4 DEF WalkOK
    <3> QED BY <2>1, <2>2, <2>3, <3>1 DEF WalkOK
  <2>6. JobOK(T, M)'
    BY <1>1, <2>1, <2>5 DEF JobOK
  <2> QED BY <1>1, <1>2, <1>9, <2>1, <2>6, StepsKept
<1> QED BY <1>6, <1>8, <1>9 DEF Compare

LEMMA NotFoundInv ==
  ASSUME NEW T \in Seq(Row), NEW M \in SUBSET Slot, InternAt(T, M), NotFound
  PROVE  InternAt(T, M)'
<1>1. /\ Typed /\ Fixed /\ Table(T, M) /\ job.at = "walk" /\ job.name \in Names /\ WalkOK(T, M)
      /\ UNCHANGED <<store, held>> /\ job \in Job /\ job.cur = NIL
  BY JobTyped DEF InternAt, NotFound, JobOK, InternTypeOK
<1>2. Typed' /\ \A j \in Allocated : j \in Allocated' /\ store'[j] = store[j]
  BY <1>1 DEF Typed, Allocated
<1>3. PICK c \in 0 .. Len(T) : /\ job.cur = IF c = 0 THEN NIL ELSE T[c].entry
                               /\ \A k \in c+1 .. Len(T) : T[k].name # job.name
  BY <1>1 DEF WalkOK
<1>4. Len(T) \in Nat
  BY LenProperties
<1>5. c = 0
  BY <1>1, <1>3, <1>4, CursorRow
<1>6. New(T)
  BY <1>3, <1>4, <1>5 DEF New
<1>7. CASE job.via = "chain" /\ job' = Goto("symbol") /\ UNCHANGED known
  <2>1. /\ job' \in Job /\ job'.at = "symbol" /\ job'.name = job.name /\ job'.chain = job.chain
    BY <1>1, <1>7 DEF Goto, Job
  <2>2. Chained(M)
    BY <1>1, <1>7 DEF WalkOK
  <2>3. JobOK(T, M)'
    <3>1. Chained(M)'
      BY <1>2, <2>1, <2>2, ChainedKept
    <3>2. New(T)'
      BY <1>6, <2>1 DEF New
    <3> QED BY <1>1, <2>1, <3>1, <3>2 DEF JobOK
  <2> QED BY <1>1, <1>2, <1>7, <2>1, <2>3, StepsKept
<1>8. CASE Fail
  BY <1>1, <1>2, <1>8, EndsKept
<1>9. CASE job.via = "str" /\ job' = Goto("chars") /\ UNCHANGED known
  <2>1. /\ job' \in Job /\ job'.at = "chars" /\ job'.name = job.name /\ job'.chain = NIL
        /\ job'.count = 0
    BY <1>1, <1>9 DEF Goto, Job, WalkOK
  <2>2. 0 < Len(job.name) /\ Len(job.name) \in Nat
    BY <1>1, NameTyped
  <2>3. CharsOK(M)'
    <3>1. PICK w : w = [k \in 1 .. Len(job.name) |-> NIL]
      OBVIOUS
    <3>2. w \in Cells'
      BY <2>1, <3>1, CellCases DEF Cells
    <3>3. Len(job'.name)+1-job'.count .. Len(job'.name) = {}
      BY <2>1, <2>2
    <3> QED BY <2>1, <3>2, <3>3 DEF CharsOK, Apart
  <2>4. New(T)'
    BY <1>6, <2>1 DEF New
  <2>5. JobOK(T, M)'
    BY <1>1, <2>1, <2>3, <2>4 DEF JobOK
  <2> QED BY <1>1, <1>2, <1>9, <2>1, <2>2, <2>5, StepsKept
<1> QED BY <1>7, <1>8, <1>9 DEF NotFound

LEMMA CopyCharInv ==
  ASSUME NEW T \in Seq(Row), NEW M \in SUBSET Slot, InternAt(T, M), CopyChar
  PROVE  InternAt(T, M)'
<1>0. PICK n, k, c : /\ n = Len(job.name) /\ k = n - job.count
                     /\ c = CharPair(job.name[n + 1 - (job.count + 1)], job.chain)
  OBVIOUS
<1>1. /\ Typed /\ job.at = "chars" /\ job.name \in Names /\ CharsOK(M) /\ job.count \in Nat
      /\ job.count < n /\ job.chain \in Slot /\ job \in Job /\ UNCHANGED held /\ New(T)
  BY <1>0, JobTyped DEF InternAt, CopyChar, JobOK, InternTypeOK
<1>2. /\ n \in Nat \ {0} /\ k \in 1 .. n /\ n + 1 - (job.count + 1) = k
      /\ n + 1 - job.count = k + 1
  <2>1. n \in Nat \ {0}
    BY <1>0, <1>1, NameTyped
  <2> QED BY <1>0, <1>1, <2>1
<1>3. c = CharPair(job.name[k], job.chain) /\ c \in Cell
  BY <1>0, <1>1, <1>2, NameTyped, CellCases
<1>4. CASE Full(c) /\ Fail
  <2>1. UNCHANGED store
    BY <1>4, FullStep
  <2> QED BY <1>1, <1>4, <2>1, EndsKept DEF Typed, Allocated
<1>5. CASE \E i \in Slot : Fresh(c, i) /\ Grown(i, "symbol")
  <2>1. PICK i \in Slot : Fresh(c, i) /\ Grown(i, "symbol")
    BY <1>5
  <2>2. /\ i \in Slot \ Allocated /\ Allocated' = Allocated \cup {i} /\ store'[i] = c
        /\ \A j \in Allocated : store'[j] = store[j]
        /\ Typed'
    BY <1>1, <1>3, <2>1, AllocStep
  <2>3. /\ job'.name = job.name /\ job'.count = job.count + 1 /\ job'.chain = i
        /\ job'.at = IF k = 1 THEN "symbol" ELSE "chars"
        /\ job' \in Job /\ UNCHANGED <<known, held>>
    <3>1. job.count + 1 = n <=> k = 1
      BY <1>0, <1>1, <1>2
    <3> QED BY <1>0, <1>1, <2>1, <3>1, GrownStep
  <2>4. PICK w \in [1 .. n -> Slot] :
          /\ Apart(w, k+1 .. n, M) /\ \A j \in k+1 .. n : w[j] \in Allocated /\ Turned(w, j)
          /\ job.chain = IF job.count = 0 THEN NIL ELSE w[k+1]
    BY <1>0, <1>1, <1>2 DEF CharsOK, Cells, Apart
  <2>5. PICK v : v = [w EXCEPT ![k] = i]
    OBVIOUS
  <2>6. v \in [1 .. n -> Slot] /\ v[k] = i /\ \A j \in k+1 .. n : v[j] = w[j] /\ j # k
    BY <1>2, <2>1, <2>4, <2>5
  <2>7. ASSUME NEW j \in k .. n PROVE v[j] \in Allocated' /\ Turned(v, j)'
    <3>1. CASE j = k
      <4>1. job.chain = IF k = n THEN NIL ELSE v[k+1]
        <5>1. job.count = 0 <=> k = n
          BY <1>0, <1>1, <1>2
        <5>2. k # n => k + 1 \in k+1 .. n
          BY <1>2
        <5> QED BY <2>4, <2>6, <5>1, <5>2
      <4>2. store'[v[k]] = CharPair(job.name[k], job.chain)
        BY <1>3, <2>2, <2>6
      <4> QED BY <1>0, <2>2, <2>3, <2>6, <3>1, <4>1, <4>2 DEF Turned
    <3>2. CASE j # k
      <4>1. j \in k+1 .. n /\ (j = n \/ j + 1 \in k+1 .. n)
        BY <1>2, <3>2
      <4>2. w[j] \in Allocated /\ store'[v[j]] = store[w[j]]
        BY <2>2, <2>4, <2>6, <4>1
      <4>3. (IF j = n THEN NIL ELSE v[j+1]) = (IF j = n THEN NIL ELSE w[j+1])
        BY <2>6, <4>1
      <4>4. store[w[j]] = CharPair(job.name[j], IF j = n THEN NIL ELSE w[j+1])
        BY <1>0, <2>4, <4>1 DEF Turned
      <4>5. store'[v[j]] = CharPair(job.name[j], IF j = n THEN NIL ELSE v[j+1])
        BY <4>2, <4>3, <4>4
      <4> QED BY <1>0, <2>2, <2>3, <2>6, <4>1, <4>2, <4>5 DEF Turned
    <3> QED BY <3>1, <3>2
  <2>12. Apart(v, k .. n, M)'
    <3>1. i \notin M /\ k .. n = {k} \cup k+1 .. n
      BY <1>2, <2>2 DEF InternAt, Table
    <3>2. \A j \in k+1 .. n : v[j] = w[j] /\ v[j] \in Allocated \ M
      BY <2>4, <2>6 DEF Apart
    <3>3. \A j \in k .. n : v[j] \in Allocated' \ M
      BY <2>2, <2>6, <3>1, <3>2
    <3>4. \A j, l \in k+1 .. n : v[j] = v[l] => j = l
      BY <2>4, <3>2 DEF Apart
    <3>5. \A j \in k+1 .. n : v[j] # v[k]
      BY <2>2, <2>6, <3>2
    <3>6. \A j, l \in k .. n : v[j] = v[l] => j = l
      BY <3>1, <3>4, <3>5
    <3> QED BY <3>3, <3>6 DEF Apart
  <2>8. New(T)'
    BY <1>1, <2>3 DEF New
  <2>9. JobOK(T, M)'
    <3>1. CASE k = 1
      <4>1. v \in Cells' /\ Len(job'.name) = n
        BY <1>0, <2>3, <2>6 DEF Cells
      <4>2. Along(i, job.name, v)'
        BY <1>0, <2>3, <2>6, <2>7, <3>1 DEF Along, Turned
      <4>3. Chained(M)'
        BY <1>0, <2>3, <2>12, <3>1, <4>1, <4>2 DEF Chained, Along
      <4> QED BY <1>1, <2>3, <2>8, <3>1, <4>3 DEF JobOK
    <3>2. CASE k # 1
      <4>1. CharsOK(M)'
        <5>1. Len(job'.name) + 1 - job'.count = k /\ job'.count # 0 /\ Len(job'.name) = n
          BY <1>0, <1>1, <1>2, <2>3
        <5>2. v \in Cells'
          BY <2>6, <5>1 DEF Cells
        <5> QED BY <2>3, <2>6, <2>7, <2>12, <5>1, <5>2 DEF CharsOK
      <4> QED BY <1>1, <2>3, <2>8, <3>2, <4>1 DEF JobOK
    <3> QED BY <3>1, <3>2
  <2>10. k # 1 => job'.count < Len(job'.name)
    BY <1>0, <1>1, <1>2, <2>3
  <2>11. \A j \in Allocated : j \in Allocated' /\ store'[j] = store[j]
    BY <2>2
  <2> QED BY <2>2, <2>3, <2>9, <2>10, <2>11, StepsKept
<1>6. (Full(c) /\ Fail) \/ \E i \in Slot : Fresh(c, i) /\ Grown(i, "symbol")
  BY <1>0 DEF CopyChar
<1> QED BY <1>4, <1>5, <1>6

LEMMA MakeSymbolInv ==
  ASSUME NEW T \in Seq(Row), NEW M \in SUBSET Slot, InternAt(T, M), MakeSymbol
  PROVE  InternAt(T, M)'
<1>1. /\ Typed /\ job.at = "symbol" /\ job.name \in Names /\ New(T)
      /\ Chained(M) /\ job.chain \in Slot /\ job \in Job /\ UNCHANGED held
  BY JobTyped DEF InternAt, MakeSymbol, JobOK, InternTypeOK
<1>2. CASE Full(Symbol(job.chain)) /\ Fail
  <2>1. UNCHANGED store
    BY <1>2, FullStep
  <2> QED BY <1>1, <1>2, <2>1, EndsKept DEF Typed, Allocated
<1>3. ASSUME NEW i \in Slot, Fresh(Symbol(job.chain), i),
             job' = [Goto("entry") EXCEPT !.sym = i], UNCHANGED known
      PROVE  InternAt(T, M)'
  <2>1. /\ i \in Slot \ Allocated /\ Allocated' = Allocated \cup {i} /\ store'[i] = Symbol(job.chain)
        /\ \A j \in Allocated : j \in Allocated' /\ store'[j] = store[j]
        /\ Typed'
    <3>1. Symbol(job.chain) \in Cell
      BY <1>1, CellCases
    <3> QED BY <1>1, <1>3, <3>1, AllocStep
  <2>2. /\ job' \in Job /\ job'.at = "entry" /\ job'.sym = i
        /\ job'.name = job.name /\ job'.chain = job.chain
    BY <1>1, <1>3 DEF Goto, Job
  <2>3. Chained(M)'
    BY <1>1, <2>1, <2>2, ChainedKept
  <2>7. i \notin M
    BY <2>1 DEF InternAt, Table
  <2>4. SymbolOK(M)'
    BY <2>1, <2>2, <2>7 DEF SymbolOK
  <2>5. New(T)'
    BY <1>1, <2>2 DEF New
  <2>6. JobOK(T, M)'
    BY <1>1, <2>2, <2>3, <2>4, <2>5 DEF JobOK
  <2> QED BY <1>1, <1>3, <2>1, <2>2, <2>6, StepsKept
<1> QED BY <1>2, <1>3 DEF MakeSymbol

LEMMA MakeEntryInv ==
  ASSUME NEW T \in Seq(Row), NEW M \in SUBSET Slot, InternAt(T, M), MakeEntry
  PROVE  InternAt(T, M)'
<1>0. PICK entry : entry = Cons(job.sym, store[INTERN_LIST].car)
  OBVIOUS
<1>1. /\ Typed /\ Fixed /\ job.at = "entry" /\ job.name \in Names /\ New(T)
      /\ Chained(M) /\ job.chain \in Slot /\ job \in Job /\ UNCHANGED held
      /\ SymbolOK(M) /\ job.sym \in Slot
  BY JobTyped DEF InternAt, MakeEntry, JobOK, InternTypeOK
<1>2. store[INTERN_LIST].car \in Slot /\ entry \in Cell
  BY <1>0, <1>1, HeadOfList, CellCases DEF InternAt
<1>3. CASE Full(entry) /\ Fail
  <2>1. UNCHANGED store
    BY <1>3, FullStep
  <2> QED BY <1>1, <1>3, <2>1, EndsKept DEF Typed, Allocated
<1>4. ASSUME NEW i \in Slot, Fresh(entry, i),
             job' = [Goto("publish") EXCEPT !.entry = i], UNCHANGED known
      PROVE  InternAt(T, M)'
  <2>1. /\ i \in Slot \ Allocated /\ Allocated' = Allocated \cup {i} /\ store'[i] = entry
        /\ \A j \in Allocated : j \in Allocated' /\ store'[j] = store[j]
        /\ Typed'
    BY <1>1, <1>2, <1>4, AllocStep
  <2>2. /\ job' \in Job /\ job'.at = "publish" /\ job'.entry = i
        /\ job'.name = job.name /\ job'.chain = job.chain /\ job'.sym = job.sym
    BY <1>1, <1>4 DEF Goto, Job
  <2>3. Chained(M)'
    BY <1>1, <2>1, <2>2, ChainedKept
  <2>8. i \notin M
    BY <2>1 DEF InternAt, Table
  <2>4. SymbolOK(M)'
    BY <1>1, <2>1, <2>2 DEF SymbolOK
  <2>5. New(T)'
    BY <1>1, <2>2 DEF New
  <2>6. EntryOK(M)'
    <3>1. INTERN_LIST \in Allocated /\ NIL \in Allocated
      BY <1>1 DEF Fixed
    <3> QED BY <1>0, <2>1, <2>2, <2>8, <3>1 DEF EntryOK
  <2>7. JobOK(T, M)'
    BY <1>1, <2>2, <2>3, <2>4, <2>5, <2>6 DEF JobOK
  <2> QED BY <1>1, <1>4, <2>1, <2>2, <2>7, StepsKept
<1> QED BY <1>0, <1>3, <1>4 DEF MakeEntry

LEMMA TurnCellInv ==
  ASSUME NEW T \in Seq(Row), NEW M \in SUBSET Slot, InternAt(T, M), TurnCell
  PROVE  InternAt(T, M)'
<1>0. PICK n, rest, head : /\ n = Len(job.name) /\ rest = store[job.chain].cdr
                           /\ head = store[INTERN_LIST].car
  OBVIOUS
<1>1. /\ Typed /\ Fixed /\ Table(T, M) /\ job.at = "reverse" /\ job.name \in Names
      /\ ReverseOK(M) /\ job \in Job /\ UNCHANGED <<held, known>> /\ n \in Nat \ {0}
      /\ job.prev \in Slot /\ job.via = "chain"
  BY <1>0, JobTyped, NameTyped DEF InternAt, TurnCell, JobOK, InternTypeOK, ReverseOK
<1>2. PICK w \in [1 .. n -> Slot], u \in 1 .. n :
        /\ Apart(w, 1 .. n, M)
        /\ \A k \in 1 .. u : Made(w, k)
        /\ \A k \in u+1 .. n : Turned(w, k)
        /\ job.chain = w[u]
        /\ job.prev = IF u = n THEN NIL ELSE w[u+1]
  BY <1>0, <1>1 DEF ReverseOK, Cells
<1>3. PICK before : before = IF u = 1 THEN NIL ELSE w[u-1]
  OBVIOUS
<1>4. /\ \A k \in 1 .. n : w[k] \in Allocated \ M
      /\ \A j, k \in 1 .. n : w[j] = w[k] => j = k
  BY <1>2 DEF Apart
<1>5. \A k \in 1 .. n : w[k] # NIL /\ w[k] # INTERN_LIST
  <2> SUFFICES ASSUME NEW k \in 1 .. n PROVE w[k] # NIL /\ w[k] # INTERN_LIST
    OBVIOUS
  <2>1. k \in 1 .. u \/ k \in u+1 .. n
    BY <1>1
  <2>2. \E c, i : store[w[k]] = CharPair(c, i)
    BY <1>2, <2>1 DEF Made, Turned
  <2> QED BY <1>1, <2>2, KindsDiffer DEF Fixed, Table
<1>6. /\ store[job.chain] = CharPair(job.name[u], before) /\ rest = before
      /\ job.chain \in Allocated /\ job.chain \in Slot
  BY <1>0, <1>1, <1>2, <1>3, <1>4, KindsDiffer DEF Made, Typed
<1>7. [store[job.chain] EXCEPT !.cdr = job.prev] = CharPair(job.name[u], job.prev)
  BY <1>6 DEF CharPair
<1>8. CharPair(job.name[u], job.prev) \in Cell
  BY <1>0, <1>1, <1>2, NameTyped, CellCases
<1>9. /\ Allocated' = Allocated /\ store'[w[u]] = CharPair(job.name[u], job.prev)
      /\ \A j \in Allocated \ {w[u]} : store'[j] = store[j]
      /\ Typed'
  BY <1>1, <1>2, <1>6, <1>7, <1>8, SetStep DEF TurnCell
<1>10. Fixed' /\ Table(T, M)'
  <2>1. \A j \in M \cup {INTERN_LIST} : j \in Allocated' /\ store'[j] = store[j]
    <3>1. M \subseteq Allocated
      BY <1>1 DEF Table
    <3> QED BY <1>1, <1>4, <1>5, <1>9, <3>1 DEF Fixed
  <2>2. Table(T, M)'
    BY <1>1, <2>1, TableKept
  <2> QED BY <1>1, <1>5, <1>9, <2>2 DEF Fixed
<1>11. \A k \in u .. n : store'[w[k]] = CharPair(job.name[k], IF k = n THEN NIL ELSE w[k+1])
  <2> SUFFICES ASSUME NEW k \in u .. n
               PROVE  store'[w[k]] = CharPair(job.name[k], IF k = n THEN NIL ELSE w[k+1])
    OBVIOUS
  <2>1. CASE k = u
    BY <1>2, <1>9, <2>1
  <2>2. CASE k # u
    <3>1. k \in u+1 .. n /\ k \in 1 .. n
      BY <1>1, <2>2
    <3>2. store'[w[k]] = store[w[k]]
      BY <1>4, <1>9, <2>2, <3>1
    <3> QED BY <1>0, <1>2, <3>1, <3>2 DEF Turned
  <2> QED BY <2>1, <2>2
<1>12. KnownOK(T)'
  BY <1>1 DEF InternAt, KnownOK
<1>15. HeldOK'
  <2>1. \A j \in held : j \in Allocated /\ store[j] = Cons(NIL, NIL)
    BY DEF InternAt, HeldOK
  <2>2. w[u] \notin held
    BY <1>2, <1>6, <2>1, KindsDiffer
  <2> QED BY <1>1, <1>9, <2>1, <2>2 DEF HeldOK
<1>13. CASE rest = NIL
  <2>1. u = 1
    <3>1. u # 1 => u - 1 \in 1 .. n
      BY <1>1
    <3> QED BY <1>3, <1>5, <1>6, <1>13, <3>1
  <2>2. /\ head \in Slot /\ head = IF Len(T) = 0 THEN NIL ELSE T[Len(T)].entry
    BY <1>0, <1>1, HeadOfList
  <2>3. job' = [Goto("walk") EXCEPT !.cur = head]
    BY <1>0, <1>13 DEF TurnCell
  <2>4. /\ job' \in Job /\ job'.at = "walk" /\ job'.cur = head /\ job'.name = job.name
        /\ job'.chain = job.chain /\ job'.via = "chain"
    BY <1>1, <2>2, <2>3 DEF Goto, Job
  <2>5. Chained(M)'
    <3>1. w \in Cells' /\ Apart(w, 1 .. n, M)' /\ Len(job'.name) = n
      BY <1>0, <1>2, <1>4, <1>9, <2>4 DEF Cells, Apart
    <3>2. Along(job.chain, job.name, w)'
      BY <1>0, <1>2, <1>11, <2>1, <2>4 DEF Along
    <3> QED BY <3>1, <3>2 DEF Chained
  <2>6. WalkOK(T, M)'
    <3>1. Len(T) \in 0 .. Len(T) /\ Len(T)+1 .. Len(T) = {}
      BY LenProperties
    <3> QED BY <2>2, <2>4, <2>5, <3>1 DEF WalkOK
  <2>7. JobOK(T, M)'
    BY <1>1, <2>4, <2>6 DEF JobOK
  <2>8. InternTypeOK'
    BY <1>1, <1>9, <2>4, TypeKept DEF InternAt, InternTypeOK
  <2> QED BY <1>10, <1>12, <1>15, <2>7, <2>8 DEF InternAt
<1>14. CASE rest # NIL
  <2>1. u - 1 \in 1 .. n /\ u # 1 /\ rest = w[u-1]
    BY <1>1, <1>3, <1>6, <1>14
  <2>2. job' = [job EXCEPT !.chain = rest, !.prev = job.chain]
    BY <1>0, <1>14 DEF TurnCell
  <2>3. /\ job' \in Job /\ job'.at = "reverse" /\ job'.chain = w[u-1] /\ job'.prev = w[u]
        /\ job'.name = job.name /\ job'.via = "chain"
    BY <1>1, <1>2, <2>1, <2>2 DEF Job
  <2>4. \A k \in 1 .. u-1 : Made(w, k)'
    <3> SUFFICES ASSUME NEW k \in 1 .. u-1 PROVE Made(w, k)'
      OBVIOUS
    <3>1. k \in 1 .. u /\ k # u /\ k \in 1 .. n
      BY <1>1
    <3>2. store'[w[k]] = store[w[k]]
      BY <1>4, <1>9, <3>1
    <3> QED BY <1>2, <2>3, <3>1, <3>2 DEF Made
  <2>5. \A k \in (u-1)+1 .. n : Turned(w, k)'
    <3>1. (u-1)+1 = u
      BY <1>1
    <3> QED BY <1>0, <1>11, <2>3, <3>1 DEF Turned
  <2>6. Apart(w, 1 .. n, M)'
    BY <1>4, <1>9 DEF Apart
  <2>7. ReverseOK(M)'
    <3>1. w \in Cells' /\ Len(job'.name) = n
      BY <1>0, <2>3 DEF Cells
    <3>2. u - 1 # n /\ (u - 1) + 1 = u
      BY <1>1, <2>1
    <3> QED BY <2>1, <2>3, <2>4, <2>5, <2>6, <3>1, <3>2 DEF ReverseOK
  <2>8. JobOK(T, M)'
    BY <1>1, <2>3, <2>7 DEF JobOK
  <2>9. InternTypeOK'
    BY <1>1, <1>9, <2>3, TypeKept DEF InternAt, InternTypeOK
  <2> QED BY <1>10, <1>12, <1>15, <2>8, <2>9 DEF InternAt
<1> QED BY <1>13, <1>14

\* The cells of a new row.
Consists(P, n, p, a, b) ==
  /\ p \in [1 .. n -> P] /\ P = {p[k] : k \in 1 .. n} \cup {a, b}
  /\ a # b /\ \A k \in 1 .. n : p[k] # a /\ p[k] # b
  /\ \A j, k \in 1 .. n : p[j] = p[k] => j = k

LEMMA ManyCells ==
  ASSUME NEW P, NEW n \in Nat, NEW p, NEW a, NEW b, Consists(P, n, p, a, b)
  PROVE  IsFiniteSet(P) /\ Cardinality(P) = 2 + n
<1> USE DEF Consists
<1> DEFINE A == {p[k] : k \in 1 .. n}
<1>0. /\ p \in [1 .. n -> A] /\ \A x \in A : \E k \in 1 .. n : p[k] = x
      /\ P = (A \cup {a}) \cup {b}
  OBVIOUS
<1>2. IsFiniteSet(1 .. n) /\ Cardinality(1 .. n) = n
  <2>1. \A i \in Nat : 1 \in Int /\ i \in Int /\ (IF 1 > i THEN 0 ELSE i - 1 + 1) = i
    OBVIOUS
  <2>2. IsFiniteSet(1 .. n) /\ Cardinality(1 .. n) = IF 1 > n THEN 0 ELSE n - 1 + 1
    BY <2>1, FS_Interval
  <2> QED BY <2>1, <2>2
<1>4. a \notin A /\ b \notin A \cup {a}
  OBVIOUS
<1> HIDE DEF A
<1>1. p \in Injection(1 .. n, A) /\ p \in Surjection(1 .. n, A)
  BY <1>0 DEF Injection, IsInjective, Surjection
<1>3. IsFiniteSet(A) /\ Cardinality(A) = n
  BY <1>1, <1>2, FS_Surjection
<1>5. IsFiniteSet(A \cup {a}) /\ Cardinality(A \cup {a}) = n + 1
  BY <1>3, <1>4, FS_AddElement
<1>6. IsFiniteSet((A \cup {a}) \cup {b}) /\ Cardinality((A \cup {a}) \cup {b}) = (n + 1) + 1
  BY <1>4, <1>5, FS_AddElement
<1>7. (n + 1) + 1 = 2 + n
  OBVIOUS
<1> QED BY <1>0, <1>6, <1>7

\* The new row, and the cells it consists of.
LEMMA PublishInv ==
  ASSUME NEW T \in Seq(Row), NEW M \in SUBSET Slot, InternAt(T, M), Publish
  PROVE  InternInv'
<1>0. PICK n, s : n = Len(T) /\ s = job.name
  OBVIOUS
<1>1. /\ Typed /\ Fixed /\ Table(T, M) /\ job.at = "publish" /\ s \in Names /\ New(T)
      /\ Chained(M) /\ job.chain \in Slot /\ job \in Job /\ UNCHANGED held
      /\ SymbolOK(M) /\ job.sym \in Slot /\ EntryOK(M) /\ job.entry \in Slot /\ n \in Nat
  BY <1>0, JobTyped, LenProperties DEF InternAt, Publish, JobOK, InternTypeOK
<1>2. PICK p \in [1 .. Len(s) -> Slot] : Along(job.chain, s, p) /\ Apart(p, 1 .. Len(s), M)
  BY <1>0, <1>1 DEF Chained, Cells
<1>3. PICK P : P = {p[k] : k \in 1 .. Len(s)} \cup {job.sym, job.entry}
  OBVIOUS
<1>4. P \subseteq Allocated \ {NIL, INTERN_LIST}
  <2>1. ASSUME NEW k \in 1 .. Len(s) PROVE p[k] \in Allocated \ {NIL, INTERN_LIST}
    <3>1. \E c, i : store[p[k]] = CharPair(c, i)
      BY <1>2 DEF Along
    <3> QED BY <1>1, <1>2, <3>1, KindsDiffer DEF Fixed, Table, Apart
  <2>2. job.sym \in Allocated \ {NIL, INTERN_LIST}
    BY <1>1, KindsDiffer DEF SymbolOK, Fixed, Table
  <2> QED BY <1>1, <1>3, <2>1, <2>2 DEF EntryOK
<1>19. PICK row : row = [entry |-> job.entry, sym |-> job.sym, chars |-> job.chain,
                         name |-> s, cells |-> P]
  OBVIOUS
<1>5. PICK U, Q : U = Append(T, row) /\ Q = M \cup P
  OBVIOUS
<1>6. /\ U \in Seq(Row) /\ Len(U) = n + 1 /\ U[n+1] = row
      /\ \A k \in 1 .. n : U[k] = T[k]
  <2>1. row \in Row
    BY <1>1, <1>4, <1>19 DEF Row, Typed
  <2> QED BY <1>0, <1>5, <2>1, AppendProperties
<1>7. Q \in SUBSET Slot /\ Q \subseteq Allocated \ {NIL, INTERN_LIST}
  BY <1>1, <1>4, <1>5 DEF Table, Typed
<1>8. /\ store[INTERN_LIST].car = IF n = 0 THEN NIL ELSE T[n].entry
      /\ store[INTERN_LIST].cdr = NIL
  BY <1>0, <1>1, HeadOfList
<1>9. /\ Allocated' = Allocated /\ store'[INTERN_LIST] = Cons(job.entry, NIL) /\ Typed'
      /\ \A j \in Allocated \ {INTERN_LIST} : store'[j] = store[j]
  <2>1. INTERN_LIST \in Allocated /\ Cons(job.entry, NIL) \in Cell
    BY <1>1, CellCases DEF Fixed
  <2>2. Heap!Set(INTERN_LIST, Cons(job.entry, NIL))
    BY <1>8 DEF Publish
  <2> QED BY <1>1, <2>1, <2>2, SetStep
<1>10. \A j \in Q : store'[j] = store[j]
  BY <1>7, <1>9
<1>11. ASSUME NEW k \in 1 .. n + 1
       PROVE  /\ U[k].entry \in Q /\ U[k].sym \in Q
              /\ store'[U[k].entry] = Cons(U[k].sym, IF k = 1 THEN NIL ELSE U[k-1].entry)
              /\ store'[U[k].sym] = Symbol(U[k].chars)
              /\ SpeltIn(Q, U[k].chars, U[k].name)'
  <2>1. CASE k = n + 1
    <3>1. /\ U[k].entry = job.entry /\ U[k].sym = job.sym /\ U[k].chars = job.chain
          /\ U[k].name = s
      BY <1>6, <1>19, <2>1
    <3>2. job.entry \in Q /\ job.sym \in Q /\ p \in [1 .. Len(s) -> Q]
      BY <1>2, <1>3, <1>5
    <3>3. (IF k = 1 THEN NIL ELSE U[k-1].entry) = store[INTERN_LIST].car
      <4>1. k = 1 <=> n = 0
        BY <1>1, <2>1
      <4>2. k # 1 => k - 1 = n /\ n \in 1 .. n
        BY <1>1, <2>1
      <4> QED BY <1>6, <1>8, <4>1, <4>2
    <3>4. /\ store'[job.entry] = Cons(job.sym, store[INTERN_LIST].car)
          /\ store'[job.sym] = Symbol(job.chain)
      BY <1>1, <1>10, <3>2 DEF SymbolOK, EntryOK
    <3>5. Along(U[k].chars, s, p)'
      <4>1. Along(U[k].chars, s, p)
        BY <1>2, <3>1
      <4>2. \A j \in 1 .. Len(s) : store'[p[j]] = store[p[j]]
        BY <1>10, <3>2
      <4> QED BY <4>1, <4>2 DEF Along
    <3>6. SpeltIn(Q, U[k].chars, U[k].name)'
      BY <3>1, <3>2, <3>5 DEF SpeltIn
    <3> QED BY <3>1, <3>2, <3>3, <3>4, <3>6
  <2>2. CASE k # n + 1
    <3>1. k \in 1 .. n /\ U[k] = T[k] /\ (k # 1 => U[k-1] = T[k-1])
      <4>1. k \in 1 .. n
        BY <1>1, <2>2
      <4>2. k # 1 => k - 1 \in 1 .. n
        BY <1>1, <4>1
      <4> QED BY <1>6, <4>1, <4>2
    <3>2. /\ T[k].entry \in M /\ T[k].sym \in M
          /\ store[T[k].entry] = Cons(T[k].sym, IF k = 1 THEN NIL ELSE T[k-1].entry)
          /\ store[T[k].sym] = Symbol(T[k].chars)
          /\ SpeltIn(M, T[k].chars, T[k].name)
      BY <1>0, <1>1, <3>1 DEF Table
    <3>3. SpeltIn(Q, T[k].chars, T[k].name)
      BY <1>5, <3>2 DEF SpeltIn
    <3>4. SpeltIn(Q, T[k].chars, T[k].name)'
      BY <1>10, <3>3, SpeltInKept
    <3> QED BY <1>5, <1>10, <3>1, <3>2, <3>4
  <2> QED BY <2>1, <2>2
<1>12. \A j, k \in 1 .. n + 1 : U[j].name = U[k].name => j = k
  <2>1. \A j \in 1 .. n : U[j].name # s
    BY <1>0, <1>1, <1>6 DEF New
  <2>2. U[n+1].name = s
    BY <1>6, <1>19
  <2>3. \A j, k \in 1 .. n : U[j].name = U[k].name => j = k
    BY <1>0, <1>1, <1>6 DEF Table
  <2>4. \A j \in 1 .. n + 1 : j \in 1 .. n \/ j = n + 1
    BY <1>1
  <2> QED BY <2>1, <2>2, <2>3, <2>4
<1>20. Layout(U, Q)'
  <2>1. /\ row.entry = job.entry /\ row.sym = job.sym /\ row.chars = job.chain
        /\ row.name = s /\ row.cells = P
    BY <1>19
  <2>2. Len(s) \in Nat
    BY <1>1, NameTyped
  <2>3. P \cap M = {}
    <3>1. \A k \in 1 .. Len(s) : p[k] \notin M
      BY <1>2 DEF Apart
    <3> QED BY <1>1, <1>3, <3>1 DEF SymbolOK, EntryOK
  <2>4. IsFiniteSet(P) /\ Cardinality(P) = 2 + Len(s)
    <3>1. \A k \in 1 .. Len(s) : \E c, i : store[p[k]] = CharPair(c, i)
      BY <1>2 DEF Along
    <3>2. \A k \in 1 .. Len(s) : p[k] # job.sym /\ p[k] # job.entry
      BY <1>1, <3>1, KindsDiffer DEF SymbolOK, EntryOK
    <3>3. job.sym # job.entry
      BY <1>1, KindsDiffer DEF SymbolOK, EntryOK
    <3>4. \A j, k \in 1 .. Len(s) : p[j] = p[k] => j = k
      BY <1>2 DEF Apart
    <3>5. p \in [1 .. Len(s) -> P] /\ P = {p[k] : k \in 1 .. Len(s)} \cup {job.sym, job.entry}
      BY <1>2, <1>3
    <3>6. Consists(P, Len(s), p, job.sym, job.entry)
      BY <3>2, <3>3, <3>4, <3>5 DEF Consists
    <3> QED BY <2>2, <3>6, ManyCells
  <2>5. Owns(row)'
    <3>1. \A k \in 1 .. Len(s) : p[k] \in P /\ store'[p[k]] = store[p[k]]
      BY <1>3, <1>5, <1>10
    <3>2. p \in [1 .. Len(s) -> P] /\ Along(row.chars, s, p)'
      BY <1>2, <2>1, <3>1 DEF Along
    <3>3. P = {job.entry, job.sym} \cup {p[k] : k \in 1 .. Len(s)}
      BY <1>3
    <3>4. P = {row.entry, row.sym} \cup {p[k] : k \in 1 .. Len(s)}
      BY <2>1, <3>3
    <3>5. p \in [1 .. Len(row.name) -> row.cells] /\ Along(row.chars, row.name, p)'
      BY <2>1, <3>2
    <3>6. row.cells = {row.entry, row.sym} \cup {p[k] : k \in 1 .. Len(row.name)}
      BY <2>1, <3>4
    <3>7. IsFiniteSet(row.cells) /\ Cardinality(row.cells) = 2 + Len(row.name)
      BY <2>1, <2>4
    <3> QED BY <3>5, <3>6, <3>7 DEF Owns
  <2>6. /\ M = UNION {T[k].cells : k \in 1 .. n} /\ \A k \in 1 .. n : Owns(T[k])
        /\ \A j, k \in 1 .. n : j # k => T[j].cells \cap T[k].cells = {}
    BY <1>0, <1>1 DEF Table, Layout
  <2>7. ASSUME NEW k \in 1 .. n + 1 PROVE Owns(U[k])'
    <3>1. CASE k = n + 1
      BY <1>6, <2>5, <3>1
    <3>2. CASE k # n + 1
      <4>1. k \in 1 .. n /\ U[k] = T[k]
        BY <1>1, <1>6, <3>2
      <4>2. Owns(T[k]) /\ \A j \in T[k].cells : store'[j] = store[j]
        BY <1>5, <1>10, <2>6, <4>1
      <4> QED BY <4>1, <4>2, OwnsKept
    <3> QED BY <3>1, <3>2
  <2>8. \A j \in 1 .. n + 1 : j \in 1 .. n \/ j = n + 1
    BY <1>1
  <2>9. \A k \in 1 .. n : k \in 1 .. n + 1 /\ U[k].cells = T[k].cells /\ T[k].cells \subseteq M
    BY <1>1, <1>6, <2>6
  <2>10. n + 1 \in 1 .. n + 1 /\ U[n+1].cells = P
    BY <1>1, <1>6, <2>1
  <2>11. Q = UNION {U[k].cells : k \in 1 .. n + 1}
    <3>1. ASSUME NEW x \in Q PROVE \E k \in 1 .. n + 1 : x \in U[k].cells
      <4>1. CASE x \in P
        BY <2>10, <4>1
      <4>2. CASE x \in M
        <5>1. PICK k \in 1 .. n : x \in T[k].cells
          BY <2>6, <4>2
        <5>2. k \in 1 .. n + 1 /\ U[k].cells = T[k].cells
          BY <2>9
        <5> QED BY <5>1, <5>2
      <4> QED BY <1>5, <3>1, <4>1, <4>2
    <3>2. ASSUME NEW k \in 1 .. n + 1 PROVE U[k].cells \subseteq Q
      BY <1>5, <2>8, <2>9, <2>10
    <3> QED BY <3>1, <3>2
  <2>12. \A j, k \in 1 .. n + 1 : j # k => U[j].cells \cap U[k].cells = {}
    BY <2>3, <2>6, <2>8, <2>9, <2>10
  <2> QED BY <1>6, <2>7, <2>11, <2>12 DEF Layout
<1>13. Table(U, Q)'
  <2>1. store'[INTERN_LIST] = Cons(IF U = << >> THEN NIL ELSE U[Len(U)].entry, NIL)
    <3>1. U # << >>
      BY <1>1, <1>6, EmptySeq
    <3>2. U[Len(U)].entry = job.entry
      BY <1>6, <1>19
    <3> QED BY <1>9, <3>1, <3>2
  <2>2. Q \subseteq Allocated' \ {NIL, INTERN_LIST}
    BY <1>7, <1>9
  <2> QED BY <1>6, <1>11, <1>12, <1>20, <2>1, <2>2 DEF Table
<1>14. /\ job' = IdleJob /\ job'.at = "idle"
       /\ known' = [known EXCEPT ![s] = @ \cup {job.sym}] /\ known \in [Names -> SUBSET Slot]
  BY <1>0 DEF Publish, Answer, IdleJob, InternAt, InternTypeOK
<1>15. KnownOK(U)'
  <2>1. ASSUME NEW t \in Names, NEW i \in known'[t]
        PROVE  \E k \in 1 .. n + 1 : U[k].sym = i /\ U[k].name = t
    <3>1. CASE i \in known[t]
      <4>1. PICK k \in 1 .. n : T[k].sym = i /\ T[k].name = t
        BY <1>0, <3>1 DEF InternAt, KnownOK
      <4>2. k \in 1 .. n + 1
        BY <1>1
      <4> QED BY <1>6, <4>1, <4>2
    <3>2. CASE i \notin known[t]
      <4>1. t = s /\ i = job.sym
        BY <1>1, <1>14, <2>1, <3>2
      <4>2. n + 1 \in 1 .. n + 1 /\ U[n+1].sym = job.sym /\ U[n+1].name = s
        BY <1>1, <1>6, <1>19
      <4> QED BY <4>1, <4>2
    <3> QED BY <3>1, <3>2
  <2> QED BY <1>6, <2>1 DEF KnownOK
<1>16. InternTypeOK'
  <2>1. known' \in [Names -> SUBSET Slot]
    BY <1>1, <1>14
  <2> QED BY <1>1, <1>9, <1>14, <2>1, IdleTyped, TypeKept DEF InternAt
<1>17. JobOK(U, Q)'
  BY <1>14 DEF JobOK
<1>18. Fixed'
  <2>1. NIL \in Allocated \ {INTERN_LIST} /\ INTERN_LIST \in Allocated
    BY <1>1, CellCases DEF Fixed
  <2> QED BY <1>1, <1>9, <2>1 DEF Fixed
<1>21. HeldOK'
  BY <1>1, <1>9, HeldKept DEF InternAt, HeldOK, InternTypeOK
<1> QED BY <1>6, <1>7, <1>13, <1>15, <1>16, <1>17, <1>18, <1>21 DEF InternInv

LEMMA ElsewhereInv ==
  ASSUME NEW T \in Seq(Row), NEW M \in SUBSET Slot, InternAt(T, M), Elsewhere
  PROVE  InternAt(T, M)'
<1>1. /\ Typed /\ Fixed /\ job.at = "idle" /\ UNCHANGED <<job, known>> /\ Cons(NIL, NIL) \in Cell
      /\ job \in Job /\ held \in SUBSET (Slot \ {NIL, INTERN_LIST})
      /\ known \in [Names -> SUBSET Slot]
  BY JobTyped, CellCases DEF InternAt, Elsewhere, InternTypeOK
<1>2. /\ Typed' /\ \A j \in Allocated : j \in Allocated' /\ store'[j] = store[j]
      /\ held' \in SUBSET (Slot \ {NIL, INTERN_LIST}) /\ HeldOK'
  <2>1. CASE \E i \in Slot : Fresh(Cons(NIL, NIL), i) /\ held' = held \cup {i}
    <3>1. PICK i \in Slot : Fresh(Cons(NIL, NIL), i) /\ held' = held \cup {i}
      BY <2>1
    <3>2. i \notin Allocated /\ Typed' /\ i \in Allocated' /\ store'[i] = Cons(NIL, NIL) /\ \A j \in Allocated : j \in Allocated' /\ store'[j] = store[j]
      BY <1>1, <3>1, AllocStep
    <3>3. HeldOK'
      BY <3>1, <3>2 DEF InternAt, HeldOK
    <3> QED BY <1>1, <3>1, <3>2, <3>3 DEF Fixed
  <2>2. CASE Full(Cons(NIL, NIL)) /\ UNCHANGED held
    <3>1. UNCHANGED store
      BY <2>2, FullStep
    <3>2. HeldOK'
      BY <2>2, <3>1 DEF InternAt, HeldOK, Allocated
    <3> QED BY <1>1, <2>2, <3>1, <3>2 DEF Typed, Allocated
  <2> QED BY <2>1, <2>2 DEF Elsewhere
<1>3. Fixed' /\ Table(T, M)'
  BY <1>2, TableGrows DEF InternAt
<1>4. KnownOK(T)'
  BY <1>1 DEF InternAt, KnownOK
<1>5. JobOK(T, M)'
  BY <1>1 DEF JobOK
<1>6. InternTypeOK'
  BY <1>1, <1>2 DEF InternTypeOK, Typed
<1> QED BY <1>2, <1>3, <1>4, <1>5, <1>6 DEF InternAt

LEMMA LetGoInv ==
  ASSUME NEW T \in Seq(Row), NEW M \in SUBSET Slot, InternAt(T, M), LetGo
  PROVE  InternAt(T, M)'
<1>1. Typed /\ UNCHANGED <<store, job, known>> /\ job.at = "idle"
  BY JobTyped DEF InternAt, LetGo
<1>2. Fixed' /\ Table(T, M)'
  BY <1>1, TableGrows DEF InternAt, Allocated
<1>3. KnownOK(T)'
  BY <1>1 DEF InternAt, KnownOK
<1>4. JobOK(T, M)'
  BY <1>1 DEF JobOK
<1>5. InternTypeOK'
  <2>1. held' \in SUBSET (Slot \ {NIL, INTERN_LIST})
    BY DEF InternAt, InternTypeOK, LetGo
  <2>2. Allocated' = Allocated
    BY <1>1 DEF Allocated
  <2> QED BY <1>1, <2>1, <2>2 DEF InternAt, InternTypeOK
<1>6. HeldOK'
  <2>1. held' \subseteq held
    BY DEF LetGo
  <2> QED BY <1>1, <2>1 DEF InternAt, HeldOK, Allocated
<1> QED BY <1>2, <1>3, <1>4, <1>5, <1>6 DEF InternAt

\* What the cells of the table lead to are cells of the table, or NIL.
LEMMA TableCloses ==
  ASSUME Typed, Fixed, NEW T \in Seq(Row), NEW M, Table(T, M), NEW X, M \subseteq X, NIL \in X,
         NEW i \in M
  PROVE  \A k \in DOMAIN Links[store[i]] : Links[store[i]][k] \in X
<1>0. M = UNION {T[k].cells : k \in 1 .. Len(T)} /\ M \subseteq Slot
  BY DEF Table, Layout, Typed
<1>1. PICK r \in 1 .. Len(T) : i \in T[r].cells
  BY <1>0
<1>2. PICK p \in [1 .. Len(T[r].name) -> T[r].cells] :
        /\ Along(T[r].chars, T[r].name, p)
        /\ T[r].cells = {T[r].entry, T[r].sym} \cup {p[j] : j \in 1 .. Len(T[r].name)}
  BY DEF Table, Layout, Owns
<1> DEFINE n == Len(T[r].name)
<1>3. n \in Nat \ {0} /\ T[r].name \in Names /\ T[r].chars \in Slot /\ Len(T) \in Nat
      /\ \A j \in 1 .. n : T[r].name[j] \in Char
  BY RowType, NameTyped, LenProperties
<1>4. T[r].cells \subseteq M
  BY <1>0
<1>5. CASE i = T[r].entry
  <2>1. PICK e : /\ e = (IF r = 1 THEN NIL ELSE T[r-1].entry)
                 /\ store[i] = Cons(T[r].sym, e) /\ T[r].sym \in M
    BY <1>5 DEF Table
  <2>2. e \in X /\ e \in Slot
    <3>1. CASE r = 1
      BY <2>1, <3>1, CellCases
    <3>2. CASE r # 1
      <4>1. r - 1 \in 1 .. Len(T)
        BY <1>3, <3>2
      <4>2. T[r-1].entry \in M
        BY <4>1 DEF Table
      <4> QED BY <1>0, <2>1, <3>2, <4>2
    <3> QED BY <3>1, <3>2
  <2>3. Links[store[i]] = <<T[r].sym, e>>
    <3>1. T[r].sym \in Slot /\ store[i] = Cons(T[r].sym, e)
      BY <1>0, <2>1
    <3>2. Links[Cons(T[r].sym, e)] = <<T[r].sym, e>>
      BY <2>2, <3>1, LinksOfCells, Zenon
    <3> QED BY <3>1, <3>2
  <2> QED BY <2>1, <2>2, <2>3
<1>6. CASE i = T[r].sym
  <2>1. store[i] = Symbol(T[r].chars)
    BY <1>6 DEF Table
  <2>2. T[r].chars \in M
    <3>1. p[1] = T[r].chars /\ 1 \in 1 .. n
      BY <1>2, <1>3 DEF Along
    <3> QED BY <1>2, <1>4, <3>1
  <2>3. Links[store[i]] = <<T[r].chars>>
    BY <1>3, <2>1, LinksOfCells
  <2> QED BY <2>2, <2>3
<1>7. ASSUME NEW j \in 1 .. n, i = p[j]
      PROVE  \A k \in DOMAIN Links[store[i]] : Links[store[i]][k] \in X
  <2>1. store[i] = CharPair(T[r].name[j], IF j = n THEN NIL ELSE p[j+1])
    BY <1>2, <1>7 DEF Along
  <2>2. CASE j = n
    BY <1>3, <2>1, <2>2, LinksOfCells
  <2>3. CASE j # n
    <3>1. j + 1 \in 1 .. n
      BY <1>3, <2>3
    <3>2. p[j+1] \in M /\ p[j+1] # NIL
      BY <1>2, <1>4, <3>1 DEF Table
    <3>3. Links[store[i]] = <<p[j+1]>>
      BY <1>0, <1>3, <2>1, <2>3, <3>2, LinksOfCells
    <3> QED BY <3>2, <3>3
  <2> QED BY <2>2, <2>3
<1> QED BY <1>1, <1>2, <1>5, <1>6, <1>7

\* A collection keeps the fixed slots, the program's own cells and those of the
\* table: it leads to all of them, and nowhere else.
LEMMA CollectInv ==
  ASSUME NEW T \in Seq(Row), NEW M \in SUBSET Slot, InternAt(T, M), Collect
  PROVE  InternAt(T, M)' /\ Allocated' = {NIL, INTERN_LIST} \cup held \cup M
<1>1. /\ Typed /\ Fixed /\ HeldOK /\ Table(T, M) /\ job.at = "idle" /\ UNCHANGED <<held, job, known>>
  BY JobTyped DEF InternAt, Collect
<1>2. PICK R : R = {NIL, INTERN_LIST} \cup held
  OBVIOUS
<1>3. Heap!Collect(R) /\ R \in SUBSET Allocated
  BY <1>1, <1>2 DEF Collect, Fixed, HeldOK
<1>4. PICK S \in SUBSET Slot :
        /\ R \subseteq S
        /\ \A i \in S \cap Allocated : \A k \in DOMAIN Links[store[i]] :
             Links[store[i]][k] \in Allocated => Links[store[i]][k] \in S
        /\ store' = [i \in Allocated \cap S |-> store[i]]
        /\ \A X \in SUBSET Slot :
             /\ R \subseteq X
             /\ \A i \in X \cap Allocated : \A k \in DOMAIN Links[store[i]] : Links[store[i]][k] \in X
             => S \subseteq X
  BY <1>1, <1>3, CollectStep
<1>5. {NIL, INTERN_LIST} \subseteq S \cap Allocated
  BY <1>1, <1>2, <1>4 DEF Fixed
<1>6. Allocated' = Allocated \cap S /\ \A j \in Allocated \cap S : store'[j] = store[j]
  BY <1>4 DEF Allocated
<1>7. Typed'
  BY <1>1, <1>4, <1>6 DEF Typed
<1>8. M \subseteq S
  BY <1>1, <1>4, <1>5, TableReachable
<1>10. \A j \in M \cup {INTERN_LIST} : j \in Allocated' /\ store'[j] = store[j]
  BY <1>1, <1>5, <1>6, <1>8 DEF Table
<1>11. Table(T, M)'
  BY <1>1, <1>10, TableKept
<1>12. Fixed'
  BY <1>1, <1>5, <1>6 DEF Fixed
<1>13. KnownOK(T)'
  BY <1>1 DEF InternAt, KnownOK
<1>14. JobOK(T, M)'
  BY <1>1 DEF JobOK
<1>15. InternTypeOK'
  BY <1>1, <1>7 DEF InternAt, InternTypeOK, Typed
<1>16. HeldOK'
  <2>1. \A j \in held : j \in Allocated' /\ store'[j] = store[j]
    BY <1>1, <1>2, <1>4, <1>6 DEF HeldOK
  <2> QED BY <1>1, <2>1, HeldKept
<1>17. S \subseteq R \cup M
  <2> DEFINE X == R \cup M
  <2>1. X \in SUBSET Slot /\ X \subseteq Allocated
    BY <1>1, <1>3 DEF Typed, Table
  <2>2. ASSUME NEW i \in X PROVE \A k \in DOMAIN Links[store[i]] : Links[store[i]][k] \in X
    <3>1. NIL \in X /\ INTERN_LIST \in X
      BY <1>2
    <3>2. CASE i \in M
      BY <1>1, <3>1, <3>2, TableCloses
    <3>3. CASE i = NIL
      BY <1>1, <3>3, LinksOfCells DEF Fixed
    <3>4. CASE i = INTERN_LIST
      <4>1. PICK j : /\ j = (IF T = << >> THEN NIL ELSE T[Len(T)].entry)
                     /\ store[INTERN_LIST] = Cons(j, NIL)
        BY <1>1 DEF Table
      <4>2. j \in X
        <5>1. CASE T = << >>
          BY <3>1, <4>1, <5>1
        <5>2. CASE T # << >>
          <6>1. Len(T) \in 1 .. Len(T)
            BY <5>2, LenProperties, EmptySeq
          <6> QED BY <1>1, <4>1, <5>2, <6>1 DEF Table
        <5> QED BY <5>1, <5>2
      <4>3. Links[store[i]] = <<j, NIL>>
        BY <2>1, <3>4, <4>1, <4>2, CellCases, LinksOfCells
      <4> HIDE DEF X
      <4> QED BY <3>1, <4>2, <4>3
    <3>5. CASE i \in held
      <4>1. Links[store[i]] = <<NIL, NIL>>
        BY <1>1, <3>5, CellCases, LinksOfCells DEF HeldOK
      <4> HIDE DEF X
      <4> QED BY <3>1, <4>1
    <3> QED BY <1>2, <3>2, <3>3, <3>4, <3>5
  <2>3. R \subseteq X
    OBVIOUS
  <2> HIDE DEF X
  <2>4. S \subseteq X
    BY <1>4, <2>1, <2>2, <2>3
  <2> QED BY <2>4 DEF X
<1>18. Allocated' = {NIL, INTERN_LIST} \cup held \cup M
  BY <1>1, <1>2, <1>3, <1>4, <1>6, <1>8, <1>17 DEF Table
<1> QED BY <1>11, <1>12, <1>13, <1>14, <1>15, <1>16, <1>18 DEF InternAt
-----------------------------------------------------------------------------
(* The invariant, and what it says.                                        *)

LEMMA InternInvInit == InternInit => InternInv
<1> SUFFICES ASSUME InternInit PROVE InternInv
  OBVIOUS
<1>1. /\ Allocated = {NIL, INTERN_LIST} /\ store[NIL] = Nil
      /\ store[INTERN_LIST] = Cons(NIL, NIL) /\ job = IdleJob /\ held = {}
      /\ known = [s \in Names |-> {}]
  BY CellCases DEF InternInit, Allocated
<1>2. Allocated \subseteq Slot /\ store \in [Allocated -> Cell]
  BY <1>1, CellCases DEF InternInit
<1>3. InternTypeOK
  <2>1. job \in Job /\ job.at = "idle"
    BY <1>1, IdleTyped DEF IdleJob
  <2> QED BY <1>1, <1>2, <2>1 DEF InternTypeOK
<1>4. Fixed
  BY <1>1 DEF Fixed
<1>5. << >> \in Seq(Row) /\ {} \in SUBSET Slot /\ Len(<< >>) = 0
  BY EmptySeq
<1>6. Table(<< >>, {})
  BY <1>1, <1>5 DEF Table, Layout
<1>7. KnownOK(<< >>)
  BY <1>1 DEF KnownOK
<1>8. JobOK(<< >>, {})
  BY <1>1, IdleOK
<1>9. HeldOK
  BY <1>1 DEF HeldOK
<1> QED BY <1>3, <1>4, <1>5, <1>6, <1>7, <1>8, <1>9 DEF InternInv

LEMMA InternInvNext == InternInv /\ [InternNext]_internVars => InternInv'
<1> SUFFICES ASSUME InternInv, [InternNext]_internVars PROVE InternInv'
  OBVIOUS
<1>1. PICK T \in Seq(Row), M \in SUBSET Slot : InternAt(T, M)
  BY DEF InternInv, InternAt
<1>2. ASSUME InternAt(T, M)' PROVE InternInv'
  BY <1>2 DEF InternAt, InternInv
<1>3. ASSUME NEW s \in Names, CallSymbol(s) PROVE InternInv'
  BY <1>1, <1>2, <1>3, CallSymbolInv
<1>4. ASSUME NEW s \in Names, MeetAtom(s) PROVE InternInv'
  BY <1>1, <1>2, <1>4, MeetAtomInv
<1>5. CASE ReadChar
  BY <1>1, <1>2, <1>5, ReadCharInv
<1>6. CASE TurnCell
  BY <1>1, <1>2, <1>6, TurnCellInv
<1>7. CASE Compare
  BY <1>1, <1>2, <1>7, CompareInv
<1>8. CASE NotFound
  BY <1>1, <1>2, <1>8, NotFoundInv
<1>9. CASE CopyChar
  BY <1>1, <1>2, <1>9, CopyCharInv
<1>10. CASE MakeSymbol
  BY <1>1, <1>2, <1>10, MakeSymbolInv
<1>11. CASE MakeEntry
  BY <1>1, <1>2, <1>11, MakeEntryInv
<1>12. CASE Publish
  BY <1>1, <1>12, PublishInv
<1>13. CASE Elsewhere
  BY <1>1, <1>2, <1>13, ElsewhereInv
<1>14. CASE LetGo
  BY <1>1, <1>2, <1>14, LetGoInv
<1>15. CASE Collect
  BY <1>1, <1>2, <1>15, CollectInv
<1>16. CASE UNCHANGED internVars
  <2>1. UNCHANGED <<store, held, job, known>>
    BY <1>16 DEF internVars
  <2>2. Typed' /\ \A j \in Allocated : j \in Allocated' /\ store'[j] = store[j]
    BY <1>1, <2>1, JobTyped DEF Typed, Allocated, InternAt
  <2>3. JobOK(T, M)'
    <3>1. ReadOK(M) => ReadOK(M)'
      BY <2>1 DEF ReadOK, Apart, Made, Cells, Allocated
    <3>2. ReverseOK(M) => ReverseOK(M)'
      <4> SUFFICES ASSUME ReverseOK(M) PROVE ReverseOK(M)'
        OBVIOUS
      <4>1. PICK w \in Cells, u \in 1 .. Len(job.name) :
              /\ Apart(w, 1 .. Len(job.name), M)
              /\ \A k \in 1 .. u : Made(w, k)
              /\ \A k \in u+1 .. Len(job.name) : Turned(w, k)
              /\ job.chain = w[u]
              /\ job.prev = IF u = Len(job.name) THEN NIL ELSE w[u+1]
        BY DEF ReverseOK
      <4>2. w \in Cells' /\ Apart(w, 1 .. Len(job.name), M)'
        BY <2>1, <4>1 DEF Cells, Apart, Allocated
      <4>3. \A k \in 1 .. u : Made(w, k)'
        BY <2>1, <4>1 DEF Made
      <4>4. \A k \in u+1 .. Len(job'.name) : Turned(w, k)'
        BY <2>1, <4>1 DEF Turned
      <4>5. job'.via = "chain"
        BY <2>1 DEF ReverseOK
      <4> QED BY <2>1, <4>1, <4>2, <4>3, <4>4, <4>5 DEF ReverseOK
    <3>3. Chained(M) => Chained(M)'
      BY <2>1, <2>2, ChainedKept
    <3>4. WalkOK(T, M) => WalkOK(T, M)'
      BY <2>1, <3>3 DEF WalkOK
    <3>5. CharsOK(M) => CharsOK(M)'
      BY <2>1 DEF CharsOK, Apart, Turned, Cells, Allocated
    <3>6. (New(T) => New(T)') /\ (SymbolOK(M) => SymbolOK(M)') /\ (EntryOK(M) => EntryOK(M)')
      BY <2>1 DEF New, SymbolOK, EntryOK, Allocated
    <3>7. JobOK(T, M)
      BY <1>1 DEF InternAt
    <3> QED BY <2>1, <3>1, <3>2, <3>3, <3>4, <3>5, <3>6, <3>7 DEF JobOK
  <2>4. job' \in Job /\ (job'.at \in {"read", "chars"} => job'.count < Len(job'.name))
    BY <1>1, <2>1 DEF InternAt, InternTypeOK
  <2> QED BY <1>1, <1>2, <2>1, <2>2, <2>3, <2>4, StepsKept
<1> QED BY <1>3, <1>4, <1>5, <1>6, <1>7, <1>8, <1>9, <1>10, <1>11, <1>12, <1>13, <1>14,
           <1>15, <1>16 DEF InternNext, CallStep

\* The list leads to the rows of the table and to nothing else.
LEMMA EntriesAre ==
  ASSUME Typed, Fixed, NEW T \in Seq(Row), NEW M, Table(T, M)
  PROVE  Entries = {T[k].entry : k \in 1 .. Len(T)}
<1>1. Len(T) \in Nat
  BY LenProperties
<1>2. PICK head, X : /\ head = store[INTERN_LIST].car
                     /\ X = {T[k].entry : k \in 1 .. Len(T)} \cup {NIL}
  OBVIOUS
<1>3. head = IF Len(T) = 0 THEN NIL ELSE T[Len(T)].entry
  BY <1>2, HeadOfList
<1>4. head \in X /\ X \in SUBSET Slot
  <2>1. Len(T) # 0 => Len(T) \in 1 .. Len(T)
    BY <1>1
  <2> QED BY <1>2, <1>3, <2>1, RowType, CellCases
<1>5. ASSUME NEW e \in X PROVE NextEntry[e] \subseteq X
  <2>1. CASE e = NIL
    <3>1. ~Kind(NIL, "Cons")
      BY KindsDiffer DEF Kind, Fixed, Nil
    <3>2. NextEntry[e] = {}
      BY <2>1, <3>1, CellCases DEF NextEntry
    <3> QED BY <3>2
  <2>2. ASSUME NEW k \in 1 .. Len(T), e = T[k].entry PROVE NextEntry[e] \subseteq X
    <3>1. store[e].cdr = IF k - 1 = 0 THEN NIL ELSE T[k-1].entry
      BY <2>2, CursorRow
    <3>2. k - 1 # 0 => k - 1 \in 1 .. Len(T)
      BY <1>1
    <3>3. store[e].cdr \in X
      BY <1>2, <3>1, <3>2
    <3>4. NextEntry[e] \subseteq {store[e].cdr}
      BY <1>4 DEF NextEntry
    <3> QED BY <3>3, <3>4
  <2> QED BY <1>2, <2>1, <2>2
<1>6. DOMAIN NextEntry = Slot
  BY DEF NextEntry
<1>7. Entries \subseteq {T[k].entry : k \in 1 .. Len(T)}
  <2>1. {head} \subseteq X /\ ClosedIn(NextEntry, X)
    BY <1>4, <1>5 DEF ClosedIn
  <2>2. Reachable(NextEntry, {head}) \subseteq X
    BY <1>4, <1>6, <2>1 DEF Reachable
  <2> QED BY <1>2, <2>2 DEF Entries
<1>8. ASSUME NEW S \in SUBSET Slot, head \in S, ClosedIn(NextEntry, S)
      PROVE  \A k \in 1 .. Len(T) : T[k].entry \in S
  <2> DEFINE Missed == {m \in Nat : m < Len(T) /\ T[Len(T) - m].entry \notin S}
  <2>1. Missed = {}
    <3> SUFFICES ASSUME NEW x \in Missed PROVE FALSE
      OBVIOUS
    <3>1. PICK m \in Missed : \A k \in Missed : ~(k < m)
      <4>1. Missed \in SUBSET Nat
        OBVIOUS
      <4> HIDE DEF Missed
      <4> QED BY <4>1, LeastNumber
    <3> DEFINE k == Len(T) - m
    <3>2. k \in 1 .. Len(T) /\ T[k].entry \notin S
      BY <1>1, <3>1
    <3>3. CASE m = 0
      BY <1>1, <1>3, <1>8, <3>2, <3>3
    <3>4. CASE m # 0
      <4>1. m - 1 \in Nat /\ m - 1 < m /\ Len(T) - (m - 1) = k + 1 /\ k + 1 \in 1 .. Len(T)
            /\ k # 0 /\ (k + 1) - 1 = k
        BY <1>1, <3>1, <3>2, <3>4
      <4>2. m - 1 \notin Missed
        BY <3>1, <4>1
      <4>9. m - 1 < Len(T)
        <5>1. m \in Nat /\ m < Len(T) /\ Len(T) \in Nat
          BY <1>1, <3>1
        <5>2. \A a, b \in Nat : a < b => a - 1 < b
          OBVIOUS
        <5> QED BY <5>1, <5>2
      <4>3. T[k+1].entry \in S
        BY <4>1, <4>2, <4>9
      <4>4. store[T[k+1].entry].cdr = T[k].entry
        BY <4>1, CursorRow
      <4>5. Kind(T[k+1].entry, "Cons") /\ T[k+1].entry \in Slot
        <5>1. /\ T[k+1].entry \in Allocated
              /\ store[T[k+1].entry] = Cons(T[k+1].sym, IF k + 1 = 1 THEN NIL ELSE T[(k+1)-1].entry)
          BY <4>1 DEF Table
        <5>2. T[k+1].entry \in Slot
          BY <4>1, RowType
        <5> QED BY <5>1, <5>2, KindsDiffer DEF Kind
      <4>6. NextEntry[T[k+1].entry] = {T[k].entry}
        BY <4>4, <4>5 DEF NextEntry
      <4> QED BY <1>8, <3>2, <4>3, <4>6 DEF ClosedIn
    <3> QED BY <3>3, <3>4
  <2> SUFFICES ASSUME NEW k \in 1 .. Len(T) PROVE T[k].entry \in S
    OBVIOUS
  <2>2. Len(T) - k \in Nat /\ Len(T) - k < Len(T) /\ Len(T) - (Len(T) - k) = k
    BY <1>1
  <2> QED BY <2>1, <2>2
<1>9. ASSUME NEW k \in 1 .. Len(T) PROVE T[k].entry \in Entries
  <2>1. T[k].entry \in Slot /\ T[k].entry # NIL
    BY RowType, CursorRow
  <2>2. \A S \in SUBSET Slot : {head} \subseteq S /\ ClosedIn(NextEntry, S) => T[k].entry \in S
    BY <1>8
  <2>3. T[k].entry \in Reachable(NextEntry, {head})
    BY <1>6, <2>1, <2>2 DEF Reachable
  <2> QED BY <1>2, <2>1, <2>3 DEF Entries
<1> QED BY <1>7, <1>9

LEMMA ListedAre ==
  ASSUME Typed, Fixed, NEW T \in Seq(Row), NEW M, Table(T, M)
  PROVE  /\ Listed = {T[k].sym : k \in 1 .. Len(T)}
         /\ \A j, k \in 1 .. Len(T) : T[j].sym = T[k].sym => j = k
<1>1. \A k \in 1 .. Len(T) : store[T[k].entry].car = T[k].sym
  BY CursorRow
<1>2. Listed = {T[k].sym : k \in 1 .. Len(T)}
  BY <1>1, EntriesAre DEF Listed
<1>3. \A k \in 1 .. Len(T) : T[k].sym \in T[k].cells
  BY DEF Table, Layout, Owns
<1>4. \A j, k \in 1 .. Len(T) : j # k => T[j].cells \cap T[k].cells = {}
  BY DEF Table, Layout
<1> QED BY <1>2, <1>3, <1>4

\* What a symbol's name costs, and what the cells of some of the rows do.
LengthOf(i) == CHOOSE n \in {Len(s) : s \in Names} :
                 \E s \in Names : Len(s) = n /\ Spells(store[i].name, s)

LEMMA LengthRow ==
  ASSUME Typed, Fixed, NEW T \in Seq(Row), NEW M, Table(T, M), NEW k \in 1 .. Len(T)
  PROVE  LengthOf(T[k].sym) = Len(T[k].name)
<1> DEFINE i == store[T[k].sym].name
<1>1. T[k].name \in Names /\ Spells(i, T[k].name)
  BY CursorRow
<1>2. \A s \in Names : Spells(i, s) => s = T[k].name
  BY <1>1, SpellsUnique
<1> HIDE DEF i
<1>3. \A n \in {Len(s) : s \in Names} :
        (\E s \in Names : Len(s) = n /\ Spells(i, s)) <=> n = Len(T[k].name)
  BY <1>1, <1>2
<1>4. LengthOf(T[k].sym) = CHOOSE n \in {Len(s) : s \in Names} :
                             \E s \in Names : Len(s) = n /\ Spells(i, s)
  BY DEF LengthOf, i
<1>5. Len(T[k].name) \in {Len(s) : s \in Names}
  BY <1>1
<1> QED BY <1>3, <1>4, <1>5

RowsOf(T, S)  == {k \in 1 .. Len(T) : T[k].sym \in S}
CellsOf(T, S) == UNION {T[k].cells : k \in RowsOf(T, S)}

LEMMA CellsGrow ==
  ASSUME Typed, Fixed, NEW T \in Seq(Row), NEW M, Table(T, M),
         NEW S \in SUBSET Listed, NEW i \in S
  PROVE  Cardinality(CellsOf(T, S)) = 2 + LengthOf(i) + Cardinality(CellsOf(T, S \ {i}))
<1>1. PICK k \in 1 .. Len(T) : i = T[k].sym
  BY ListedAre
<1>2. \A j \in 1 .. Len(T) : T[j].sym = i => j = k
  BY <1>1, ListedAre
<1>3. RowsOf(T, S) = RowsOf(T, S \ {i}) \cup {k} /\ k \notin RowsOf(T, S \ {i})
  BY <1>1, <1>2 DEF RowsOf
<1> DEFINE A == CellsOf(T, S \ {i})
           B == T[k].cells
<1>4. CellsOf(T, S) = A \cup B
  BY <1>3 DEF CellsOf
<1>5. A \cap B = {}
  <2>1. \A j \in RowsOf(T, S \ {i}) : j \in 1 .. Len(T) /\ T[j].cells \cap B = {}
    BY <1>1, <1>3 DEF RowsOf, Table, Layout
  <2> QED BY <2>1 DEF CellsOf
<1>6. IsFiniteSet(B) /\ Cardinality(B) = 2 + LengthOf(i)
  <2>1. Owns(T[k])
    BY DEF Table, Layout
  <2> QED BY <1>1, <2>1, LengthRow DEF Owns
<1>7. IsFiniteSet(A)
  <2>1. A \subseteq Slot
    BY RowType DEF CellsOf, RowsOf
  <2>2. IsFiniteSet(Slot)
    BY FS_Interval DEF Slot
  <2> HIDE DEF A
  <2> QED BY <2>1, <2>2, FS_Subset
<1> HIDE DEF A, B
<1>8. Cardinality(A \cup B) = Cardinality(A) + Cardinality(B) - Cardinality(A \cap B)
  BY <1>6, <1>7, FS_Union
<1>9. Cardinality(A) \in Nat /\ Cardinality(B) \in Nat /\ Cardinality({}) = 0
  BY <1>6, <1>7, FS_CardinalityType, FS_EmptySet
<1>10. Cardinality(A \cup B) = 2 + LengthOf(i) + Cardinality(A)
  <2>1. \A a, b \in Nat : a + b - 0 = b + a
    OBVIOUS
  <2> QED BY <1>5, <1>6, <1>8, <1>9, <2>1
<1> QED BY <1>4, <1>10 DEF A

\* The recursive sum of NamesCost is the number of cells of the table.
Totals(f) == f = [S \in SUBSET Listed |->
                    IF S = {} THEN 0
                    ELSE LET i == CHOOSE i \in S : TRUE IN 2 + LengthOf(i) + f[S \ {i}]]

LEMMA TotalIsCells ==
  ASSUME Typed, Fixed, NEW T \in Seq(Row), NEW M, Table(T, M), NEW f, Totals(f)
  PROVE  \A S \in SUBSET Listed : f[S] = Cardinality(CellsOf(T, S))
<1>1. IsFiniteSet(Listed)
  <2>1. Listed \subseteq Slot
    BY ListedAre, RowType
  <2>2. IsFiniteSet(Slot)
    BY FS_Interval DEF Slot
  <2> QED BY <2>1, <2>2, FS_Subset
<1> DEFINE Wrong == {S \in SUBSET Listed : f[S] # Cardinality(CellsOf(T, S))}
           Sizes == {Cardinality(S) : S \in Wrong}
<1>2. \A S \in SUBSET Listed : IsFiniteSet(S) /\ Cardinality(S) \in Nat
  BY <1>1, FS_Subset, FS_CardinalityType
<1>3. ASSUME Wrong # {} PROVE FALSE
  <2>1. Sizes \in SUBSET Nat /\ Sizes # {}
    BY <1>2, <1>3
  <2>2. PICK m \in Sizes : \A k \in Sizes : ~(k < m)
    <3> HIDE DEF Sizes
    <3> QED BY <2>1, LeastNumber
  <2>3. PICK S \in Wrong : Cardinality(S) = m
    OBVIOUS
  <2>4. CASE S = {}
    <3>1. f[S] = 0
      BY <2>4 DEF Totals
    <3>2. CellsOf(T, S) = {}
      BY <2>4 DEF CellsOf, RowsOf
    <3> QED BY <2>3, <3>1, <3>2, FS_EmptySet
  <2>5. CASE S # {}
    <3>1. PICK i : i = CHOOSE x \in S : TRUE
      OBVIOUS
    <3>2. i \in S
      BY <2>5, <3>1
    <3>3. f[S] = 2 + LengthOf(i) + f[S \ {i}]
      BY <2>5, <3>1 DEF Totals
    <3>4. Cardinality(CellsOf(T, S)) = 2 + LengthOf(i) + Cardinality(CellsOf(T, S \ {i}))
      BY <3>2, CellsGrow
    <3>5. S \ {i} \in SUBSET Listed /\ S \ {i} \in Wrong
      BY <2>3, <3>3, <3>4
    <3>6. Cardinality(S \ {i}) = m - 1 /\ m \in Nat
      BY <1>2, <2>3, <3>2, FS_RemoveElement
    <3>7. Cardinality(S \ {i}) \in Sizes
      BY <3>5
    <3> HIDE DEF Sizes, Wrong
    <3> QED BY <2>2, <3>6, <3>7
  <2> QED BY <2>4, <2>5
<1> QED BY <1>3

LEMMA TotalsExists ==
  ASSUME Typed, Fixed, NEW T \in Seq(Row), NEW M, Table(T, M)
  PROVE  \E f : Totals(f)
<1> DEFINE g == [S \in SUBSET Listed |-> Cardinality(CellsOf(T, S))]
<1>1. ASSUME NEW S \in SUBSET Listed
      PROVE  g[S] = IF S = {} THEN 0
                    ELSE LET i == CHOOSE i \in S : TRUE IN 2 + LengthOf(i) + g[S \ {i}]
  <2>1. CASE S = {}
    <3>1. CellsOf(T, S) = {}
      BY <2>1 DEF CellsOf, RowsOf
    <3> QED BY <2>1, <3>1, FS_EmptySet
  <2>2. CASE S # {}
    <3>1. PICK i : i = CHOOSE x \in S : TRUE
      OBVIOUS
    <3>2. i \in S /\ S \ {i} \in SUBSET Listed
      BY <2>2, <3>1
    <3>3. g[S] = 2 + LengthOf(i) + g[S \ {i}]
      BY <3>2, CellsGrow
    <3> HIDE DEF g
    <3> QED BY <2>2, <3>1, <3>3
  <2> QED BY <2>1, <2>2
<1>2. g = [S \in SUBSET Listed |-> g[S]]
  OBVIOUS
<1> HIDE DEF g
<1>3. Totals(g)
  BY <1>1, <1>2 DEF Totals
<1> QED BY <1>3

Counted == \A T \in Seq(Row), M \in SUBSET Slot : InternAt(T, M) => NamesCost = Cardinality(M)

LEMMA CountedAlways == Counted
<1> SUFFICES ASSUME NEW T \in Seq(Row), NEW M \in SUBSET Slot, InternAt(T, M)
             PROVE  NamesCost = Cardinality(M)
  BY DEF Counted
<1>1. Typed /\ Fixed /\ Table(T, M)
  BY JobTyped DEF InternAt
<1>2. PICK f : f = CHOOSE h : Totals(h)
  OBVIOUS
<1>3. Totals(f)
  BY <1>1, <1>2, TotalsExists
<1>4. NamesCost = f[Listed]
  BY <1>2 DEF NamesCost, Totals, LengthOf
<1>5. f[Listed] = Cardinality(CellsOf(T, Listed))
  BY <1>1, <1>3, TotalIsCells
<1>6. CellsOf(T, Listed) = M
  <2>1. RowsOf(T, Listed) = 1 .. Len(T)
    BY <1>1, ListedAre DEF RowsOf
  <2> QED BY <1>1, <2>1 DEF CellsOf, Table, Layout
<1> QED BY <1>4, <1>5, <1>6

\* The cells the program holds are none of the table.
LEMMA HeldApart ==
  ASSUME Typed, Fixed, HeldOK, NEW T \in Seq(Row), NEW M, Table(T, M)
  PROVE  held \cap M = {}
<1> SUFFICES ASSUME NEW i \in held, i \in M PROVE FALSE
  OBVIOUS
<1>1. store[i] = Cons(NIL, NIL)
  BY DEF HeldOK
<1>2. PICK k \in 1 .. Len(T) : i \in T[k].cells
  BY DEF Table, Layout
<1>3. PICK p \in [1 .. Len(T[k].name) -> T[k].cells] :
        /\ Along(T[k].chars, T[k].name, p)
        /\ T[k].cells = {T[k].entry, T[k].sym} \cup {p[j] : j \in 1 .. Len(T[k].name)}
  BY DEF Table, Layout, Owns
<1>4. CASE i = T[k].entry
  BY <1>1, <1>4, KindsDiffer DEF Table
<1>5. CASE i = T[k].sym
  BY <1>1, <1>5, KindsDiffer DEF Table
<1>6. ASSUME NEW j \in 1 .. Len(T[k].name), i = p[j] PROVE FALSE
  BY <1>1, <1>3, <1>6, KindsDiffer DEF Along
<1> QED BY <1>2, <1>3, <1>4, <1>5, <1>6

(* The invariant holds in every reachable state. *)
THEOREM InternInvariance == InternSpec => []InternInv
<1>1. InternInit => InternInv
  BY InternInvInit
<1>2. InternInv /\ [InternNext]_internVars => InternInv'
  BY InternInvNext
<1> QED BY <1>1, <1>2, PTL DEF InternSpec

(* Every register stays in its range: a cursor, a chain or a link is a     *)
(* slot of the heap, and no call reads or writes past its name's end.      *)
THEOREM InternTypeCorrect == InternSpec => []InternTypeOK
<1>1. InternInv => InternTypeOK
  BY DEF InternInv
<1> QED BY <1>1, InternInvariance, PTL

(* Symbols are permanent: every answer ever given for a name is the same   *)
(* symbol, which still spells it, whatever the number of slots and names.  *)
(* The table holds one row for each name, and collections keep its cells.  *)
THEOREM SymbolsArePermanent == InternSpec => []SymbolsForever
<1>1. InternInv => SymbolsForever
  <2> SUFFICES ASSUME InternInv, NEW s \in Names
               PROVE  /\ \A i, j \in known[s] : i = j
                      /\ \A i \in known[s] : Kind(i, "Symbol") /\ Spells(store[i].name, s)
    BY DEF SymbolsForever
  <2>1. PICK T \in Seq(Row), M \in SUBSET Slot : InternAt(T, M)
    BY DEF InternInv, InternAt
  <2>2. \A i \in known[s] : \E k \in 1 .. Len(T) : T[k].sym = i /\ T[k].name = s
    BY <2>1 DEF InternAt, KnownOK
  <2>3. \A j, k \in 1 .. Len(T) : T[j].name = T[k].name => j = k
    BY <2>1 DEF InternAt, Table
  <2>4. ASSUME NEW i \in known[s] PROVE Kind(i, "Symbol") /\ Spells(store[i].name, s)
    <3>1. PICK k \in 1 .. Len(T) : T[k].sym = i /\ T[k].name = s
      BY <2>2
    <3>2. /\ i \in Allocated /\ store[i] = Symbol(T[k].chars)
          /\ SpeltIn(M, T[k].chars, s) /\ M \in SUBSET Allocated
      BY <2>1, <3>1 DEF InternAt, Table
    <3>3. Spells(T[k].chars, s)
      BY <3>2, SpeltInSpells
    <3> QED BY <3>2, <3>3, KindsDiffer DEF Kind
  <2> QED BY <2>2, <2>3, <2>4
<1> QED BY <1>1, InternInvariance, PTL

(* No two entries of the list have the same characters, and every entry    *)
(* names a symbol, in heaps of every size and for all names: what the list *)
(* leads to are the rows of the table.                                     *)
THEOREM SymbolsAreUnique == InternSpec => []SymbolsUnique
<1>1. InternInv => SymbolsUnique
  <2> SUFFICES ASSUME InternInv PROVE SymbolsUnique
    OBVIOUS
  <2>1. PICK T \in Seq(Row), M \in SUBSET Slot : InternAt(T, M)
    BY DEF InternInv, InternAt
  <2>2. /\ Typed /\ Fixed /\ Table(T, M)
    BY <2>1, JobTyped DEF InternAt
  <2>7. \A e \in Entries : \E k \in 1 .. Len(T) : e = T[k].entry
    BY <2>2, EntriesAre
  <2>8. ASSUME NEW k \in 1 .. Len(T)
        PROVE  /\ Kind(T[k].entry, "Cons") /\ Kind(store[T[k].entry].car, "Symbol")
               /\ store[store[T[k].entry].car].name = T[k].chars
               /\ T[k].name \in Names /\ Spells(T[k].chars, T[k].name)
    <3>1. /\ T[k].entry \in Allocated /\ T[k].sym \in Allocated
          /\ store[T[k].entry] = Cons(T[k].sym, IF k = 1 THEN NIL ELSE T[k-1].entry)
          /\ store[T[k].sym] = Symbol(T[k].chars)
      BY <2>2 DEF Table
    <3>2. T[k].name \in Names /\ Spells(T[k].chars, T[k].name)
      BY <2>2, CursorRow
    <3> QED BY <3>1, <3>2, KindsDiffer DEF Kind
  <2>9. ASSUME NEW j \in 1 .. Len(T), NEW k \in 1 .. Len(T),
               SameChars(T[j].chars, T[k].chars)
        PROVE  T[j].entry = T[k].entry
    <3>1. T[j].name = T[k].name
      <4>1. PICK s \in Names : Spells(T[j].chars, s) /\ Spells(T[k].chars, s)
        BY <2>8, <2>9 DEF SameChars
      <4>2. s = T[j].name /\ s = T[k].name
        BY <2>2, <2>8, <4>1, SpellsUnique
      <4> QED BY <4>2
    <3>2. j = k
      BY <2>2, <3>1 DEF Table
    <3> QED BY <3>2
  <2> QED BY <2>7, <2>8, <2>9 DEF SymbolsUnique
<1> QED BY <1>1, InternInvariance, PTL

(* What a failed or superfluous call leaves behind is garbage, and nothing *)
(* but garbage: a collection leaves the fixed slots, the program's own     *)
(* cells and, for each symbol, its entry, itself and its characters, for   *)
(* every size of heap and all names.  The rows of the table share no cell, *)
(* and the collector reaches all of their cells and no other.              *)
THEOREM NothingIsLost == InternSpec => GarbageOnly
<1>1. Counted
  BY CountedAlways
<1>2. InternInv /\ Counted' /\ [InternNext]_internVars =>
        [Collect => Cardinality(Allocated') = 2 + Cardinality(held') + NamesCost']_internVars
  <2> SUFFICES ASSUME InternInv, Counted', Collect
               PROVE  Cardinality(Allocated') = 2 + Cardinality(held') + NamesCost'
    OBVIOUS
  <2>1. PICK T \in Seq(Row), M \in SUBSET Slot : InternAt(T, M)
    BY DEF InternInv, InternAt
  <2>2. InternAt(T, M)' /\ Allocated' = {NIL, INTERN_LIST} \cup held \cup M
    BY <2>1, CollectInv
  <2>3. NamesCost' = Cardinality(M)
    BY <2>1, <2>2 DEF Counted
  <2>4. held' = held
    BY DEF Collect
  <2>5. /\ held \subseteq Slot \ {NIL, INTERN_LIST} /\ M \subseteq Slot \ {NIL, INTERN_LIST}
        /\ Typed /\ Fixed /\ HeldOK /\ Table(T, M)
    BY <2>1, JobTyped DEF InternAt, InternTypeOK, Table
  <2>6. held \cap M = {}
    BY <2>5, HeldApart
  <2>7. IsFiniteSet(Slot) /\ NIL # INTERN_LIST
    BY FS_Interval, CellCases DEF Slot
  <2>8. IsFiniteSet(held) /\ IsFiniteSet(M)
    BY <2>1, <2>5, <2>7, FS_Subset
  <2>9. IsFiniteSet(held \cup M) /\ Cardinality(held \cup M) = Cardinality(held) + Cardinality(M)
    <3>1. IsFiniteSet(held \cup M)
      BY <2>8, FS_Union
    <3>2. Cardinality(held \cup M) = Cardinality(held) + Cardinality(M) - Cardinality({})
      BY <2>6, <2>8, FS_Union
    <3>3. Cardinality({}) = 0
      BY FS_EmptySet
    <3>4. Cardinality(held) \in Nat /\ Cardinality(M) \in Nat
      BY <2>8, FS_CardinalityType
    <3>5. \A a, b \in Nat : a + b - 0 = a + b
      OBVIOUS
    <3>6. Cardinality(held \cup M) = Cardinality(held) + Cardinality(M)
      BY <3>2, <3>3, <3>4, <3>5
    <3> QED BY <3>1, <3>6
  <2> DEFINE A == held \cup M
             B == A \cup {NIL}
  <2>10. NIL \notin A /\ INTERN_LIST \notin B /\ Allocated' = B \cup {INTERN_LIST}
    BY <2>2, <2>5, <2>7
  <2>11. IsFiniteSet(B) /\ Cardinality(B) = Cardinality(A) + 1
    <3> HIDE DEF A
    <3> QED BY <2>9, <2>10, FS_AddElement DEF A
  <2>12. Cardinality(B \cup {INTERN_LIST}) = Cardinality(B) + 1
    <3> HIDE DEF B
    <3> QED BY <2>10, <2>11, FS_AddElement
  <2>13. Cardinality(held) \in Nat /\ Cardinality(M) \in Nat
    BY <2>8, FS_CardinalityType
  <2>14. Cardinality(Allocated') = 2 + Cardinality(held) + Cardinality(M)
    <3>1. \A a, b \in Nat : ((a + b) + 1) + 1 = 2 + a + b
      OBVIOUS
    <3> QED BY <2>9, <2>10, <2>11, <2>12, <2>13, <3>1
  <2> QED BY <2>3, <2>4, <2>14
<1> QED BY <1>1, <1>2, InternInvariance, PTL DEF InternSpec, GarbageOnly
=============================================================================
