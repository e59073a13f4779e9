--------------------------- MODULE GriftGCProofs --------------------------
(***************************************************************************)
(* The collector marks exactly the objects reachable from the allocated    *)
(* roots, its mark stack of N entries never overflows, and a collection    *)
(* implements the atomic Collect of GriftHeap: for every capacity, every   *)
(* object graph, every batch size and every list of roots.                 *)
(***************************************************************************)
EXTENDS GriftGC, GriftArenaProofs, SequenceTheorems

USE ArenaAssumption
-----------------------------------------------------------------------------
(* Reachable is the least set that holds the roots and is closed. *)
LEMMA ReachLeast ==
  ASSUME NEW D, NEW succ \in [D -> SUBSET D], NEW R \in SUBSET D
  PROVE  /\ Reachable(succ, R) \in SUBSET D
         /\ R \subseteq Reachable(succ, R)
         /\ ClosedIn(succ, Reachable(succ, R))
         /\ \A S \in SUBSET D : R \subseteq S /\ ClosedIn(succ, S) => Reachable(succ, R) \subseteq S
<1>1. DOMAIN succ = D
  OBVIOUS
<1>2. Reachable(succ, R) = {i \in D : \A S \in SUBSET D : R \subseteq S /\ ClosedIn(succ, S) => i \in S}
  BY <1>1 DEF Reachable
<1>3. ClosedIn(succ, Reachable(succ, R))
  <2> SUFFICES ASSUME NEW i \in Reachable(succ, R), NEW j \in succ[i],
                      NEW S \in SUBSET D, R \subseteq S, ClosedIn(succ, S)
               PROVE  j \in S
    BY <1>2 DEF ClosedIn
  <2>1. i \in S
    BY <1>2
  <2>2. QED
    BY <2>1 DEF ClosedIn
<1>4. QED
  BY <1>2, <1>3

(* What lies outside the reachable set does not matter to it. *)
LEMMA ReachLocal ==
  ASSUME NEW D, NEW succ \in [D -> SUBSET D], NEW new \in [D -> SUBSET D], NEW R \in SUBSET D,
         \A i \in Reachable(succ, R) : new[i] = succ[i]
  PROVE  Reachable(new, R) = Reachable(succ, R)
<1> DEFINE A == Reachable(succ, R)
           B == Reachable(new, R)
<1>1. /\ A \in SUBSET D /\ R \subseteq A /\ ClosedIn(succ, A)
      /\ \A S \in SUBSET D : R \subseteq S /\ ClosedIn(succ, S) => A \subseteq S
  BY ReachLeast
<1>2. /\ B \in SUBSET D /\ R \subseteq B /\ ClosedIn(new, B)
      /\ \A S \in SUBSET D : R \subseteq S /\ ClosedIn(new, S) => B \subseteq S
  BY ReachLeast
<1>3. \A i \in A : new[i] = succ[i]
  OBVIOUS
<1> HIDE DEF A, B
<1>4. ClosedIn(new, A)
  BY <1>1, <1>3 DEF ClosedIn
<1>5. ClosedIn(succ, A \cap B)
  BY <1>1, <1>2, <1>3 DEF ClosedIn
<1>6. B \subseteq A
  BY <1>1, <1>2, <1>4
<1>7. A \subseteq A \cap B
  BY <1>1, <1>2, <1>5
<1>8. A = B
  BY <1>6, <1>7
<1>9. QED
  BY <1>8 DEF A, B

LEMMA GraphType ==
  ASSUME SlotsOK
  PROVE  /\ Successors \in [Idx -> SUBSET Idx]
         /\ HonouredRoots \in SUBSET Idx
BY DEF Successors, HonouredRoots, Allocated

LEMMA LiveLeast ==
  ASSUME SlotsOK
  PROVE  /\ Live \in SUBSET Idx
         /\ HonouredRoots \subseteq Live
         /\ ClosedIn(Successors, Live)
         /\ \A S \in SUBSET Idx : HonouredRoots \subseteq S /\ ClosedIn(Successors, S) => Live \subseteq S
BY GraphType, ReachLeast DEF Live
-----------------------------------------------------------------------------
(* The inductive invariant of a collection. *)
Marking == phase \in {"roots", "mark", "scan", "push"}

(* Between calls nothing of a collection is left. *)
IdleClean == phase = "idle" =>
  /\ roots = << >> /\ next_root = 0 /\ marked = {} /\ mark_stack = << >>
  /\ cur = 0 /\ batch = {} /\ has_more = FALSE /\ next_sweep = 0
  /\ stats = NoStats

ShapeOK ==
  /\ phase \in {"idle", "roots", "mark", "scan", "push", "sweep"}
  /\ roots \in Seq(Handle) /\ next_root \in 0 .. Len(roots)
  /\ marked \in SUBSET Idx /\ mark_stack \in Seq(Idx)
  /\ cur \in Handle /\ batch \in SUBSET Nat /\ has_more \in BOOLEAN
  /\ next_sweep \in 0 .. N
  /\ stats \in [marked : 0..N, collected : Nat, total_before : 0..N]
  /\ phase # "sweep" => next_sweep = 0

(* The roots examined so far are marked, and all are once marking proper   *)
(* begins.                                                                 *)
RootsMarked ==
  /\ \A k \in 1 .. next_root : roots[k] \in Allocated => roots[k] \in marked
  /\ phase \notin {"idle", "roots"} => next_root = Len(roots)

(* The object being scanned is allocated and marked; each of its children  *)
(* is marked, or in the batch, or will be in a later batch.                *)
ScanOK ==
  /\ phase \in {"scan", "push"} => cur \in Idx /\ cur \in marked /\ IsOccupied(cur)
  /\ phase = "push" =>
       /\ \A k \in batch : k \in DOMAIN ChildrenOf(cur) /\ ChildrenOf(cur)[k] \in Successors[cur]
       /\ \A c \in Successors[cur] : \/ c \in marked
                                     \/ has_more
                                     \/ \E k \in batch : ChildrenOf(cur)[k] = c

SweepOK == phase = "sweep" => \A i \in Idx : i < next_sweep => ~Garbage(i)

StatsOK == /\ Marking => stats.collected = 0
           /\ phase \in {"mark", "scan", "push"} => stats.total_before = len
           /\ phase = "sweep" => /\ stats.collected + len = stats.total_before
                                 /\ stats.marked = Cardinality(marked)

GCInv == /\ IInv /\ IdleClean /\ ShapeOK /\ RootsMarked /\ ScanOK
         /\ TriColour /\ StackDistinct /\ MarkingExact /\ SweepOK /\ StatsOK
-----------------------------------------------------------------------------
LEMMA StackFits ==
  ASSUME ShapeOK, StackDistinct, NEW i \in Idx, i \notin marked
  PROVE  Len(mark_stack) < N
<1> DEFINE T == Idx \ {i}
<1>1. IsFiniteSet(Idx) /\ Cardinality(Idx) = N
  BY FS_Interval DEF Idx
<1>2. IsFiniteSet(T) /\ Cardinality(T) = N - 1
  BY <1>1, FS_RemoveElement
<1>3. mark_stack \in Injection(1..Len(mark_stack), T)
  <2>1. mark_stack \in [1..Len(mark_stack) -> T]
    BY DEF ShapeOK, StackDistinct, OnStack
  <2>2. QED
    BY <2>1 DEF StackDistinct, Injection, IsInjective
<1>4. Cardinality(1..Len(mark_stack)) <= N - 1
  BY <1>2, <1>3, FS_Injection
<1>5. Cardinality(1..Len(mark_stack)) = Len(mark_stack)
  <2>1. Len(mark_stack) \in Nat
    BY DEF ShapeOK
  <2>2. QED
    <3>1. \A m \in Nat : 1 \in Int /\ m \in Int /\ (IF 1 > m THEN 0 ELSE m - 1 + 1) = m
      OBVIOUS
    <3>2. \A m \in Nat : Cardinality(1..m) = IF 1 > m THEN 0 ELSE m - 1 + 1
      BY <3>1, FS_Interval
    <3>3. QED
      BY <2>1, <3>1, <3>2
<1>6. QED
  BY <1>4, <1>5

LEMMA PushFacts ==
  ASSUME NEW s \in Seq(Idx), NEW i \in Idx
  PROVE  /\ Append(s, i) \in Seq(Idx)
         /\ DOMAIN Append(s, i) = 1 .. (Len(s) + 1)
         /\ DOMAIN s = 1 .. Len(s) /\ Len(s) \in Nat
         /\ \A k \in 1 .. Len(s) : Append(s, i)[k] = s[k]
         /\ Append(s, i)[Len(s) + 1] = i
OBVIOUS

LEMMA PopFacts ==
  ASSUME NEW s \in Seq(Idx), s # << >>
  PROVE  LET t == SubSeq(s, 1, Len(s) - 1)
         IN  /\ t \in Seq(Idx)
             /\ DOMAIN t = 1 .. (Len(s) - 1)
             /\ Len(s) \in Nat \ {0} /\ DOMAIN s = 1 .. Len(s)
             /\ \A k \in 1 .. (Len(s) - 1) : t[k] = s[k]
OBVIOUS

(* What one call of MarkAndPush does to the bitmap and the stack. *)
LEMMA MarkAndPushFacts ==
  ASSUME ShapeOK, StackDistinct, NEW i \in Idx, MarkAndPush(i)
  PROVE  /\ marked' = marked \cup {i} /\ marked' \in SUBSET Idx
         /\ mark_stack' \in Seq(Idx)
         /\ StackDistinct'
         /\ OnStack' = OnStack \cup (IF i \in marked THEN {} ELSE {i})
<1>1. CASE i \in marked
  <2>1. UNCHANGED <<marked, mark_stack>>
    BY <1>1 DEF MarkAndPush
  <2>2. QED
    BY <1>1, <2>1 DEF ShapeOK, StackDistinct, OnStack
<1>2. CASE i \notin marked
  <2>1. marked' = marked \cup {i} /\ mark_stack' = Append(mark_stack, i)
    BY <1>2, StackFits DEF MarkAndPush
  <2>2. mark_stack \in Seq(Idx)
    BY DEF ShapeOK
  <2>3. OnStack' = OnStack \cup {i}
    BY <2>1, <2>2, PushFacts DEF OnStack
  <2>4. \A k \in 1 .. Len(mark_stack) : mark_stack[k] # i
    BY <1>2, <2>2 DEF StackDistinct, OnStack
  <2>5. \A j, k \in DOMAIN mark_stack' : mark_stack'[j] = mark_stack'[k] => j = k
    <3> SUFFICES ASSUME NEW j \in 1 .. (Len(mark_stack) + 1), NEW k \in 1 .. (Len(mark_stack) + 1),
                        mark_stack'[j] = mark_stack'[k]
                 PROVE  j = k
      BY <2>1, <2>2, PushFacts
    <3>1. DOMAIN mark_stack = 1 .. Len(mark_stack) /\ Len(mark_stack) \in Nat
      BY <2>2
    <3>2. /\ \A n \in 1 .. Len(mark_stack) : mark_stack'[n] = mark_stack[n]
          /\ mark_stack'[Len(mark_stack) + 1] = i
      BY <2>1, <2>2, PushFacts
    <3>3. CASE j = Len(mark_stack) + 1 \/ k = Len(mark_stack) + 1
      BY <2>4, <3>1, <3>2, <3>3
    <3>4. CASE j \in 1 .. Len(mark_stack) /\ k \in 1 .. Len(mark_stack)
      BY <3>1, <3>2, <3>4 DEF StackDistinct
    <3>5. QED
      BY <3>1, <3>3, <3>4
  <2>6. StackDistinct'
    BY <2>1, <2>3, <2>5 DEF StackDistinct
  <2>7. QED
    BY <1>2, <2>1, <2>2, <2>3, <2>6, PushFacts DEF ShapeOK
<1>3. QED
  BY <1>1, <1>2
-----------------------------------------------------------------------------
(* The object graph depends on the slots alone. *)
LEMMA SameGraph ==
  ASSUME UNCHANGED <<slots, roots>>
  PROVE  /\ Successors' = Successors /\ HonouredRoots' = HonouredRoots /\ Live' = Live
         /\ Allocated' = Allocated
         /\ \A i : IsOccupied(i)' = IsOccupied(i) /\ ChildrenOf(i)' = ChildrenOf(i)
BY DEF Successors, HonouredRoots, Live, Allocated, IsOccupied, ChildrenOf

(* While marking, the bitmap holds live objects only, so a live object can *)
(* be added, and so can each of its children.                              *)
LEMMA ChildrenLive ==
  ASSUME SlotsOK, NEW i \in Live
  PROVE  Successors[i] \subseteq Live
BY LiveLeast DEF ClosedIn

LEMMA SuccessorsOf ==
  ASSUME NEW i \in Idx, IsOccupied(i)
  PROVE  Successors[i] = {ChildrenOf(i)[k] : k \in DOMAIN ChildrenOf(i)} \cap Idx
BY DEF Successors

LEMMA InitGCInv == GCInit => GCInv
<1> SUFFICES ASSUME GCInit PROVE GCInv
  OBVIOUS
<1>1. IInv
  BY FreshIsIntact DEF GCInit, Init
<1>2. IdleClean /\ ShapeOK
  <2>1. roots \in Seq(Handle) /\ mark_stack \in Seq(Idx) /\ Len(roots) = 0
    BY DEF GCInit
  <2>2. stats \in [marked : 0..N, collected : Nat, total_before : 0..N]
    BY DEF GCInit, NoStats
  <2>3. next_root \in 0 .. Len(roots) /\ cur \in Handle /\ next_sweep \in 0 .. N
    BY <2>1 DEF GCInit, Handle
  <2>4. IdleClean
    BY DEF GCInit, IdleClean
  <2>5. QED
    BY <2>1, <2>2, <2>3, <2>4 DEF GCInit, ShapeOK
<1>3. RootsMarked /\ ScanOK /\ TriColour /\ StackDistinct /\ MarkingExact /\ SweepOK /\ StatsOK
  BY DEF GCInit, RootsMarked, ScanOK, TriColour, StackDistinct, OnStack, MarkingExact, SweepOK,
         StatsOK, Marking, NoStats
<1>4. QED
  BY <1>1, <1>2, <1>3 DEF GCInv

LEMMA MutateKeepsInv ==
  ASSUME GCInv, Mutate PROVE GCInv'
<1>1. IInv'
  BY InvInductive DEF Mutate, Next, GCInv
<1>2. phase = "idle" /\ phase' = "idle" /\ UNCHANGED gcVars
  BY DEF Mutate, gcVars
<1>3. (IdleClean /\ ShapeOK)'
  BY <1>2 DEF IdleClean, ShapeOK, gcVars, GCInv
<1>4. (RootsMarked /\ ScanOK /\ TriColour /\ StackDistinct /\ MarkingExact /\ SweepOK /\ StatsOK)'
  BY <1>2 DEF GCInv, IdleClean, gcVars, RootsMarked, ScanOK, TriColour, StackDistinct, OnStack,
              MarkingExact, SweepOK, StatsOK, Marking, NoStats
<1>5. QED
  BY <1>1, <1>3, <1>4 DEF GCInv

LEMMA StartCollectKeepsInv ==
  ASSUME GCInv, StartCollect PROVE GCInv'
<1>1. phase = "idle" /\ phase' = "roots" /\ roots' \in Seq(Handle)
      /\ UNCHANGED <<vars, next_root, marked, mark_stack, cur, batch, has_more, next_sweep, stats>>
  BY DEF StartCollect, RootLists, GCAssumption
<1>2. IInv'
  BY <1>1, StutterKeepsInv DEF GCInv, vars, arenaVars
<1>3. ShapeOK' /\ IdleClean'
  BY <1>1 DEF GCInv, ShapeOK, IdleClean
<1>4. (RootsMarked /\ ScanOK /\ TriColour /\ StackDistinct /\ MarkingExact /\ SweepOK /\ StatsOK)'
  BY <1>1 DEF GCInv, IdleClean, RootsMarked, ScanOK, TriColour, StackDistinct, OnStack,
              MarkingExact, SweepOK, StatsOK, Marking, NoStats
<1>5. QED
  BY <1>2, <1>3, <1>4 DEF GCInv

LEMMA InitializeRootKeepsInv ==
  ASSUME GCInv, InitializeRoot PROVE GCInv'
<1> DEFINE r == roots[next_root + 1]
<1>1. /\ phase = "roots" /\ next_root < Len(roots) /\ next_root' = next_root + 1
      /\ UNCHANGED <<vars, phase, roots, cur, batch, has_more, next_sweep, stats>>
  BY DEF InitializeRoot
<1>2. SlotsOK /\ ShapeOK /\ StackDistinct
  BY DEF GCInv, IInv
<1>3. next_root + 1 \in 1 .. Len(roots) /\ r \in Handle /\ DOMAIN roots = 1 .. Len(roots)
  BY <1>1, <1>2 DEF ShapeOK
<1>4. /\ Live' = Live /\ Allocated' = Allocated /\ Successors' = Successors
      /\ Live \in SUBSET Idx /\ HonouredRoots \subseteq Live
  BY <1>1, <1>2, SameGraph, LiveLeast DEF vars
<1>5. /\ marked' \in SUBSET Idx /\ mark_stack' \in Seq(Idx) /\ StackDistinct'
      /\ marked \subseteq marked'
      /\ marked' \subseteq marked \cup {r}
      /\ r \in Allocated => r \in marked'
      /\ r \notin Allocated => marked' = marked
      /\ \A i \in marked' : i \in marked \/ i \in OnStack'
      /\ OnStack \subseteq OnStack'
  <2>1. CASE ValidIndex(r)
    <3>1. MarkAndPush(r) /\ r \in Idx /\ r \in Allocated
      BY <1>3, <2>1 DEF InitializeRoot, ValidIndex, Handle, Idx, Allocated
    <3>2. QED
      BY <1>2, <3>1, MarkAndPushFacts
  <2>2. CASE ~ValidIndex(r)
    <3>1. UNCHANGED <<marked, mark_stack>> /\ r \notin Allocated
      BY <1>3, <2>2 DEF InitializeRoot, ValidIndex, Allocated, Idx
    <3>2. QED
      BY <1>2, <3>1 DEF ShapeOK, StackDistinct, OnStack
  <2>3. QED
    BY <2>1, <2>2
<1>6. IInv'
  BY <1>1, StutterKeepsInv DEF GCInv, vars, arenaVars
<1>7. ShapeOK' /\ IdleClean'
  BY <1>1, <1>2, <1>3, <1>5 DEF ShapeOK, IdleClean
<1>8. RootsMarked'
  <2>1. \A k \in 1 .. next_root' : roots'[k] \in Allocated' => roots'[k] \in marked'
    <3> SUFFICES ASSUME NEW k \in 1 .. next_root + 1, roots[k] \in Allocated
                 PROVE  roots[k] \in marked'
      BY <1>1, <1>4
    <3>1. CASE k = next_root + 1
      BY <1>5, <3>1
    <3>2. CASE k \in 1 .. next_root
      BY <1>5, <3>2 DEF GCInv, RootsMarked
    <3>3. QED
      BY <1>2, <3>1, <3>2 DEF ShapeOK
  <2>2. QED
    BY <1>1, <2>1 DEF RootsMarked
<1>9. TriColour'
  BY <1>1, <1>4, <1>5 DEF GCInv, TriColour
<1>10. MarkingExact'
  <2>1. r \in Allocated => r \in HonouredRoots
    BY <1>3 DEF HonouredRoots
  <2>2. marked \subseteq Live
    BY <1>1 DEF GCInv, MarkingExact
  <2>3. marked' \subseteq Live
    BY <1>4, <1>5, <2>1, <2>2
  <2>4. QED
    BY <1>1, <1>4, <2>3 DEF MarkingExact
<1>11. (ScanOK /\ SweepOK /\ StatsOK)'
  BY <1>1 DEF GCInv, ScanOK, SweepOK, StatsOK, Marking
<1>12. QED
  BY <1>5, <1>6, <1>7, <1>8, <1>9, <1>10, <1>11 DEF GCInv

(* The number that the collector reports as total_before. *)
LEMMA LenBound == IInv => len \in 0 .. N
BY TypeFromInv DEF TypeOK

LEMMA StartMarkKeepsInv ==
  ASSUME GCInv, StartMark PROVE GCInv'
<1>1. /\ phase = "roots" /\ phase' = "mark" /\ next_root = Len(roots)
      /\ stats' = [stats EXCEPT !.total_before = len]
      /\ UNCHANGED <<vars, roots, next_root, marked, mark_stack, cur, batch, has_more, next_sweep>>
  BY DEF StartMark
<1>2. /\ Live' = Live /\ Allocated' = Allocated /\ Successors' = Successors
  BY <1>1, SameGraph DEF vars
<1>3. IInv' /\ len' = len /\ len \in 0..N
  BY <1>1, StutterKeepsInv, LenBound DEF GCInv, vars, arenaVars
<1>4. ShapeOK' /\ IdleClean'
  BY <1>1, <1>3 DEF GCInv, ShapeOK, IdleClean
<1>5. (RootsMarked /\ TriColour /\ StackDistinct /\ MarkingExact)'
  BY <1>1, <1>2 DEF GCInv, RootsMarked, TriColour, StackDistinct, OnStack, MarkingExact
<1>6. (ScanOK /\ SweepOK)'
  BY <1>1 DEF ScanOK, SweepOK
<1>7. StatsOK'
  BY <1>1, <1>3 DEF GCInv, StatsOK, Marking, ShapeOK
<1>8. QED
  BY <1>3, <1>4, <1>5, <1>6, <1>7 DEF GCInv

LEMMA PopMarkStackKeepsInv ==
  ASSUME GCInv, PopMarkStack PROVE GCInv'
<1> DEFINE n == Len(mark_stack)
           top == mark_stack[n]
<1>1. /\ phase = "mark" /\ mark_stack # << >>
      /\ mark_stack' = SubSeq(mark_stack, 1, n - 1)
      /\ IF IsOccupied(top) THEN phase' = "scan" /\ cur' = top ELSE UNCHANGED <<phase, cur>>
      /\ UNCHANGED <<vars, roots, next_root, marked, batch, has_more, next_sweep, stats>>
  BY DEF PopMarkStack
<1>2. SlotsOK /\ ShapeOK /\ StackDistinct
  BY DEF GCInv, IInv
<1>3. /\ mark_stack' \in Seq(Idx) /\ DOMAIN mark_stack' = 1 .. (n - 1)
      /\ n \in Nat \ {0} /\ DOMAIN mark_stack = 1 .. n
      /\ \A k \in 1 .. (n - 1) : mark_stack'[k] = mark_stack[k]
  BY <1>1, <1>2, PopFacts DEF ShapeOK
<1>4. top \in Idx /\ top \in marked /\ top \in OnStack
  BY <1>2, <1>3 DEF ShapeOK, StackDistinct, OnStack
<1>5. /\ Live' = Live /\ Allocated' = Allocated /\ Successors' = Successors
      /\ \A i : IsOccupied(i)' = IsOccupied(i)
  BY <1>1, SameGraph DEF vars
<1>6. IInv'
  BY <1>1, StutterKeepsInv DEF GCInv, vars, arenaVars
<1>7. phase' \in {"mark", "scan"} /\ cur' \in Handle /\ (phase' = "scan" => cur' = top /\ IsOccupied(top))
  BY <1>1, <1>2, <1>4 DEF ShapeOK, Handle, Idx
<1>8. ShapeOK' /\ IdleClean'
  BY <1>1, <1>2, <1>3, <1>7 DEF ShapeOK, IdleClean
<1>9. StackDistinct'
  BY <1>1, <1>2, <1>3 DEF StackDistinct, OnStack
<1>10. OnStack \subseteq OnStack' \cup {top}
  <2> SUFFICES ASSUME NEW k \in 1 .. n, mark_stack[k] # top PROVE mark_stack[k] \in OnStack'
    BY <1>3 DEF OnStack
  <2>1. k \in 1 .. (n - 1)
    BY <1>3
  <2>2. QED
    BY <1>3, <2>1 DEF OnStack
<1>11. TriColour'
  <2> SUFFICES ASSUME NEW i \in marked
               PROVE  \/ i \in OnStack'
                      \/ phase' \in {"scan", "push"} /\ i = cur'
                      \/ Successors[i] \subseteq marked
    BY <1>1, <1>5 DEF TriColour
  <2>1. i \in OnStack \/ Successors[i] \subseteq marked
    BY <1>1 DEF GCInv, TriColour
  <2>2. CASE i = top /\ ~IsOccupied(top)
    BY <1>4, <2>2 DEF Successors
  <2>3. CASE i = top /\ IsOccupied(top)
    BY <1>1, <2>3
  <2>4. QED
    BY <1>10, <2>1, <2>2, <2>3
<1>12. ScanOK'
  BY <1>1, <1>4, <1>5, <1>7 DEF ScanOK
<1>13. (RootsMarked /\ MarkingExact /\ SweepOK /\ StatsOK)'
  BY <1>1, <1>5, <1>7 DEF GCInv, RootsMarked, MarkingExact, SweepOK, StatsOK, Marking, vars
<1>14. QED
  BY <1>6, <1>8, <1>9, <1>11, <1>12, <1>13 DEF GCInv

LEMMA FillBatchKeepsInv ==
  ASSUME GCInv, FillBatch PROVE GCInv'
<1>1. /\ phase = "scan" /\ phase' = IF Unmarked = {} THEN "mark" ELSE "push"
      /\ batch' \subseteq Unmarked /\ has_more' = (batch' # Unmarked)
      /\ UNCHANGED <<vars, roots, next_root, marked, mark_stack, cur, next_sweep, stats>>
  BY DEF FillBatch
<1>2. SlotsOK /\ ShapeOK
  BY DEF GCInv, IInv
<1>3. /\ Live' = Live /\ Allocated' = Allocated /\ Successors' = Successors
      /\ \A i : IsOccupied(i)' = IsOccupied(i) /\ ChildrenOf(i)' = ChildrenOf(i)
  BY <1>1, SameGraph DEF vars
<1>4. cur \in Idx /\ cur \in marked /\ IsOccupied(cur)
  BY <1>1 DEF GCInv, ScanOK
<1>5. ChildrenOf(cur) \in Seq(Nat)
  BY <1>2, <1>4, ValueOf, GCAssumption DEF ChildrenOf
<1>6. Successors[cur] = {ChildrenOf(cur)[k] : k \in DOMAIN ChildrenOf(cur)} \cap Idx
  BY <1>4, SuccessorsOf
<1>7. Unmarked \in SUBSET Nat
  BY <1>5 DEF Unmarked
<1>8. \A c \in Successors[cur] : c \in marked \/ \E k \in Unmarked : ChildrenOf(cur)[k] = c
  BY <1>6 DEF Unmarked
<1>9. IInv'
  BY <1>1, StutterKeepsInv DEF GCInv, vars, arenaVars
<1>10. has_more' \in BOOLEAN /\ batch' \in SUBSET Nat
  BY <1>1, <1>7
<1>11. ShapeOK' /\ IdleClean'
  BY <1>1, <1>2, <1>10 DEF ShapeOK, IdleClean
<1>12. ScanOK'
  <2>1. \A k \in batch' : k \in DOMAIN ChildrenOf(cur) /\ ChildrenOf(cur)[k] \in Successors[cur]
    BY <1>1, <1>6 DEF Unmarked
  <2>2. \A c \in Successors[cur] : \/ c \in marked
                                   \/ has_more'
                                   \/ \E k \in batch' : ChildrenOf(cur)[k] = c
    BY <1>1, <1>8
  <2>3. cur' = cur /\ marked' = marked
    BY <1>1
  <2>4. QED
    BY <1>3, <1>4, <2>1, <2>2, <2>3 DEF ScanOK
<1>13. TriColour'
  <2>1. Unmarked = {} => Successors[cur] \subseteq marked
    BY <1>8
  <2>2. QED
    BY <1>1, <1>3, <2>1 DEF GCInv, TriColour, OnStack
<1>14. (StackDistinct /\ RootsMarked /\ MarkingExact /\ SweepOK /\ StatsOK)'
  BY <1>1, <1>3 DEF GCInv, StackDistinct, OnStack, RootsMarked, MarkingExact, SweepOK, StatsOK,
                    Marking, vars
<1>15. QED
  BY <1>9, <1>11, <1>12, <1>13, <1>14 DEF GCInv

LEMMA PushChildKeepsInv ==
  ASSUME GCInv, PushChild PROVE GCInv'
<1>1. PICK k \in batch : batch' = batch \ {k} /\ MarkAndPush(ChildrenOf(cur)[k])
  BY DEF PushChild
<1> DEFINE c == ChildrenOf(cur)[k]
<1>2. /\ phase = "push"
      /\ UNCHANGED <<vars, phase, roots, next_root, cur, has_more, next_sweep, stats>>
  BY DEF PushChild
<1>3. SlotsOK /\ ShapeOK /\ StackDistinct
  BY DEF GCInv, IInv
<1>4. /\ Live' = Live /\ Allocated' = Allocated /\ Successors' = Successors
      /\ \A i : IsOccupied(i)' = IsOccupied(i) /\ ChildrenOf(i)' = ChildrenOf(i)
  BY <1>2, SameGraph DEF vars
<1>5. /\ cur \in Idx /\ cur \in marked /\ IsOccupied(cur)
      /\ \A j \in batch : j \in DOMAIN ChildrenOf(cur) /\ ChildrenOf(cur)[j] \in Successors[cur]
      /\ \A d \in Successors[cur] : d \in marked \/ has_more \/ \E j \in batch : ChildrenOf(cur)[j] = d
  BY <1>2 DEF GCInv, ScanOK
<1>6. c \in Successors[cur] /\ c \in Idx
  BY <1>3, <1>5, GraphType
<1>7. /\ marked' = marked \cup {c} /\ marked' \in SUBSET Idx /\ mark_stack' \in Seq(Idx)
      /\ StackDistinct'
      /\ OnStack' = OnStack \cup (IF c \in marked THEN {} ELSE {c})
  BY <1>1, <1>3, <1>6, MarkAndPushFacts
<1>8. c \in Live
  <2>1. cur \in Live
    BY <1>2, <1>5 DEF GCInv, MarkingExact
  <2>2. QED
    BY <1>3, <1>6, <2>1, ChildrenLive
<1>9. IInv'
  BY <1>2, StutterKeepsInv DEF GCInv, vars, arenaVars
<1>10. ShapeOK' /\ IdleClean'
  BY <1>1, <1>2, <1>3, <1>7 DEF ShapeOK, IdleClean
<1>11. ScanOK'
  <2>1. \A d \in Successors[cur] : d \in marked' \/ has_more \/ \E j \in batch' : ChildrenOf(cur)[j] = d
    BY <1>1, <1>5, <1>7
  <2>2. \A j \in batch' : j \in DOMAIN ChildrenOf(cur) /\ ChildrenOf(cur)[j] \in Successors[cur]
    BY <1>1, <1>5
  <2>3. cur' = cur /\ has_more' = has_more /\ cur \in marked'
    BY <1>2, <1>5, <1>7
  <2>4. QED
    BY <1>4, <1>5, <2>1, <2>2, <2>3 DEF ScanOK
<1>12. TriColour'
  BY <1>2, <1>4, <1>7 DEF GCInv, TriColour
<1>13. RootsMarked'
  BY <1>2, <1>4, <1>7 DEF GCInv, RootsMarked
<1>14. MarkingExact'
  BY <1>2, <1>4, <1>7, <1>8 DEF GCInv, MarkingExact
<1>15. (SweepOK /\ StatsOK)'
  BY <1>2 DEF GCInv, SweepOK, StatsOK, Marking, vars
<1>16. QED
  BY <1>7, <1>9, <1>10, <1>11, <1>12, <1>13, <1>14, <1>15 DEF GCInv

LEMMA EndBatchKeepsInv ==
  ASSUME GCInv, EndBatch PROVE GCInv'
<1>1. /\ phase = "push" /\ batch = {} /\ phase' = IF has_more THEN "scan" ELSE "mark"
      /\ UNCHANGED <<vars, roots, next_root, marked, mark_stack, cur, batch, has_more,
                     next_sweep, stats>>
  BY DEF EndBatch
<1>2. /\ Live' = Live /\ Allocated' = Allocated /\ Successors' = Successors
      /\ \A i : IsOccupied(i)' = IsOccupied(i)
  BY <1>1, SameGraph DEF vars
<1>3. IInv'
  BY <1>1, StutterKeepsInv DEF GCInv, vars, arenaVars
<1>4. ShapeOK' /\ IdleClean'
  BY <1>1 DEF GCInv, ShapeOK, IdleClean
<1>5. ScanOK'
  BY <1>1, <1>2 DEF GCInv, ScanOK
<1>6. TriColour'
  <2>1. ~has_more => Successors[cur] \subseteq marked
    BY <1>1 DEF GCInv, ScanOK
  <2>2. QED
    BY <1>1, <1>2, <2>1 DEF GCInv, TriColour, OnStack
<1>7. (StackDistinct /\ RootsMarked /\ MarkingExact /\ SweepOK /\ StatsOK)'
  BY <1>1, <1>2 DEF GCInv, StackDistinct, OnStack, RootsMarked, MarkingExact, SweepOK, StatsOK,
                    Marking, vars
<1>8. QED
  BY <1>3, <1>4, <1>5, <1>6, <1>7 DEF GCInv

LEMMA MarkedFinite ==
  ASSUME ShapeOK
  PROVE  IsFiniteSet(marked) /\ Cardinality(marked) \in 0 .. N
<1>1. IsFiniteSet(Idx) /\ Cardinality(Idx) = N
  BY FS_Interval DEF Idx
<1>2. QED
  BY <1>1, FS_Subset, FS_CardinalityType DEF ShapeOK

(* At the end of the mark phase the bitmap is closed and holds the roots.  *)
LEMMA MarkedIsLive ==
  ASSUME GCInv, phase = "mark", mark_stack = << >>
  PROVE  marked = Live
<1>1. SlotsOK /\ ShapeOK
  BY DEF GCInv, IInv
<1>2. OnStack = {}
  BY DEF OnStack
<1>3. ClosedIn(Successors, marked)
  BY <1>2 DEF GCInv, TriColour, ClosedIn
<1>4. HonouredRoots \subseteq marked
  <2>1. DOMAIN roots = 1 .. next_root
    BY <1>1 DEF GCInv, RootsMarked, ShapeOK
  <2>2. QED
    BY <2>1 DEF GCInv, RootsMarked, HonouredRoots
<1>5. Live \subseteq marked
  BY <1>1, <1>3, <1>4, LiveLeast DEF ShapeOK
<1>6. marked \subseteq Live
  BY DEF GCInv, MarkingExact
<1>7. QED
  BY <1>5, <1>6

LEMMA StartSweepKeepsInv ==
  ASSUME GCInv, StartSweep PROVE GCInv'
<1>1. /\ phase = "mark" /\ mark_stack = << >> /\ phase' = "sweep" /\ next_sweep' = 0
      /\ stats' = [stats EXCEPT !.marked = Cardinality(marked)]
      /\ UNCHANGED <<vars, roots, next_root, marked, mark_stack, cur, batch, has_more>>
  BY DEF StartSweep
<1>2. /\ Live' = Live /\ Allocated' = Allocated /\ Successors' = Successors
  BY <1>1, SameGraph DEF vars
<1>3. IInv' /\ len' = len /\ len \in 0 .. N
  BY <1>1, StutterKeepsInv, LenBound DEF GCInv, vars, arenaVars
<1>4. Cardinality(marked) \in 0 .. N
  BY MarkedFinite DEF GCInv
<1>5. ShapeOK' /\ IdleClean'
  BY <1>1, <1>4 DEF GCInv, ShapeOK, IdleClean
<1>6. StatsOK'
  BY <1>1, <1>3, <1>4 DEF GCInv, StatsOK, Marking, ShapeOK
<1>7. MarkingExact'
  BY <1>1, <1>2, MarkedIsLive DEF MarkingExact
<1>8. TriColour'
  BY <1>1, <1>2 DEF GCInv, TriColour, OnStack
<1>9. SweepOK'
  BY <1>1 DEF SweepOK, Idx
<1>10. (StackDistinct /\ RootsMarked /\ ScanOK)'
  BY <1>1, <1>2 DEF GCInv, StackDistinct, OnStack, RootsMarked, ScanOK
<1>11. QED
  BY <1>3, <1>5, <1>6, <1>7, <1>8, <1>9, <1>10 DEF GCInv

(* Freeing an unmarked slot during the sweep changes neither the live set  *)
(* nor the slots and successors of its members.                            *)
LEMMA SweepGarbage ==
  ASSUME GCInv, phase = "sweep", NEW g \in Idx, Garbage(g), PushSlot(g), roots' = roots
  PROVE  /\ Live' = Live
         /\ Allocated' = Allocated \ {g}
         /\ \A i \in Idx \ {g} : slots'[i] = slots[i] /\ Successors'[i] = Successors[i]
         /\ Successors'[g] = {} /\ ~IsOccupied(g)'
         /\ IInv' /\ len' = len - 1 /\ g \notin Live
<1>1. SlotsOK /\ IsOccupied(g) /\ g \notin marked /\ marked = Live /\ free_head \in Link
  BY TypeFromInv DEF GCInv, IInv, Garbage, MarkingExact, TypeOK
<1>2. IInv' /\ slots' = [slots EXCEPT ![g] = FreeSlot(free_head)] /\ len' = len - 1
  BY <1>1, PushKeepsInv DEF GCInv, PushSlot
<1>3. /\ \A i \in Idx \ {g} : slots'[i] = slots[i]
      /\ ~IsOccupied(g)'
  BY <1>1, <1>2, MakeSlot DEF SlotsOK, IsOccupied
<1>4. Allocated' = Allocated \ {g}
  BY <1>3 DEF Allocated, IsOccupied
<1>5. /\ \A i \in Idx \ {g} : Successors'[i] = Successors[i]
      /\ Successors'[g] = {}
  BY <1>3 DEF Successors, IsOccupied, ChildrenOf
<1>6. HonouredRoots' = HonouredRoots
  BY <1>1, <1>4, LiveLeast DEF HonouredRoots
<1>7. Live' = Live
  <2>1. Successors' \in [Idx -> SUBSET Idx]
    BY DEF Successors
  <2>2. \A i \in Reachable(Successors, HonouredRoots) : Successors'[i] = Successors[i]
    BY <1>1, <1>5, LiveLeast DEF Live
  <2>3. QED
    BY <1>1, <1>6, <2>1, <2>2, GraphType, ReachLocal DEF Live
<1>8. QED
  BY <1>1, <1>2, <1>3, <1>4, <1>5, <1>7

LEMMA SweepSlotKeepsInv ==
  ASSUME GCInv, SweepSlot PROVE GCInv'
<1>1. /\ phase = "sweep" /\ next_sweep < N /\ next_sweep' = next_sweep + 1
      /\ UNCHANGED <<res, phase, roots, next_root, marked, mark_stack, cur, batch, has_more>>
  BY DEF SweepSlot
<1>2. ShapeOK /\ SlotsOK /\ next_sweep \in Idx
  BY <1>1 DEF GCInv, IInv, ShapeOK, Idx
<1>3. CASE Garbage(next_sweep)
  <2>0. PICK g \in Idx : g = next_sweep
    BY <1>2
  <2>1. Garbage(g) /\ PushSlot(g) /\ stats' = [stats EXCEPT !.collected = @ + 1]
    BY <1>3, <2>0 DEF SweepSlot
  <2>2. /\ Live' = Live
        /\ Allocated' = Allocated \ {g}
        /\ \A i \in Idx \ {g} : slots'[i] = slots[i] /\ Successors'[i] = Successors[i]
        /\ Successors'[g] = {} /\ ~IsOccupied(g)'
        /\ IInv' /\ len' = len - 1 /\ g \notin Live
    BY <1>1, <2>1, SweepGarbage
  <2>3. len \in 0 .. N
    BY LenBound DEF GCInv
  <2>4. ShapeOK' /\ IdleClean'
    BY <1>1, <1>2, <2>1, SMTT(30) DEF ShapeOK, IdleClean
  <2>5. StatsOK'
    BY <1>1, <1>2, <2>1, <2>2, <2>3 DEF GCInv, StatsOK, Marking, ShapeOK
  <2>6. SweepOK'
    <3>1. \A i \in Idx : i < next_sweep + 1 => i < next_sweep \/ i = g
      BY <1>2, <2>0 DEF Idx
    <3>2. \A i \in Idx \ {g} : Garbage(i)' = Garbage(i)
      BY <1>1, <2>2 DEF Garbage, IsOccupied
    <3>3. ~Garbage(g)'
      BY <2>2 DEF Garbage
    <3>4. \A i \in Idx : i < next_sweep + 1 => ~Garbage(i)'
      <4>1. \A i \in Idx : i < next_sweep => ~Garbage(i)
        BY <1>1 DEF GCInv, SweepOK
      <4>2. QED
        BY <3>1, <3>2, <3>3, <4>1
    <3>5. QED
      BY <1>1, <3>4 DEF SweepOK, Garbage
  <2>7. (RootsMarked /\ ScanOK /\ StackDistinct /\ MarkingExact)'
    BY <1>1, <2>2 DEF GCInv, RootsMarked, ScanOK, StackDistinct, OnStack, MarkingExact
  <2>8. TriColour'
    <3>1. \A i \in marked : Successors'[i] = Successors[i] /\ i \in Idx
      BY <1>2, <2>1, <2>2 DEF Garbage, ShapeOK
    <3>2. QED
      BY <1>1, <3>1 DEF GCInv, TriColour, OnStack
  <2>9. QED
    BY <2>2, <2>4, <2>5, <2>6, <2>7, <2>8 DEF GCInv
<1>4. CASE ~Garbage(next_sweep)
  <2>1. UNCHANGED <<arenaVars, stats>>
    BY <1>4 DEF SweepSlot
  <2>2. /\ Live' = Live /\ Allocated' = Allocated /\ Successors' = Successors
        /\ \A i : IsOccupied(i)' = IsOccupied(i)
    BY <1>1, <2>1, SameGraph DEF arenaVars
  <2>3. IInv'
    BY <2>1, StutterKeepsInv DEF GCInv
  <2>4. ShapeOK' /\ IdleClean' /\ StatsOK'
    BY <1>1, <1>2, <2>1 DEF GCInv, ShapeOK, IdleClean, StatsOK, Marking, arenaVars
  <2>5. SweepOK'
    <3>1. \A i \in Idx : i < next_sweep + 1 => i < next_sweep \/ i = next_sweep
      BY <1>2 DEF Idx
    <3>2. \A i \in Idx : i < next_sweep + 1 => ~Garbage(i)
      BY <1>1, <1>4, <3>1 DEF GCInv, SweepOK
    <3>3. QED
      BY <1>1, <2>2, <3>2 DEF SweepOK, Garbage
  <2>6. (RootsMarked /\ ScanOK /\ StackDistinct /\ MarkingExact /\ TriColour)'
    BY <1>1, <2>2 DEF GCInv, RootsMarked, ScanOK, StackDistinct, OnStack, MarkingExact, TriColour
  <2>7. QED
    BY <2>3, <2>4, <2>5, <2>6 DEF GCInv
<1>5. QED
  BY <1>3, <1>4

LEMMA EndCollectKeepsInv ==
  ASSUME GCInv, EndCollect PROVE GCInv'
<1>1. phase' = "idle" /\ ForgetLocals /\ UNCHANGED arenaVars
  BY DEF EndCollect
<1>2. IInv'
  BY <1>1, StutterKeepsInv DEF GCInv
<1>3. IdleClean'
  BY <1>1 DEF IdleClean, ForgetLocals, NoStats
<1>4. ShapeOK'
  <2>1. roots' \in Seq(Handle) /\ mark_stack' \in Seq(Idx) /\ Len(roots') = 0
    BY <1>1 DEF ForgetLocals
  <2>2. stats' \in [marked : 0..N, collected : Nat, total_before : 0..N]
    BY <1>1 DEF ForgetLocals, NoStats
  <2>3. next_root' \in 0 .. Len(roots') /\ cur' \in Handle /\ next_sweep' \in 0 .. N
    BY <1>1, <2>1 DEF ForgetLocals, Handle
  <2>4. QED
    BY <1>1, <2>1, <2>2, <2>3 DEF ShapeOK, ForgetLocals
<1>5. (RootsMarked /\ ScanOK /\ StackDistinct /\ MarkingExact /\ TriColour /\ SweepOK /\ StatsOK)'
  BY <1>1 DEF ForgetLocals, RootsMarked, ScanOK, StackDistinct, OnStack, MarkingExact, TriColour,
              SweepOK, StatsOK, Marking, NoStats
<1>6. QED
  BY <1>2, <1>3, <1>4, <1>5 DEF GCInv

LEMMA GCStutterKeepsInv ==
  ASSUME GCInv, UNCHANGED allVars PROVE GCInv'
<1>1. UNCHANGED <<arenaVars, slots, roots>>
  BY DEF allVars, arenaVars
<1>2. IInv'
  BY <1>1, StutterKeepsInv DEF GCInv
<1>3. /\ Live' = Live /\ Allocated' = Allocated /\ Successors' = Successors
      /\ \A i : IsOccupied(i)' = IsOccupied(i) /\ ChildrenOf(i)' = ChildrenOf(i)
  BY <1>1, SameGraph
<1>4. (IdleClean /\ ShapeOK /\ StatsOK)'
  BY DEF allVars, GCInv, IdleClean, ShapeOK, StatsOK, Marking
<1>5. (RootsMarked /\ ScanOK /\ StackDistinct /\ MarkingExact /\ TriColour /\ SweepOK)'
  BY <1>3 DEF allVars, GCInv, RootsMarked, ScanOK, StackDistinct, OnStack, MarkingExact, TriColour,
              SweepOK, Garbage
<1>6. QED
  BY <1>2, <1>4, <1>5 DEF GCInv

LEMMA GCInvInductive == GCInv /\ [GCNext]_allVars => GCInv'
BY MutateKeepsInv, StartCollectKeepsInv, InitializeRootKeepsInv, StartMarkKeepsInv,
   PopMarkStackKeepsInv, FillBatchKeepsInv, PushChildKeepsInv, EndBatchKeepsInv,
   StartSweepKeepsInv, SweepSlotKeepsInv, EndCollectKeepsInv, GCStutterKeepsInv
   DEF GCNext, CollectStep

LEMMA GCInvHolds == GCSpec => []GCInv
BY InitGCInv, GCInvInductive, PTL DEF GCSpec
-----------------------------------------------------------------------------
(* Every variable of the collector stays in range; in particular the mark  *)
(* stack holds indices of the arena only, and no statistic exceeds the     *)
(* capacity.                                                               *)
THEOREM GCTypeCorrect == GCSpec => []GCTypeOK
<1>1. GCInv => GCTypeOK
  <2> SUFFICES ASSUME GCInv PROVE GCTypeOK
    OBVIOUS
  <2>1. TypeOK /\ len \in 0 .. N /\ ShapeOK
    BY TypeFromInv, LenBound DEF GCInv
  <2>2. stats.collected \in 0 .. N
    <3>1. CASE phase = "idle"
      BY <3>1 DEF GCInv, IdleClean, NoStats
    <3>2. CASE Marking
      BY <3>2 DEF GCInv, StatsOK
    <3>3. CASE phase = "sweep"
      BY <2>1, <3>3 DEF GCInv, StatsOK, ShapeOK
    <3>4. QED
      BY <2>1, <3>1, <3>2, <3>3 DEF ShapeOK, Marking
  <2>3. QED
    BY <2>1, <2>2 DEF GCTypeOK, ShapeOK
<1>2. QED
  BY <1>1, GCInvHolds, PTL

(* No marked object is dropped before its children are marked. *)
THEOREM TriColourHolds == GCSpec => []TriColour
<1>1. GCInv => TriColour
  BY DEF GCInv
<1>2. QED
  BY <1>1, GCInvHolds, PTL

(* Each index is on the mark stack at most once: N entries are enough.     *)
THEOREM StackNeverOverflows == GCSpec => []StackDistinct
<1>1. GCInv => StackDistinct
  BY DEF GCInv
<1>2. QED
  BY <1>1, GCInvHolds, PTL

(* The mark phase marks exactly the objects reachable from the roots.      *)
THEOREM MarkingCorrect == GCSpec => []MarkingExact
<1>1. GCInv => MarkingExact
  BY DEF GCInv
<1>2. QED
  BY <1>1, GCInvHolds, PTL

(* The sweep pushes freed slots on the free list without damaging it.      *)
THEOREM FreeListSurvivesGC == GCSpec => []FreeListIntact
<1>1. GCInv => FreeListIntact
  BY DEF GCInv, IInv
<1>2. QED
  BY <1>1, GCInvHolds, PTL

(* The sweep changes no live object and leaves no other one behind. *)
THEOREM SweepCorrect == GCSpec => SweepExact
<1>1. ASSUME GCInv, [GCNext]_allVars, phase = "sweep"
      PROVE  /\ \A i \in Allocated \cap Live : slots'[i] = slots[i]
             /\ phase' = "idle" => Allocated \subseteq Live
  <2>1. SweepSlot \/ EndCollect \/ UNCHANGED allVars
    BY <1>1 DEF GCNext, CollectStep, Mutate, StartCollect, InitializeRoot, StartMark, PopMarkStack,
                FillBatch, PushChild, EndBatch, StartSweep
  <2>2. marked = Live /\ SlotsOK /\ ShapeOK
    BY <1>1 DEF GCInv, IInv, MarkingExact
  <2>3. \A i \in Allocated \cap Live : slots'[i] = slots[i]
    <3>1. CASE SweepSlot
      <4>1. CASE Garbage(next_sweep)
        <5>1. slots' = [slots EXCEPT ![next_sweep] = FreeSlot(free_head)] /\ next_sweep \notin Live
          BY <2>2, <3>1, <4>1 DEF SweepSlot, PushSlot, Garbage
        <5>2. QED
          BY <2>2, <5>1 DEF SlotsOK, Allocated
      <4>2. CASE ~Garbage(next_sweep)
        BY <3>1, <4>2 DEF SweepSlot, arenaVars
      <4>3. QED
        BY <4>1, <4>2
    <3>2. CASE EndCollect \/ UNCHANGED allVars
      BY <3>2 DEF EndCollect, arenaVars, allVars
    <3>3. QED
      BY <2>1, <3>1, <3>2
  <2>4. phase' = "idle" => Allocated \subseteq Live
    <3>1. phase' = "idle" => next_sweep = N
      BY <1>1, <2>1 DEF SweepSlot, EndCollect, allVars
    <3>2. next_sweep = N => \A i \in Idx : ~Garbage(i)
      BY <1>1 DEF GCInv, SweepOK, Idx
    <3>3. QED
      BY <2>2, <3>1, <3>2 DEF Garbage, Allocated
  <2>5. QED
    BY <2>3, <2>4
<1>2. QED
  BY <1>1, GCInvHolds, PTL DEF GCSpec, SweepExact
-----------------------------------------------------------------------------
(* Refinement: outside the sweep the map is the arena's own.               *)
LEMMA HeapIsStore ==
  ASSUME phase # "sweep"
  PROVE  AbsHeap = AbsStore /\ AbsResult = res
BY DEF AbsHeap, AbsStore, AbsResult

LEMMA HeapDefs ==
  /\ Heap!Idx = Idx /\ Heap!Handle = Handle
  /\ \A op, x : Heap!Ok(op, x) = Ok(op, x) /\ Heap!Err(op, x) = Err(op, x)
  /\ \A i : Heap!IndexError(i) = Store!IndexError(i)
  /\ \A f, R : Heap!Reachable(f, R) = Reachable(f, R)
  /\ \A S : Heap!Cardinality(S) = Cardinality(S)
BY DEF Heap!Cardinality, Cardinality, Heap!IsFiniteSet, IsFiniteSet, Heap!Idx, Idx, Heap!Handle, Handle, Heap!Ok, Ok, Heap!Err, Err, Heap!IndexError,
       Store!IndexError, Store!Idx, Heap!Reachable, Reachable, Heap!ClosedIn, ClosedIn

LEMMA HeapCallIsStoreCall ==
  ASSUME phase # "sweep", phase' # "sweep"
  PROVE  /\ \A v \in Value : Store!Alloc(v) => Heap!Alloc(v)
         /\ \A i \in Handle : Store!Free(i) => Heap!Free(i)
         /\ \A i \in Handle, v \in Value : Store!Set(i, v) => Heap!Set(i, v)
<1>1. AbsHeap = AbsStore /\ AbsResult = res
  BY HeapIsStore
<1>2. (phase # "sweep")' => (AbsHeap = AbsStore /\ AbsResult = res)'
  BY HeapIsStore, PTL
<1>3. AbsHeap' = AbsStore' /\ AbsResult' = res'
  BY <1>2
<1>4. Heap!Allocated = Store!Allocated
  BY <1>1 DEF Heap!Allocated, Store!Allocated
<1>5. \A v \in Value : Store!Alloc(v) => Heap!Alloc(v)
  BY <1>1, <1>3, <1>4 DEF Store!Alloc, Heap!Alloc, Store!Idx, Heap!Idx, Store!Ok, Heap!Ok,
                          Store!Err, Heap!Err
<1>6. \A i \in Handle : Store!Free(i) => Heap!Free(i)
  BY <1>1, <1>3, <1>4 DEF Store!Free, Heap!Free, Store!OnIndex, Heap!OnIndex, Store!Ok, Heap!Ok,
                          Store!Err, Heap!Err, Store!IndexError, Heap!IndexError, Store!Idx, Heap!Idx
<1>7. \A i \in Handle, v \in Value : Store!Set(i, v) => Heap!Set(i, v)
  BY <1>1, <1>3, <1>4 DEF Store!Set, Heap!Set, Store!OnIndex, Heap!OnIndex, Store!Ok, Heap!Ok,
                          Store!Err, Heap!Err, Store!IndexError, Heap!IndexError, Store!Idx, Heap!Idx
<1>8. QED
  BY <1>5, <1>6, <1>7

LEMMA MutateRefines ==
  ASSUME GCInv, Mutate
  PROVE  Heap!HeapNext
<1>1. IInv /\ phase # "sweep" /\ phase' # "sweep"
  BY DEF GCInv, Mutate, gcVars
<1>2. ASSUME NEW v \in Value, Alloc(v) PROVE Heap!HeapNext
  <2>1. Store!Alloc(v)
    BY <1>1, <1>2, AllocRefines
  <2>2. QED
    BY <1>1, <2>1, HeapCallIsStoreCall DEF Heap!HeapNext, Heap!Next
<1>3. ASSUME NEW i \in Handle, Free(i) PROVE Heap!HeapNext
  <2>1. Store!Free(i)
    BY <1>1, <1>3, FreeRefines
  <2>2. Heap!Free(i)
    BY <1>1, <2>1, HeapCallIsStoreCall
  <2>3. QED
    BY <2>2, HeapDefs DEF Heap!HeapNext, Heap!Next
<1>4. ASSUME NEW i \in Handle, NEW v \in Value, Set(i, v) PROVE Heap!HeapNext
  <2>1. Store!Set(i, v)
    BY <1>1, <1>4, OverwriteRefines DEF Set, Store!Set
  <2>2. Heap!Set(i, v)
    BY <1>1, <2>1, HeapCallIsStoreCall
  <2>3. QED
    BY <2>2, HeapDefs DEF Heap!HeapNext, Heap!Next
<1>5. QED
  BY <1>2, <1>3, <1>4 DEF Mutate

(* A step of the marking phases is invisible. *)
LEMMA MarkStepStutters ==
  ASSUME UNCHANGED vars, phase # "sweep", phase' # "sweep"
  PROVE  UNCHANGED Heap!storeVars
<1>1. AbsHeap = AbsStore /\ AbsResult = res
  BY HeapIsStore
<1>2. (phase # "sweep")' => (AbsHeap = AbsStore /\ AbsResult = res)'
  BY HeapIsStore, PTL
<1>3. AbsStore' = AbsStore /\ res' = res
  BY SameSlots DEF vars
<1>4. QED
  BY <1>1, <1>2, <1>3 DEF Heap!storeVars

LEMMA DoomedFinite ==
  /\ IsFiniteSet(Doomed) /\ Cardinality(Doomed) \in Nat
<1>1. IsFiniteSet(Idx)
  BY FS_Interval DEF Idx
<1>2. QED
  BY <1>1, FS_Subset, FS_CardinalityType DEF Doomed

(* The end of the mark phase is where the collection takes effect. *)
LEMMA StartSweepRefines ==
  ASSUME GCInv, StartSweep
  PROVE  Heap!HeapNext
<1> DEFINE R == {roots[k] : k \in DOMAIN roots}
<1>1. /\ phase = "mark" /\ phase' = "sweep" /\ mark_stack = << >>
      /\ stats' = [stats EXCEPT !.marked = Cardinality(marked)]
      /\ UNCHANGED <<slots, res, marked, roots>>
  BY DEF StartSweep, vars
<1>2. SlotsOK /\ ShapeOK /\ marked = Live
  BY <1>1, MarkedIsLive DEF GCInv, IInv
<1>3. AbsHeap = AbsStore /\ Heap!Allocated = Allocated
  BY <1>1, HeapIsStore DEF Heap!Allocated, AbsStore
<1>4. Heap!Successors = Successors
  <2>1. \A i \in Allocated : AbsHeap[i] = slots[i].value
    BY <1>3 DEF AbsStore
  <2>2. QED
    BY <1>3, <2>1, HeapDefs DEF Heap!Successors, Successors, Allocated, ChildrenOf
<1>5. Heap!Reachable(Heap!Successors, R \cap Heap!Allocated) = Live
  BY <1>3, <1>4, HeapDefs DEF Live, HonouredRoots
<1>6. Doomed' = Allocated \ Live /\ Allocated' = Allocated
  BY <1>1, <1>2 DEF Doomed, Garbage, Allocated, IsOccupied
<1>7. AbsHeap' = [i \in Allocated \cap Live |-> AbsHeap[i]]
  BY <1>1, <1>3, <1>6 DEF AbsHeap, AbsStore
<1>8. AbsResult' = Ok("collect_garbage", <<Cardinality(Live), Cardinality(Allocated \ Live),
                                           Cardinality(Allocated)>>)
  <2>1. stats.collected = 0 /\ stats.total_before = len
    BY <1>1 DEF GCInv, StatsOK, Marking
  <2>2. stats'.marked = Cardinality(Live) /\ stats'.collected = 0 /\ stats'.total_before = len
    BY <1>1, <1>2, <2>1 DEF ShapeOK
  <2>3. len = Cardinality(Allocated)
    BY DEF GCInv, IInv, LenIsExact
  <2>4. stats'.collected + Cardinality(Doomed)' = Cardinality(Doomed)'
    <3>1. (IsFiniteSet(Doomed) /\ Cardinality(Doomed) \in Nat)'
      BY DoomedFinite, PTL
    <3>2. QED
      BY <2>2, <3>1
  <2>5. Cardinality(Doomed)' = Cardinality(Allocated \ Live)
    BY <1>6
  <2>6. QED
    BY <1>1, <2>2, <2>3, <2>4, <2>5 DEF AbsResult, Ok
<1>9. R \in SUBSET Handle
  BY <1>2 DEF ShapeOK
<1>10. Heap!Collect(R)
  BY <1>3, <1>5, <1>7, <1>8, HeapDefs DEF Heap!Collect
<1>11. QED
  BY <1>9, <1>10, HeapDefs DEF Heap!HeapNext

(* Freeing a doomed slot was accounted for when the sweep began. *)
LEMMA SweepSlotStutters ==
  ASSUME GCInv, SweepSlot
  PROVE  UNCHANGED Heap!storeVars
<1>1. phase = "sweep" /\ phase' = "sweep" /\ UNCHANGED <<res, marked, roots>>
  BY DEF SweepSlot
<1>2. ShapeOK /\ next_sweep \in Idx
  BY DEF GCInv, ShapeOK, SweepSlot, Idx
<1>3. CASE Garbage(next_sweep)
  <2>0. PICK g \in Idx : g = next_sweep
    BY <1>2
  <2>1. Garbage(g) /\ PushSlot(g) /\ stats' = [stats EXCEPT !.collected = @ + 1]
    BY <1>3, <2>0 DEF SweepSlot
  <2>2. /\ Allocated' = Allocated \ {g}
        /\ \A i \in Idx \ {g} : slots'[i] = slots[i]
        /\ ~IsOccupied(g)'
    BY <1>1, <2>1, SweepGarbage
  <2>3. Doomed' = Doomed \ {g} /\ g \in Doomed
    BY <1>1, <2>1, <2>2 DEF Doomed, Garbage, IsOccupied
  <2>4. Allocated' \ Doomed' = Allocated \ Doomed
    BY <2>2, <2>3
  <2>5. AbsHeap' = AbsHeap
    BY <1>1, <2>2, <2>3, <2>4 DEF AbsHeap, Allocated
  <2>6. Cardinality(Doomed') = Cardinality(Doomed) - 1
    BY <2>3, DoomedFinite, FS_RemoveElement
  <2>7. stats'.collected = stats.collected + 1 /\ stats'.marked = stats.marked
        /\ stats'.total_before = stats.total_before /\ stats.collected \in Nat
    BY <1>2, <2>1 DEF ShapeOK
  <2>8. stats'.collected + Cardinality(Doomed') = stats.collected + Cardinality(Doomed)
    BY <2>6, <2>7, DoomedFinite
  <2>9. AbsResult' = AbsResult
    BY <1>1, <2>7, <2>8 DEF AbsResult, Ok
  <2>10. QED
    BY <2>5, <2>9 DEF Heap!storeVars
<1>4. CASE ~Garbage(next_sweep)
  <2>1. UNCHANGED <<slots, stats>>
    BY <1>4 DEF SweepSlot, arenaVars
  <2>2. Doomed' = Doomed /\ Allocated' = Allocated
    BY <1>1, <2>1 DEF Doomed, Garbage, Allocated, IsOccupied
  <2>3. QED
    BY <1>1, <2>1, <2>2 DEF AbsHeap, AbsResult, Ok, Heap!storeVars
<1>5. QED
  BY <1>3, <1>4

LEMMA EndCollectStutters ==
  ASSUME GCInv, EndCollect
  PROVE  UNCHANGED Heap!storeVars
<1>1. /\ phase = "sweep" /\ phase' = "idle" /\ next_sweep = N /\ UNCHANGED slots
      /\ res' = Ok("collect_garbage", <<stats.marked, stats.collected, stats.total_before>>)
  BY DEF EndCollect, arenaVars
<1>2. Doomed = {}
  BY <1>1 DEF GCInv, SweepOK, Doomed, Idx
<1>3. AbsHeap' = AbsHeap
  BY <1>1, <1>2 DEF AbsHeap, Allocated, IsOccupied
<1>4. stats.collected + Cardinality(Doomed) = stats.collected
  BY <1>2, FS_EmptySet DEF GCInv, ShapeOK
<1>5. AbsResult' = AbsResult
  BY <1>1, <1>4 DEF AbsResult
<1>6. QED
  BY <1>3, <1>5 DEF Heap!storeVars

LEMMA GCStepRefines ==
  ASSUME GCInv, [GCNext]_allVars
  PROVE  [Heap!HeapNext]_(Heap!storeVars)
<1>1. CASE \/ StartCollect \/ InitializeRoot \/ StartMark \/ PopMarkStack \/ FillBatch
           \/ PushChild \/ EndBatch
  <2>1. UNCHANGED vars /\ phase # "sweep" /\ phase' # "sweep"
    BY <1>1 DEF StartCollect, InitializeRoot, StartMark, PopMarkStack, FillBatch, PushChild, EndBatch
  <2>2. QED
    BY <2>1, MarkStepStutters
<1>2. CASE UNCHANGED allVars
  <2>1. Doomed' = Doomed /\ Allocated' = Allocated
    BY <1>2 DEF allVars, Doomed, Garbage, Allocated, IsOccupied
  <2>2. QED
    BY <1>2, <2>1 DEF allVars, AbsHeap, AbsResult, Ok, Heap!storeVars
<1>3. QED
  BY <1>1, <1>2, MutateRefines, StartSweepRefines, SweepSlotStutters, EndCollectStutters
     DEF GCNext, CollectStep

(* A collection behaves as one atomic Collect: it frees exactly what no    *)
(* allocated root reaches, keeps every other value, and reports the true   *)
(* counts, interleaved with any calls of the arena.                        *)
THEOREM GCImplementsHeap == GCSpec => ImplementsHeap
<1>1. GCInit => Heap!Init
  <2> SUFFICES ASSUME GCInit PROVE Heap!Init
    OBVIOUS
  <2>1. AbsHeap = AbsStore /\ AbsResult = res
    BY HeapIsStore DEF GCInit
  <2>2. AbsStore = [i \in {} |-> {}] /\ res = Ok("new", "unit")
    BY FreshIsEmpty DEF GCInit, Init
  <2>3. QED
    BY <2>1, <2>2, HeapDefs DEF Heap!Init
<1>2. QED
  BY <1>1, GCInvHolds, GCStepRefines, PTL DEF GCSpec, Heap!HeapSpec, ImplementsHeap
=============================================================================
