----------------------------- MODULE GriftGC ------------------------------
(***************************************************************************)
(* The mark-and-sweep collector of grift_arena over the slots of           *)
(* GriftArena.  The program is single-threaded: arena calls happen only    *)
(* while no collection runs.  A collection is taken apart into the steps   *)
(* of its loops: one per root, per object popped off the mark stack, per   *)
(* batch of children, per child pushed and per slot swept, so that the     *)
(* invariants of its inner states can be stated.                           *)
(***************************************************************************)
EXTENDS GriftArena, GriftReach, Sequences

CONSTANTS Children,   \* [Value -> Seq(Nat)]: the raw indices trace() yields
          BATCH,      \* children fetched per pass over an object (16)
          MaxRoots    \* bound on the length of a root list

ASSUME GCAssumption ==
  /\ Children \in [Value -> Seq(Nat)]
  /\ BATCH \in Nat \ {0}
  /\ MaxRoots \in Nat

VARIABLES phase,         \* where the collection stands; "idle" between calls
          roots,         \* the root sets of the call, concatenated
          next_root,     \* roots examined so far
          marked,        \* the mark bitmap
          mark_stack,    \* indices marked but not yet scanned
          cur,           \* object being scanned
          batch,         \* positions in its child list still to be pushed
          has_more,      \* the batch left unmarked children out
          next_sweep,    \* slots swept so far
          stats          \* GcStats

gcVars  == <<phase, roots, next_root, marked, mark_stack, cur, batch, has_more,
             next_sweep, stats>>
allVars == <<slots, free_head, len, res, phase, roots, next_root, marked, mark_stack,
             cur, batch, has_more, next_sweep, stats>>

NoStats == [marked |-> 0, collected |-> 0, total_before |-> 0]

GCInit == /\ Init
          /\ phase = "idle"
          /\ roots = << >> /\ next_root = 0
          /\ marked = {} /\ mark_stack = << >>
          /\ cur = 0 /\ batch = {} /\ has_more = FALSE
          /\ next_sweep = 0
          /\ stats = NoStats
-----------------------------------------------------------------------------
(* The calls between collections: those that shape the object graph. The   *)
(* others reach no slot contents that these do not.                        *)
Mutate == /\ phase = "idle"
          /\ \/ \E v \in Value : Alloc(v)
             \/ \E i \in Handle : \/ Free(i)
                                  \/ \E v \in Value : Set(i, v)
          /\ UNCHANGED gcVars

RootLists == UNION {[1..k -> Handle] : k \in 0..MaxRoots}

(* collect_garbage(_multi): the bitmap and the stack start out empty. *)
StartCollect ==
  /\ phase = "idle"
  /\ phase' = "roots"
  /\ roots' \in RootLists
  /\ UNCHANGED <<vars, next_root, marked, mark_stack, cur, batch, has_more, next_sweep, stats>>

(* Mark an index and push it, unless it is marked; the push is dropped     *)
(* silently when the stack is full.                                        *)
PushUnchecked(i) ==  \* mutant: no second look at the bitmap before the push
  /\ marked' = marked \cup {i}
  /\ mark_stack' = IF Len(mark_stack) < N THEN Append(mark_stack, i) ELSE mark_stack

MarkAndPush(i) ==
  IF i \in marked
  THEN UNCHANGED <<marked, mark_stack>>
  ELSE /\ marked' = marked \cup {i}
       /\ mark_stack' = IF Len(mark_stack) < N THEN Append(mark_stack, i) ELSE mark_stack

(* initialize_roots: a root that is out of range or not allocated is       *)
(* ignored.                                                                *)
MarkAnyRoot ==       \* mutant: the roots are not validated
  /\ phase = "roots"
  /\ next_root < Len(roots)
  /\ next_root' = next_root + 1
  /\ MarkAndPush(roots[next_root + 1])
  /\ UNCHANGED <<vars, phase, roots, cur, batch, has_more, next_sweep, stats>>

MarkRootInBounds ==  \* mutant: only the bounds of a root are checked
  /\ phase = "roots"
  /\ next_root < Len(roots)
  /\ next_root' = next_root + 1
  /\ IF roots[next_root + 1] < N
     THEN MarkAndPush(roots[next_root + 1])
     ELSE UNCHANGED <<marked, mark_stack>>
  /\ UNCHANGED <<vars, phase, roots, cur, batch, has_more, next_sweep, stats>>

InitializeRoot ==
  /\ phase = "roots"
  /\ next_root < Len(roots)
  /\ next_root' = next_root + 1
  /\ IF ValidIndex(roots[next_root + 1])
     THEN MarkAndPush(roots[next_root + 1])
     ELSE UNCHANGED <<marked, mark_stack>>
  /\ UNCHANGED <<vars, phase, roots, cur, batch, has_more, next_sweep, stats>>

StartMark ==
  /\ phase = "roots"
  /\ next_root = Len(roots)
  /\ phase' = "mark"
  /\ stats' = [stats EXCEPT !.total_before = len]
  /\ UNCHANGED <<vars, roots, next_root, marked, mark_stack, cur, batch, has_more, next_sweep>>

(* process_mark_stack: pop; an index whose slot is free (a child that      *)
(* dangles) has nothing to scan.                                           *)
PopMarkStack ==
  LET top == mark_stack[Len(mark_stack)] IN
  /\ phase = "mark"
  /\ mark_stack # << >>
  /\ mark_stack' = SubSeq(mark_stack, 1, Len(mark_stack) - 1)
  /\ IF IsOccupied(top)
     THEN phase' = "scan" /\ cur' = top
     ELSE UNCHANGED <<phase, cur>>
  /\ UNCHANGED <<vars, roots, next_root, marked, batch, has_more, next_sweep, stats>>

ChildrenOf(i) == Children[slots[i].value]

(* Positions of the child list that the tracer would batch: in range and   *)
(* not marked; a child listed twice counts twice.                          *)
AnyInRange ==        \* mutant: the tracer does not look at the bitmap
  {k \in DOMAIN ChildrenOf(cur) : ChildrenOf(cur)[k] \in Idx}

Unmarked == {k \in DOMAIN ChildrenOf(cur) : ChildrenOf(cur)[k] \in Idx \ marked}

(* One pass of the tracer fills a batch with the first BATCH of them. *)
FillBatch ==
  /\ phase = "scan"
  /\ phase' = IF Unmarked = {} THEN "mark" ELSE "push"
  /\ batch' = {k \in Unmarked : Cardinality({j \in Unmarked : j < k}) < BATCH}
  /\ has_more' = (batch' # Unmarked)
  /\ UNCHANGED <<vars, roots, next_root, marked, mark_stack, cur, next_sweep, stats>>

(* The batch is marked and pushed in the order of the child list. *)
PushChild ==
  /\ phase = "push"
  /\ \E k \in batch :
       /\ \A j \in batch : k <= j
       /\ batch' = batch \ {k}
       /\ MarkAndPush(ChildrenOf(cur)[k])
  /\ UNCHANGED <<vars, phase, roots, next_root, cur, has_more, next_sweep, stats>>

(* Another pass over the same object if the batch left children out. *)
EndBatchAlways ==    \* mutant: children beyond the first batch are lost
  /\ phase = "push"
  /\ batch = {}
  /\ phase' = "mark"
  /\ UNCHANGED <<vars, roots, next_root, marked, mark_stack, cur, batch, has_more,
                 next_sweep, stats>>

EndBatch ==
  /\ phase = "push"
  /\ batch = {}
  /\ phase' = IF has_more THEN "scan" ELSE "mark"
  /\ UNCHANGED <<vars, roots, next_root, marked, mark_stack, cur, batch, has_more,
                 next_sweep, stats>>

StartSweepEarly ==   \* mutant: the loop stops with one entry on the stack
  /\ phase = "mark"
  /\ Len(mark_stack) <= 1
  /\ phase' = "sweep"
  /\ next_sweep' = 0
  /\ stats' = [stats EXCEPT !.marked = Cardinality(marked)]
  /\ UNCHANGED <<vars, roots, next_root, marked, mark_stack, cur, batch, has_more>>

StartSweep ==
  /\ phase = "mark"
  /\ mark_stack = << >>
  /\ phase' = "sweep"
  /\ next_sweep' = 0
  /\ stats' = [stats EXCEPT !.marked = Cardinality(marked)]
  /\ UNCHANGED <<vars, roots, next_root, marked, mark_stack, cur, batch, has_more>>

(* sweep_unmarked: free each occupied slot that is not marked. *)

Garbage(i) == i \notin marked /\ IsOccupied(i)

SweepSlot ==
  /\ phase = "sweep"
  /\ next_sweep < N
  /\ next_sweep' = next_sweep + 1
  /\ IF Garbage(next_sweep)
     THEN /\ PushSlot(next_sweep)
          /\ stats' = [stats EXCEPT !.collected = @ + 1]
     ELSE UNCHANGED <<arenaVars, stats>>
  /\ UNCHANGED <<res, phase, roots, next_root, marked, mark_stack, cur, batch, has_more>>

(* Everything but the arena is local to the call. *)
ForgetLocals == /\ roots' = << >> /\ next_root' = 0
                /\ marked' = {} /\ mark_stack' = << >>
                /\ cur' = 0 /\ batch' = {} /\ has_more' = FALSE
                /\ next_sweep' = 0
                /\ stats' = NoStats

EndCollectEarly ==   \* mutant: the last slot is not swept
  /\ phase = "sweep"
  /\ next_sweep = N - 1
  /\ phase' = "idle"
  /\ res' = Ok("collect_garbage", <<stats.marked, stats.collected, stats.total_before>>)
  /\ ForgetLocals
  /\ UNCHANGED arenaVars

EndCollect ==
  /\ phase = "sweep"
  /\ next_sweep = N
  /\ phase' = "idle"
  /\ res' = Ok("collect_garbage", <<stats.marked, stats.collected, stats.total_before>>)
  /\ ForgetLocals
  /\ UNCHANGED arenaVars

CollectStep == \/ InitializeRoot \/ StartMark
               \/ PopMarkStack \/ FillBatch \/ PushChild \/ EndBatch
               \/ StartSweep \/ SweepSlot \/ EndCollect

GCNext == Mutate \/ StartCollect \/ CollectStep

GCSpec == GCInit /\ [][GCNext]_allVars

(* A collection is a loop of the calling thread: once started, it runs on. *)
FairGCSpec == GCSpec /\ WF_allVars(CollectStep)
-----------------------------------------------------------------------------
GCTypeOK ==
  /\ TypeOK
  /\ phase \in {"idle", "roots", "mark", "scan", "push", "sweep"}
  /\ roots \in Seq(Handle) /\ next_root \in 0 .. Len(roots)
  /\ marked \in SUBSET Idx /\ mark_stack \in Seq(Idx)
  /\ cur \in Handle /\ batch \in SUBSET Nat /\ has_more \in BOOLEAN
  /\ next_sweep \in 0 .. N
  /\ stats \in [marked : 0..N, collected : 0..N, total_before : 0..N]

(* The object graph and the roots the collector honours. *)
Successors == [i \in Idx |->
  IF IsOccupied(i)
  THEN {ChildrenOf(i)[k] : k \in DOMAIN ChildrenOf(i)} \cap Idx
  ELSE {}]
HonouredRoots == {roots[k] : k \in DOMAIN roots} \cap Allocated
Live == Reachable(Successors, HonouredRoots)

OnStack == {mark_stack[k] : k \in DOMAIN mark_stack}

(* No marked object is forgotten before its children are: an object that   *)
(* is marked is on the stack, or being scanned, or all its children are    *)
(* marked.  A push dropped on a full stack, or a batch that loses its      *)
(* leftover children, breaks this.                                         *)
TriColour ==
  phase # "idle" =>
    \A i \in marked : \/ i \in OnStack
                      \/ phase \in {"scan", "push"} /\ i = cur
                      \/ Successors[i] \subseteq marked

(* The mark stack holds each marked index at most once, which is why N     *)
(* entries are enough and MarkAndPush never drops one.                     *)
StackDistinct ==
  /\ \A j, k \in DOMAIN mark_stack : mark_stack[j] = mark_stack[k] => j = k
  /\ OnStack \subseteq marked

(* Marking is exact: it reaches the live objects, all of them, and none    *)
(* besides; and the sweep keeps it so.                                     *)
MarkingExact == /\ phase \in {"roots", "mark", "scan", "push"} => marked \subseteq Live
                /\ phase = "sweep" => marked = Live

(* The sweep leaves every live object as it was, and when the collection   *)
(* is over no object but the live ones is left.                            *)
SweepExact ==
  [][phase = "sweep" =>
       /\ \A i \in Allocated \cap Live : slots'[i] = slots[i]
       /\ phase' = "idle" => Allocated \subseteq Live]_allVars

(* The collector and the arena calls implement the heap of GriftHeap. The  *)
(* collection takes effect at the end of the mark phase: from then on the  *)
(* map holds the marked objects only, and the statistics count what is     *)
(* still to be swept.                                                      *)
Doomed    == {i \in Idx : Garbage(i)}
AbsHeap   == [i \in (IF phase = "sweep" THEN Allocated \ Doomed ELSE Allocated)
                |-> slots[i].value]
AbsResult == IF phase = "sweep"
             THEN Ok("collect_garbage", <<stats.marked, stats.collected + Cardinality(Doomed),
                                          stats.total_before>>)
             ELSE res
Heap == INSTANCE GriftHeap WITH store <- AbsHeap, res <- AbsResult
ImplementsHeap == Heap!HeapSpec

(* GcStats::survival_ratio, marked / total_before, is documented to lie    *)
(* between 0.0 and 1.0.                                                    *)
SurvivalRatioInRange ==
  res[1] = "collect_garbage" => res[3][1] <= res[3][3]

(* A collection comes to an end, cyclic object graphs and objects with     *)
(* more children than a batch holds included.                              *)
CollectTerminates == phase # "idle" ~> phase = "idle"
=============================================================================
