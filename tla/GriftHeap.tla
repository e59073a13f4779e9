---------------------------- MODULE GriftHeap -----------------------------
(***************************************************************************)
(* What an arena with a garbage collector promises: the partial map of     *)
(* GriftStore plus one atomic call, Collect, that keeps exactly the        *)
(* allocated indices reachable from the allocated roots, leaves their      *)
(* values alone, and reports how many indices it marked, freed and found.  *)
(***************************************************************************)
EXTENDS GriftStore, GriftReach, FiniteSets, Sequences

CONSTANT Children   \* [Value -> Seq(Nat)]: the raw indices trace() yields

(* The object graph.  An index past the end is no node; an unallocated one *)
(* is a node without successors.                                           *)
Successors == [i \in Idx |->
  IF i \in Allocated
  THEN {Children[store[i]][k] : k \in DOMAIN Children[store[i]]} \cap Idx
  ELSE {}]

Collect(roots) ==
  LET live == Reachable(Successors, roots \cap Allocated)
  IN  /\ store' = [i \in Allocated \cap live |-> store[i]]
      /\ res' = Ok("collect_garbage", <<Cardinality(live), Cardinality(Allocated \ live),
                                        Cardinality(Allocated)>>)

HeapNext == Next \/ \E roots \in SUBSET Handle : Collect(roots)

HeapSpec == Init /\ [][HeapNext]_storeVars
=============================================================================
