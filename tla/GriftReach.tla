---------------------------- MODULE GriftReach ----------------------------
(* Reachability in a directed graph given as a function from each node to  *)
(* the set of its successors: the least set that holds the roots and is    *)
(* closed under successors.                                                *)
LOCAL INSTANCE Integers

ClosedIn(succ, S) == \A i \in S : succ[i] \subseteq S

Reachable(succ, roots) ==
  {i \in DOMAIN succ : \A S \in SUBSET DOMAIN succ :
                          roots \subseteq S /\ ClosedIn(succ, S) => i \in S}
=============================================================================
