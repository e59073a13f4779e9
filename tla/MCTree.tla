------------------------------ MODULE MCTree ------------------------------
(* GriftTree over N slots with a leaf and two branches, one of which can   *)
(* be put above the other.  Put into other slots the two share children,   *)
(* dangle, lead to themselves or to each other.                            *)
EXTENDS GriftTree

MCPayload == {1}
MCValue   == {Leaf(n) : n \in MCPayload} \cup {Branch(l, r) : l, r \in Handle}
MCWritten == {Leaf(1), Branch(0, 1), Branch(2, 4)}
Unobserved == <<arenaVars, treeVars>>   \* no action reads res
=============================================================================
