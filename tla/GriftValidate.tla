--------------------------- MODULE GriftValidate --------------------------
(***************************************************************************)
(* Arena::validate, the debugging aid that tests rely on: a count of the   *)
(* occupied slots and a walk along the free list, over any contents of the *)
(* arena's three fields, those no sequence of calls can produce included.  *)
(***************************************************************************)
EXTENDS GriftArena

(* A turn of the loop at slot current, with what it has passed marked as   *)
(* visited.  A walk that has come to the end or given up stays as it is.   *)
PassUnchecked(s, w) ==   \* mutant: a cycle is taken for the end
  IF w.current = FREE_LIST_END \/ w.failed \/ w.current \in w.visited THEN w
  ELSE IF w.current >= N \/ s[w.current].kind # "Free" THEN [w EXCEPT !.failed = TRUE]
  ELSE [w EXCEPT !.current = s[w.current].next_free, !.visited = @ \cup {w.current}]

Pass(s, w) ==
  IF w.current = FREE_LIST_END \/ w.failed THEN w
  ELSE IF w.current >= N \/ w.current \in w.visited \/ s[w.current].kind # "Free"
       THEN [w EXCEPT !.failed = TRUE]
  ELSE [w EXCEPT !.current = s[w.current].next_free, !.visited = @ \cup {w.current}]

(* All the turns: each but the last marks one more of the N slots. *)
Walk(s, head) ==
  LET after[n \in 0 .. N+1] == IF n = 0 THEN [current |-> head, visited |-> {}, failed |-> FALSE]
                               ELSE Pass(s, after[n-1])
  IN  after[N+1]

Validate(s, head, count) ==
  LET occupied == {i \in Idx : s[i].kind = "Occupied"}
      walk     == Walk(s, head)
  IN  /\ Cardinality(occupied) = count
      /\ ~walk.failed
      /\ Cardinality(walk.visited) + Cardinality(occupied) = N
      /\ \A i \in Idx \ occupied : i \in walk.visited
-----------------------------------------------------------------------------
(* Consistency, for any contents of the fields: FreeListIntact, LenIsExact. *)
Consistent(s, head, count) ==
  LET free == {i \in Idx : s[i].kind = "Free"}
      k    == Cardinality(free)
  IN  /\ count = N - k
      /\ \E list \in [1..k -> free] :
           /\ \A m, n \in 1..k : list[m] = list[n] => m = n
           /\ head = IF k = 0 THEN FREE_LIST_END ELSE list[1]
           /\ \A n \in 1..k :
                s[list[n]].next_free = IF n = k THEN FREE_LIST_END ELSE list[n+1]

(* validate() accepts the arena whatever calls were made, and is the test  *)
(* of consistency it is meant to be: with any one slot, the head and the   *)
(* count changed at will, cycles, links out of range and links to occupied *)
(* slots among the outcomes, it answers true only if nothing is wrong.     *)
ValidateExact ==
  /\ Validate(slots, free_head, len)
  /\ \A i \in Idx, x \in Handle \cup {FREE_LIST_END}, head \in Handle \cup {FREE_LIST_END} :
       \A count \in {len, len - 1} :
         LET s == [slots EXCEPT ![i] = FreeSlot(x)]
         IN  Validate(s, head, count) <=> Consistent(s, head, count)
=============================================================================
