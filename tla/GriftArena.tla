---------------------------- MODULE GriftArena ----------------------------
(***************************************************************************)
(* grift_arena::Arena<T, N>: an array of N slots, each occupied by a value *)
(* or free and linked to the next free slot; a LIFO free list through the  *)
(* free slots; and the count of occupied slots.  One action per call.      *)
(* Every call validates the index first and fails without side effects.    *)
(***************************************************************************)
EXTENDS Integers, FiniteSets

CONSTANTS N,              \* capacity (the const generic of Arena)
          Value,          \* values of the element type T
          FREE_LIST_END   \* usize::MAX, the end-of-list marker

ASSUME ArenaAssumption ==
  /\ N \in Nat
  /\ FREE_LIST_END \in Nat
  /\ FREE_LIST_END >= N

VARIABLES slots,      \* [Idx -> Slot]
          free_head,  \* first free slot, or FREE_LIST_END
          len,        \* number of occupied slots
          res         \* result of the last call (observation only)

arenaVars == <<slots, free_head, len>>
vars      == <<slots, free_head, len, res>>

Idx    == 0 .. N-1
Handle == 0 .. N          \* N stands for every raw index past the end
Link   == Idx \cup {FREE_LIST_END}

FreeSlot(n)     == [kind |-> "Free", next_free |-> n]
OccupiedSlot(v) == [kind |-> "Occupied", value |-> v]
Slot == {FreeSlot(n) : n \in Link} \cup {OccupiedSlot(v) : v \in Value}

Ok(op, x)  == <<op, "Ok", x>>
Err(op, e) == <<op, "Err", e>>

IsOccupied(i) == slots[i].kind = "Occupied"
Allocated     == {i \in Idx : IsOccupied(i)}
IsFull        == len = N
-----------------------------------------------------------------------------
(* Arena::new and Arena::clear link the slots in ascending order. *)
FreshSlots == [i \in Idx |-> FreeSlot(IF i + 1 < N THEN i + 1 ELSE FREE_LIST_END)]
FreshHead  == IF N > 0 THEN 0 ELSE FREE_LIST_END

Init == /\ slots = FreshSlots
        /\ free_head = FreshHead
        /\ len = 0
        /\ res = Ok("new", "unit")

(* validate_index: bounds first, then the slot's kind. *)
ValidIndex(i) == i < N /\ IsOccupied(i)
IndexError(i) == IF i >= N THEN "IndexOutOfBounds" ELSE "IndexNotAllocated"
Refuse(op, i) == /\ ~ValidIndex(i)
                 /\ res' = Err(op, IndexError(i))
                 /\ UNCHANGED arenaVars

(* The pop and push that alloc and free (and the sweep of the collector)   *)
(* perform.  A free_head that is not a free slot is the unreachable! panic *)
(* of alloc: FreeListIntact below excludes it.                             *)
PopSlot(v) == /\ slots' = [slots EXCEPT ![free_head] = OccupiedSlot(v)]
              /\ free_head' = slots[free_head].next_free
              /\ len' = len + 1

PushUncounted(i) ==  \* mutant: len is not decremented
  /\ slots' = [slots EXCEPT ![i] = FreeSlot(free_head)]
  /\ free_head' = i
  /\ UNCHANGED len

PushLosingList(i) == \* mutant: the rest of the list is cut off
  /\ slots' = [slots EXCEPT ![i] = FreeSlot(FREE_LIST_END)]
  /\ free_head' = i
  /\ len' = len - 1

PushSlot(i) == /\ slots' = [slots EXCEPT ![i] = FreeSlot(free_head)]
               /\ free_head' = i
               /\ len' = len - 1

Alloc(v) ==
  \/ /\ free_head = FREE_LIST_END
     /\ res' = Err("alloc", "OutOfMemory")
     /\ UNCHANGED arenaVars
  \/ /\ free_head # FREE_LIST_END
     /\ PopSlot(v)
     /\ res' = Ok("alloc", free_head)

Free(i) ==
  \/ Refuse("free", i)
  \/ /\ ValidIndex(i)
     /\ PushSlot(i)
     /\ res' = Ok("free", "unit")

Get(i) ==
  \/ Refuse("get", i)
  \/ /\ ValidIndex(i)
     /\ res' = Ok("get", slots[i].value)
     /\ UNCHANGED arenaVars

(* Store v in slot i, answering x: the shape of set, modify and replace. *)
Overwrite(op, i, v, x) ==
  /\ ValidIndex(i)
  /\ slots' = [slots EXCEPT ![i] = OccupiedSlot(v)]
  /\ res' = Ok(op, x)
  /\ UNCHANGED <<free_head, len>>

Set(i, v)     == Refuse("set", i)     \/ Overwrite("set", i, v, "unit")
Replace(i, v) == Refuse("replace", i) \/ Overwrite("replace", i, v, slots[i].value)
Modify(i, v)  == Refuse("modify", i)  \/ Overwrite("modify", i, v, "unit")
                                                        \* v: what the closure makes of it

SwapRereads(a, b) ==  \* mutant: a is read again after it was overwritten
  \/ Refuse("swap", a)
  \/ /\ ValidIndex(a)
     /\ Refuse("swap", b)
  \/ /\ ValidIndex(a) /\ ValidIndex(b)
     /\ slots' = [slots EXCEPT ![a] = OccupiedSlot(slots[b].value)]
     /\ res' = Ok("swap", "unit")
     /\ UNCHANGED <<free_head, len>>

(* Both indices are validated before either slot is written. *)
Swap(a, b) ==
  \/ Refuse("swap", a)
  \/ /\ ValidIndex(a)
     /\ Refuse("swap", b)
  \/ /\ ValidIndex(a) /\ ValidIndex(b)
     /\ slots' = IF a = b THEN slots
                 ELSE [slots EXCEPT ![a] = OccupiedSlot(slots[b].value),
                                    ![b] = OccupiedSlot(slots[a].value)]
     /\ res' = Ok("swap", "unit")
     /\ UNCHANGED <<free_head, len>>

(* The closure sees index and value and may carry state: g gives what it   *)
(* leaves in each occupied slot.                                           *)
ForEachMut(g) ==
  /\ slots' = [i \in Idx |-> IF IsOccupied(i) THEN OccupiedSlot(g[i]) ELSE slots[i]]
  /\ res' = Ok("for_each_mut", "unit")
  /\ UNCHANGED <<free_head, len>>

ClearKeepsLen ==     \* mutant: len survives clear
  /\ slots' = FreshSlots
  /\ free_head' = FreshHead
  /\ res' = Ok("clear", "unit")
  /\ UNCHANGED len

Clear == /\ slots' = FreshSlots
         /\ free_head' = FreshHead
         /\ len' = 0
         /\ res' = Ok("clear", "unit")

Next ==
  \/ \E v \in Value : Alloc(v)
  \/ \E i \in Handle : \/ Get(i)
                       \/ Free(i)
                       \/ \E v \in Value : Set(i, v) \/ Replace(i, v) \/ Modify(i, v)
                       \/ \E j \in Handle : Swap(i, j)
  \/ \E g \in [Idx -> Value] : ForEachMut(g)
  \/ Clear

Spec == Init /\ [][Next]_vars
-----------------------------------------------------------------------------
(* The variables stay in the ranges of their Rust types; in particular len *)
(* never wraps below zero in free, which subtracts without a check.        *)
TypeOK == /\ slots \in [Idx -> Slot]
          /\ free_head \in Link
          /\ len \in 0 .. N

(* What Arena::validate() tests: the links from free_head visit every free *)
(* slot exactly once and nothing else, and then end; and the slots visited *)
(* and the slots counted by len make up the arena.  "s" is the list,       *)
(* written down as the sequence of the k slots it visits.                  *)
IsFreeList(k, s) ==
  /\ len + k = N
  /\ \A m, n \in 1..k : s[m] = s[n] => m = n
  /\ free_head = IF k = 0 THEN FREE_LIST_END ELSE s[1]
  /\ \A n \in 1..k : slots[s[n]] = FreeSlot(IF n = k THEN FREE_LIST_END ELSE s[n+1])
  /\ \A i \in Idx : ~IsOccupied(i) => \E n \in 1..k : s[n] = i

(* Free-list integrity: however alloc, free, clear and the collector's     *)
(* sweep are interleaved, the free list holds each free slot once.  A slot *)
(* lost from the list is memory lost for good; a slot on it twice is handed*)
(* to two owners.                                                          *)
FreeListIntact == \E k \in 0..N : \E s \in [1..k -> Idx] : IsFreeList(k, s)

(* The counter that is_full, available and the collector's statistics read *)
(* is the number of occupied slots.                                        *)
LenIsExact == len = Cardinality(Allocated)

(* The arena implements the partial map of GriftStore: the values visible  *)
(* through any sequence of calls, and the result of each call, are those   *)
(* of the map; in particular alloc never returns an index still in use and *)
(* fails only when every index is.                                         *)
AbsStore == [i \in Allocated |-> slots[i].value]
Store == INSTANCE GriftStore WITH store <- AbsStore
ImplementsStore == Store!Spec
=============================================================================
