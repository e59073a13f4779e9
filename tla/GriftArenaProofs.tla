------------------------- MODULE GriftArenaProofs -------------------------
(***************************************************************************)
(* The free list of the arena is intact, its counter is exact and its      *)
(* calls implement the partial map of GriftStore, for every capacity N     *)
(* and every set of values; and validate() decides whether list and        *)
(* counter are consistent.                                                 *)
(*                                                                         *)
(* The three state properties are proved together: that free() has room    *)
(* for one more entry on the list needs the count to be exact, and that    *)
(* the count stays exact in alloc() needs the head of the list to be free. *)
(***************************************************************************)
EXTENDS GriftValidate, FiniteSetTheorems, WellFoundedInduction, TLAPS

SlotsOK == slots \in [Idx -> Slot]
IInv    == SlotsOK /\ LenIsExact /\ FreeListIntact

USE ArenaAssumption
-----------------------------------------------------------------------------
(* A slot is free or occupied, never both, and its other field has the     *)
(* type the kind calls for.                                                *)
LEMMA SlotShape ==
  ASSUME NEW x \in Slot
  PROVE  /\ x.kind = "Free" => x.next_free \in Link /\ x = FreeSlot(x.next_free)
         /\ x.kind = "Occupied" => x.value \in Value /\ x = OccupiedSlot(x.value)
         /\ (x.kind = "Free") <=> ~(x.kind = "Occupied")
BY DEF Slot, FreeSlot, OccupiedSlot

LEMMA MakeSlot ==
  /\ \A n \in Link : FreeSlot(n) \in Slot /\ FreeSlot(n).kind = "Free"
                     /\ FreeSlot(n).next_free = n
  /\ \A v \in Value : OccupiedSlot(v) \in Slot /\ OccupiedSlot(v).kind = "Occupied"
                     /\ OccupiedSlot(v).value = v
  /\ "Free" # "Occupied"
BY DEF Slot, FreeSlot, OccupiedSlot

LEMMA IdxFinite == IsFiniteSet(Idx) /\ Cardinality(Idx) = N
BY FS_Interval DEF Idx

(* The allocated indices are finitely many, so their number is well        *)
(* defined and at most the capacity.                                       *)
LEMMA AllocatedFinite ==
  /\ IsFiniteSet(Allocated)
  /\ Cardinality(Allocated) \in 0 .. N
<1>1. IsFiniteSet(Idx) /\ Cardinality(Idx) = N
  BY IdxFinite
<1>2. Allocated \subseteq Idx
  BY DEF Allocated
<1>3. QED
  BY <1>1, <1>2, FS_Subset, FS_CardinalityType

(* The invariant bounds len and free_head, which completes TypeOK.         *)
LEMMA TypeFromInv == IInv => TypeOK
<1> SUFFICES ASSUME IInv PROVE TypeOK
  OBVIOUS
<1>1. len \in 0 .. N
  BY AllocatedFinite DEF IInv, LenIsExact
<1>2. free_head \in Link
  <2>0. PICK k \in 0..N : \E s \in [1..k -> Idx] : IsFreeList(k, s)
    BY DEF IInv, FreeListIntact
  <2>1. PICK s \in [1..k -> Idx] : IsFreeList(k, s)
    BY <2>0
  <2>2. k # 0 => s[1] \in Idx
    OBVIOUS
  <2>3. QED
    BY <2>1, <2>2 DEF IsFreeList, Link
<1>3. QED
  BY <1>1, <1>2 DEF TypeOK, IInv, SlotsOK
-----------------------------------------------------------------------------
(* The freshly linked arena of new() and clear(): the list visits the      *)
(* slots in ascending order.                                               *)
LEMMA FreshIsIntact ==
  ASSUME slots = FreshSlots, free_head = FreshHead, len = 0
  PROVE  IInv
<1>1. \A i \in Idx : (IF i + 1 < N THEN i + 1 ELSE FREE_LIST_END) \in Link
  BY DEF Idx, Link
<1>2. SlotsOK
  BY <1>1, MakeSlot DEF SlotsOK, FreshSlots
<1>3. \A i \in Idx : ~IsOccupied(i)
  BY <1>1, MakeSlot DEF FreshSlots, IsOccupied
<1>4. LenIsExact
  <2>1. Allocated = {}
    BY <1>3 DEF Allocated
  <2>2. QED
    BY <2>1, FS_EmptySet DEF LenIsExact
<1>5. FreeListIntact
  <2> DEFINE s == [n \in 1..N |-> n - 1]
  <2>1. s \in [1..N -> Idx]
    BY DEF Idx
  <2>2. IsFreeList(N, s)
    <3>1. \A n \in 1..N : slots[s[n]] = FreeSlot(IF n = N THEN FREE_LIST_END ELSE s[n+1])
      BY <2>1 DEF FreshSlots, Idx
    <3>2. \A i \in Idx : i + 1 \in 1..N /\ s[i+1] = i
      BY DEF Idx
    <3>3. free_head = IF N = 0 THEN FREE_LIST_END ELSE s[1]
      BY DEF FreshHead
    <3>4. QED
      BY <3>1, <3>2, <3>3 DEF IsFreeList, Idx
  <2> HIDE DEF s
  <2>3. QED
    BY <2>1, <2>2 DEF FreeListIntact
<1>6. QED
  BY <1>2, <1>4, <1>5 DEF IInv

(* A step that leaves every free slot alone and keeps occupied slots       *)
(* occupied does not disturb the invariant: set, modify, replace, swap,    *)
(* for_each_mut, and every call that is refused.                           *)
LEMMA KindsUnchanged ==
  ASSUME IInv, slots' \in [Idx -> Slot], UNCHANGED <<free_head, len>>,
         \A i \in Idx : IF IsOccupied(i) THEN IsOccupied(i)' ELSE slots'[i] = slots[i]
  PROVE  IInv'
<1>1. SlotsOK'
  BY DEF SlotsOK
<1>2. \A i \in Idx : IsOccupied(i)' <=> IsOccupied(i)
  BY DEF IsOccupied
<1>3. LenIsExact'
  <2>1. Allocated' = Allocated
    BY <1>2 DEF Allocated
  <2>2. QED
    BY <2>1 DEF LenIsExact, IInv
<1>4. FreeListIntact'
  <2>0. PICK k \in 0..N : \E s \in [1..k -> Idx] : IsFreeList(k, s)
    BY DEF IInv, FreeListIntact
  <2>1. PICK s \in [1..k -> Idx] : IsFreeList(k, s)
    BY <2>0
  <2>2. \A n \in 1..k : ~IsOccupied(s[n])
    <3>1. \A n \in 1..k : IF n = k THEN FREE_LIST_END \in Link ELSE s[n+1] \in Link
      BY DEF Link
    <3>2. \A n \in 1..k : slots[s[n]] = FreeSlot(IF n = k THEN FREE_LIST_END ELSE s[n+1])
      BY <2>1 DEF IsFreeList
    <3>3. \A l \in Link : FreeSlot(l).kind = "Free"
      BY MakeSlot
    <3>4. QED
      BY <3>1, <3>2, <3>3, MakeSlot DEF IsOccupied
  <2>3. \A n \in 1..k : slots'[s[n]] = slots[s[n]]
    BY <2>2
  <2>4. IsFreeList(k, s)'
    BY <1>2, <2>1, <2>3 DEF IsFreeList
  <2>5. QED
    BY <2>4 DEF FreeListIntact
<1>5. QED
  BY <1>1, <1>3, <1>4 DEF IInv

(* alloc: the head of the list is a free slot; it leaves the list and      *)
(* joins the allocated indices.                                            *)
LEMMA PopKeepsInv ==
  ASSUME IInv, NEW v \in Value, free_head # FREE_LIST_END, PopSlot(v)
  PROVE  IInv' /\ free_head \in Idx /\ ~IsOccupied(free_head)
<1>0. PICK k \in 0..N : \E s \in [1..k -> Idx] : IsFreeList(k, s)
  BY DEF IInv, FreeListIntact
<1>1. PICK s \in [1..k -> Idx] : IsFreeList(k, s)
  BY <1>0
<1>2. k > 0 /\ free_head = s[1] /\ free_head \in Idx
  BY <1>1 DEF IsFreeList
<1> DEFINE nxt == IF 1 = k THEN FREE_LIST_END ELSE s[2]
<1>3. nxt \in Link
  BY <1>2 DEF Link
<1>4. slots[free_head] = FreeSlot(nxt)
  BY <1>1, <1>2 DEF IsFreeList
<1>5. ~IsOccupied(free_head) /\ slots[free_head].next_free = nxt
  BY <1>3, <1>4, MakeSlot DEF IsOccupied
<1> HIDE DEF nxt
<1>6. slots' = [slots EXCEPT ![free_head] = OccupiedSlot(v)] /\ free_head' = nxt /\ len' = len + 1
  BY <1>5 DEF PopSlot
<1>7. SlotsOK'
  BY <1>2, <1>6, MakeSlot DEF SlotsOK, IInv
<1>8. \A i \in Idx : IsOccupied(i)' <=> (i = free_head \/ IsOccupied(i))
  BY <1>2, <1>6, MakeSlot DEF IsOccupied, SlotsOK, IInv
<1>9. LenIsExact'
  <2>1. Allocated' = Allocated \cup {free_head} /\ free_head \notin Allocated
    BY <1>2, <1>5, <1>8 DEF Allocated
  <2>2. QED
    BY <1>6, <2>1, AllocatedFinite, FS_AddElement DEF LenIsExact, IInv
<1>10. FreeListIntact'
  <2> DEFINE t == [n \in 1..(k-1) |-> s[n+1]]
  <2>1. t \in [1..(k-1) -> Idx] /\ k-1 \in 0..N
    BY <1>2
  <2>2. \A n \in 1..(k-1) : t[n] = s[n+1] /\ n+1 \in 1..k /\ t[n] # free_head /\ t[n] \in Idx
    BY <1>1, <1>2 DEF IsFreeList
  <2> HIDE DEF t
  <2>3. (len + (k-1) = N)'
    <3>1. len \in Int
      BY AllocatedFinite DEF IInv, LenIsExact
    <3>2. len + k = N
      BY <1>1 DEF IsFreeList
    <3>3. QED
      BY <1>6, <3>1, <3>2
  <2>4. \A m, n \in 1..(k-1) : t[m] = t[n] => m = n
    BY <1>1, <2>2 DEF IsFreeList
  <2>5. free_head' = IF k-1 = 0 THEN FREE_LIST_END ELSE t[1]
    BY <1>2, <1>6, <2>2 DEF nxt
  <2>6. \A n \in 1..(k-1) : slots'[t[n]] = FreeSlot(IF n = k-1 THEN FREE_LIST_END ELSE t[n+1])
    <3> SUFFICES ASSUME NEW n \in 1..(k-1)
                 PROVE  slots'[t[n]] = FreeSlot(IF n = k-1 THEN FREE_LIST_END ELSE t[n+1])
      OBVIOUS
    <3>1. slots'[t[n]] = slots[s[n+1]]
      BY <1>6, <2>2 DEF SlotsOK, IInv
    <3>2. slots[s[n+1]] = FreeSlot(IF n+1 = k THEN FREE_LIST_END ELSE s[(n+1)+1])
      BY <1>1, <2>2 DEF IsFreeList
    <3>3. n # k-1 => n+1 \in 1..(k-1)
      OBVIOUS
    <3>4. QED
      BY <3>1, <3>2, <3>3, <2>2
  <2>7. \A i \in Idx : ~IsOccupied(i)' => \E n \in 1..(k-1) : t[n] = i
    <3> SUFFICES ASSUME NEW i \in Idx, ~IsOccupied(i)'
                 PROVE  \E n \in 1..(k-1) : t[n] = i
      OBVIOUS
    <3>1. i # free_head /\ ~IsOccupied(i)
      BY <1>8
    <3>2. PICK m \in 1..k : s[m] = i
      BY <1>1, <3>1 DEF IsFreeList
    <3>3. m # 1 /\ m-1 \in 1..(k-1) /\ t[m-1] = s[(m-1)+1]
      BY <1>2, <2>2, <3>1, <3>2
    <3>4. QED
      BY <3>2, <3>3
  <2>8. IsFreeList(k-1, t)'
    BY <2>3, <2>4, <2>5, <2>6, <2>7 DEF IsFreeList
  <2>9. QED
    BY <2>1, <2>8 DEF FreeListIntact
<1>11. QED
  BY <1>2, <1>5, <1>7, <1>9, <1>10 DEF IInv

(* free (and one step of the collector's sweep): an occupied slot becomes  *)
(* the new head of the list.  That the list has room for it is the point   *)
(* of LenIsExact.                                                          *)
LEMMA PushKeepsInv ==
  ASSUME IInv, NEW i \in Idx, IsOccupied(i), PushSlot(i)
  PROVE  IInv'
<1>0. PICK k \in 0..N : \E s \in [1..k -> Idx] : IsFreeList(k, s)
  BY DEF IInv, FreeListIntact
<1>1. PICK s \in [1..k -> Idx] : IsFreeList(k, s)
  BY <1>0
<1>2. free_head \in Link
  BY TypeFromInv DEF TypeOK
<1>3. slots' = [slots EXCEPT ![i] = FreeSlot(free_head)] /\ free_head' = i /\ len' = len - 1
  BY DEF PushSlot
<1>4. SlotsOK'
  BY <1>2, <1>3, MakeSlot DEF SlotsOK, IInv
<1>5. \A j \in Idx : IsOccupied(j)' <=> (j # i /\ IsOccupied(j))
  BY <1>2, <1>3, MakeSlot DEF IsOccupied, SlotsOK, IInv
<1>6. len \in 1..N
  <2>1. Cardinality(Allocated) # 0
    BY AllocatedFinite, FS_EmptySet DEF Allocated
  <2>2. QED
    BY <2>1, AllocatedFinite DEF IInv, LenIsExact
<1>7. LenIsExact'
  <2>1. Allocated' = Allocated \ {i} /\ i \in Allocated
    BY <1>5 DEF Allocated
  <2>2. QED
    BY <1>3, <2>1, AllocatedFinite, FS_RemoveElement DEF LenIsExact, IInv
<1>8. FreeListIntact'
  <2> DEFINE t == [n \in 1..(k+1) |-> IF n = 1 THEN i ELSE s[n-1]]
  <2>0. len + k = N
    BY <1>1 DEF IsFreeList
  <2>1. k+1 \in 0..N
    BY <1>6, <2>0
  <2>2. t \in [1..(k+1) -> Idx] /\ t[1] = i
    OBVIOUS
  <2>3. \A n \in 2..(k+1) : t[n] = s[n-1] /\ n-1 \in 1..k
    OBVIOUS
  <2> HIDE DEF t
  <2>4. \A n \in 1..k : s[n] # i /\ ~IsOccupied(s[n])
    <3>1. \A n \in 1..k : (IF n = k THEN FREE_LIST_END ELSE s[n+1]) \in Link
      BY DEF Link
    <3>2. \A n \in 1..k : ~IsOccupied(s[n])
      BY <1>1, <3>1, MakeSlot DEF IsFreeList, IsOccupied
    <3>3. QED
      BY <3>2
  <2>5. (len + (k+1) = N)'
    BY <1>3, <1>6, <2>0
  <2>6. \A m, n \in 1..(k+1) : t[m] = t[n] => m = n
    <3> SUFFICES ASSUME NEW m \in 1..(k+1), NEW n \in 1..(k+1), t[m] = t[n]
                 PROVE  m = n
      OBVIOUS
    <3>1. CASE m = 1
      BY <2>2, <2>3, <2>4, <3>1
    <3>2. CASE n = 1
      BY <2>2, <2>3, <2>4, <3>2
    <3>3. CASE m # 1 /\ n # 1
      BY <1>1, <2>3, <3>3 DEF IsFreeList
    <3>4. QED
      BY <3>1, <3>2, <3>3
  <2>7. free_head' = IF k+1 = 0 THEN FREE_LIST_END ELSE t[1]
    BY <1>3, <2>2
  <2>8. \A n \in 1..(k+1) : slots'[t[n]] = FreeSlot(IF n = k+1 THEN FREE_LIST_END ELSE t[n+1])
    <3> SUFFICES ASSUME NEW n \in 1..(k+1)
                 PROVE  slots'[t[n]] = FreeSlot(IF n = k+1 THEN FREE_LIST_END ELSE t[n+1])
      OBVIOUS
    <3>1. CASE n = 1
      <4>1. slots'[t[n]] = FreeSlot(free_head)
        BY <1>3, <2>2, <3>1 DEF SlotsOK, IInv
      <4>2. free_head = IF n = k+1 THEN FREE_LIST_END ELSE s[1]
        BY <1>1, <3>1 DEF IsFreeList
      <4>3. n # k+1 => t[n+1] = s[1]
        BY <2>3, <3>1
      <4>4. QED
        BY <4>1, <4>2, <4>3
    <3>2. CASE n # 1
      <4>1. slots'[t[n]] = slots[s[n-1]] /\ n-1 \in 1..k
        BY <1>3, <2>3, <2>4, <3>2 DEF SlotsOK, IInv
      <4>2. slots[s[n-1]] = FreeSlot(IF n-1 = k THEN FREE_LIST_END ELSE s[(n-1)+1])
        BY <1>1, <4>1 DEF IsFreeList
      <4>3. n # k+1 => t[n+1] = s[n]
        BY <2>3, <3>2
      <4>4. QED
        BY <4>1, <4>2, <4>3
    <3>3. QED
      BY <3>1, <3>2
  <2>9. \A j \in Idx : ~IsOccupied(j)' => \E n \in 1..(k+1) : t[n] = j
    <3> SUFFICES ASSUME NEW j \in Idx, j # i, ~IsOccupied(j)
                 PROVE  \E n \in 1..(k+1) : t[n] = j
      BY <1>5, <2>2
    <3>1. PICK m \in 1..k : s[m] = j
      BY <1>1 DEF IsFreeList
    <3>2. m+1 \in 2..(k+1) /\ t[m+1] = s[(m+1)-1]
      BY <2>3
    <3>3. QED
      BY <3>1, <3>2
  <2>10. IsFreeList(k+1, t)'
    BY <2>5, <2>6, <2>7, <2>8, <2>9 DEF IsFreeList
  <2>11. QED
    BY <2>1, <2>2, <2>10 DEF FreeListIntact
<1>9. QED
  BY <1>4, <1>7, <1>8 DEF IInv
-----------------------------------------------------------------------------
(* A call that is refused, or that only reads. *)
LEMMA StutterKeepsInv ==
  ASSUME IInv, UNCHANGED arenaVars
  PROVE  IInv'
BY KindsUnchanged DEF IInv, SlotsOK, IsOccupied, arenaVars

LEMMA OverwriteKeepsInv ==
  ASSUME IInv, NEW op, NEW i \in Handle, NEW v \in Value, NEW x, Overwrite(op, i, v, x)
  PROVE  IInv'
<1>1. i \in Idx /\ IsOccupied(i) /\ slots' = [slots EXCEPT ![i] = OccupiedSlot(v)]
      /\ UNCHANGED <<free_head, len>>
  BY DEF Overwrite, ValidIndex, Handle, Idx
<1>2. slots' \in [Idx -> Slot]
  BY <1>1, MakeSlot DEF IInv, SlotsOK
<1>3. \A j \in Idx : IF IsOccupied(j) THEN IsOccupied(j)' ELSE slots'[j] = slots[j]
  BY <1>1, MakeSlot DEF IInv, SlotsOK, IsOccupied
<1>4. QED
  BY <1>1, <1>2, <1>3, KindsUnchanged

LEMMA ValueOf ==
  ASSUME SlotsOK, NEW i \in Idx, IsOccupied(i)
  PROVE  slots[i].value \in Value
BY SlotShape DEF SlotsOK, IsOccupied

LEMMA InvInductive == IInv /\ [Next]_vars => IInv'
<1> SUFFICES ASSUME IInv, [Next]_vars PROVE IInv'
  OBVIOUS
<1>1. CASE \E v \in Value : Alloc(v)
  BY <1>1, PopKeepsInv, StutterKeepsInv DEF Alloc
<1>2. CASE \E i \in Handle : Get(i)
  BY <1>2, StutterKeepsInv DEF Get, Refuse
<1>3. CASE \E i \in Handle : Free(i)
  <2>1. PICK i \in Handle : Free(i)
    BY <1>3
  <2>2. CASE ValidIndex(i) /\ PushSlot(i)
    BY <2>2, PushKeepsInv DEF ValidIndex, Handle, Idx
  <2>3. QED
    BY <2>1, <2>2, StutterKeepsInv DEF Free, Refuse
<1>4. CASE \E i \in Handle, v \in Value : Set(i, v) \/ Replace(i, v) \/ Modify(i, v)
  BY <1>4, OverwriteKeepsInv, StutterKeepsInv DEF Set, Replace, Modify, Refuse
<1>6. CASE \E a, b \in Handle : Swap(a, b)
  <2>1. PICK a \in Handle, b \in Handle : Swap(a, b)
    BY <1>6
  <2>2. CASE ValidIndex(a) /\ ValidIndex(b) /\ slots' # slots
    <3>1. a \in Idx /\ b \in Idx /\ IsOccupied(a) /\ IsOccupied(b)
      BY <2>2 DEF ValidIndex, Handle, Idx
    <3>2. slots' = [slots EXCEPT ![a] = OccupiedSlot(slots[b].value),
                                 ![b] = OccupiedSlot(slots[a].value)]
          /\ UNCHANGED <<free_head, len>>
      BY <2>1, <2>2 DEF Swap, Refuse, arenaVars
    <3>3. slots[a].value \in Value /\ slots[b].value \in Value
      BY <3>1, ValueOf DEF IInv
    <3>4. slots' \in [Idx -> Slot]
      BY <3>1, <3>2, <3>3, MakeSlot DEF IInv, SlotsOK
    <3>5. \A j \in Idx : IF IsOccupied(j) THEN IsOccupied(j)' ELSE slots'[j] = slots[j]
      BY <3>1, <3>2, <3>3, MakeSlot DEF IInv, SlotsOK, IsOccupied
    <3>6. QED
      BY <3>2, <3>4, <3>5, KindsUnchanged
  <2>3. QED
    BY <2>1, <2>2, StutterKeepsInv DEF Swap, Refuse, arenaVars
<1>7. CASE \E g \in [Idx -> Value] : ForEachMut(g)
  <2>1. PICK g \in [Idx -> Value] : ForEachMut(g)
    BY <1>7
  <2>2. slots' \in [Idx -> Slot]
    BY <2>1, MakeSlot DEF ForEachMut, IInv, SlotsOK
  <2>3. \A j \in Idx : IF IsOccupied(j) THEN IsOccupied(j)' ELSE slots'[j] = slots[j]
    BY <2>1, MakeSlot DEF ForEachMut, IsOccupied
  <2>4. QED
    BY <2>1, <2>2, <2>3, KindsUnchanged DEF ForEachMut
<1>8. CASE Clear
  <2>1. (slots = FreshSlots /\ free_head = FreshHead /\ len = 0)'
    BY <1>8 DEF Clear, FreshSlots, FreshHead, Idx, FreeSlot
  <2>2. QED
    BY <2>1, FreshIsIntact, PTL
<1>9. CASE UNCHANGED vars
  BY <1>9, StutterKeepsInv DEF vars, arenaVars
<1>10. QED
  BY <1>1, <1>2, <1>3, <1>4, <1>6, <1>7, <1>8, <1>9 DEF Next

(* Every reachable arena satisfies the invariant. *)
LEMMA InvHolds == Spec => []IInv
<1>1. Init => IInv
  BY FreshIsIntact DEF Init
<1>2. QED
  BY <1>1, InvInductive, PTL DEF Spec
-----------------------------------------------------------------------------
(* The slots, the head of the free list and the counter stay in range,     *)
(* whatever calls are made: len never wraps in free(), and alloc() never   *)
(* indexes past the slots.                                                 *)
THEOREM TypeCorrect == Spec => []TypeOK
BY InvHolds, TypeFromInv, PTL

(* Arena::validate() answers true in every reachable arena. *)
THEOREM FreeListCorrect == Spec => []FreeListIntact
<1>1. IInv => FreeListIntact
  BY DEF IInv
<1>2. QED
  BY <1>1, InvHolds, PTL

(* Arena::len() is the number of occupied slots in every reachable arena.  *)
THEOREM LenCorrect == Spec => []LenIsExact
<1>1. IInv => LenIsExact
  BY DEF IInv
<1>2. QED
  BY <1>1, InvHolds, PTL
-----------------------------------------------------------------------------
(* Refinement: the definitions of GriftStore under the mapping. *)
LEMMA StoreDefs ==
  /\ Store!Allocated = Allocated
  /\ Store!Idx = Idx
  /\ Store!Handle = Handle
  /\ \A op, x : Store!Ok(op, x) = Ok(op, x) /\ Store!Err(op, x) = Err(op, x)
  /\ \A i \in Handle : Store!IndexError(i) = IndexError(i)
  /\ \A i \in Handle : i \in Allocated <=> ValidIndex(i)
  /\ \A i \in Allocated : AbsStore[i] = slots[i].value
BY DEF Store!Allocated, AbsStore, Store!Idx, Idx, Store!Handle, Handle, Store!Ok, Ok,
       Store!Err, Err, Store!IndexError, IndexError, Allocated, ValidIndex

(* A call that changes no slot leaves the map alone. *)
LEMMA SameSlots ==
  ASSUME UNCHANGED slots PROVE UNCHANGED AbsStore
BY DEF AbsStore, Allocated, IsOccupied

LEMMA RefuseRefines ==
  ASSUME NEW op, NEW i \in Handle, Refuse(op, i)
  PROVE  i \notin Allocated /\ res' = Store!Err(op, Store!IndexError(i)) /\ UNCHANGED AbsStore
BY StoreDefs, SameSlots DEF Refuse, arenaVars

LEMMA AllocRefines ==
  ASSUME IInv, NEW v \in Value, Alloc(v)
  PROVE  Store!Alloc(v)
<1>1. CASE free_head # FREE_LIST_END
  <2>1. PopSlot(v) /\ res' = Ok("alloc", free_head)
    BY <1>1 DEF Alloc
  <2>2. free_head \in Idx /\ ~IsOccupied(free_head)
    BY <1>1, <2>1, PopKeepsInv
  <2>3. slots' = [slots EXCEPT ![free_head] = OccupiedSlot(v)]
    BY <2>1 DEF PopSlot
  <2>4. Allocated' = Allocated \cup {free_head} /\ free_head \notin Allocated
    BY <2>2, <2>3, MakeSlot DEF Allocated, IsOccupied, SlotsOK, IInv
  <2>5. AbsStore' = [j \in Allocated \cup {free_head} |-> IF j = free_head THEN v ELSE AbsStore[j]]
    BY <2>2, <2>3, <2>4, StoreDefs, MakeSlot DEF AbsStore, Allocated, SlotsOK, IInv
  <2>6. QED
    BY <2>1, <2>2, <2>4, <2>5, StoreDefs DEF Store!Alloc
<1>2. CASE free_head = FREE_LIST_END
  <2>1. res' = Err("alloc", "OutOfMemory") /\ UNCHANGED slots
    BY <1>2 DEF Alloc, arenaVars
  <2>2. Allocated = Idx
    <3>0. PICK k \in 0..N : \E s \in [1..k -> Idx] : IsFreeList(k, s)
      BY DEF IInv, FreeListIntact
    <3>1. PICK s \in [1..k -> Idx] : IsFreeList(k, s)
      BY <3>0
    <3>2. k = 0
      <4>1. k # 0 => s[1] \in Idx /\ s[1] # FREE_LIST_END
        BY DEF Idx
      <4>2. QED
        BY <1>2, <3>1, <4>1 DEF IsFreeList
    <3>3. QED
      BY <3>1, <3>2 DEF IsFreeList, Allocated
  <2>3. QED
    BY <2>1, <2>2, StoreDefs, SameSlots DEF Store!Alloc
<1>3. QED
  BY <1>1, <1>2

LEMMA FreeRefines ==
  ASSUME IInv, NEW i \in Handle, Free(i)
  PROVE  Store!Free(i)
<1>1. CASE Refuse("free", i)
  BY <1>1, RefuseRefines, StoreDefs DEF Store!Free, Store!OnIndex
<1>2. CASE ValidIndex(i) /\ PushSlot(i) /\ res' = Ok("free", "unit")
  <2>1. slots' = [slots EXCEPT ![i] = FreeSlot(free_head)] /\ i \in Idx /\ free_head \in Link
    BY <1>2, TypeFromInv DEF PushSlot, ValidIndex, Handle, Idx, TypeOK
  <2>2. Allocated' = Allocated \ {i}
    BY <2>1, MakeSlot DEF Allocated, IsOccupied, SlotsOK, IInv
  <2>3. AbsStore' = [j \in Allocated \ {i} |-> AbsStore[j]]
    BY <2>1, <2>2, StoreDefs DEF AbsStore, Allocated, SlotsOK, IInv
  <2>4. QED
    BY <1>2, <2>3, StoreDefs DEF Store!Free, Store!OnIndex
<1>3. QED
  BY <1>1, <1>2 DEF Free

(* set, modify and replace: one entry of the map changes. *)
LEMMA OverwriteRefines ==
  ASSUME IInv, NEW op, NEW i \in Handle, NEW v \in Value, NEW x,
         Refuse(op, i) \/ Overwrite(op, i, v, x)
  PROVE  Store!OnIndex(op, i, [AbsStore EXCEPT ![i] = v], x)
<1>1. CASE Refuse(op, i)
  BY <1>1, RefuseRefines, StoreDefs DEF Store!OnIndex
<1>2. CASE Overwrite(op, i, v, x)
  <2>1. i \in Allocated /\ i \in Idx /\ slots' = [slots EXCEPT ![i] = OccupiedSlot(v)]
        /\ res' = Ok(op, x)
    BY <1>2, StoreDefs DEF Overwrite, Allocated
  <2>2. Allocated' = Allocated
    BY <2>1, MakeSlot DEF Allocated, IsOccupied, SlotsOK, IInv
  <2>3. AbsStore' = [AbsStore EXCEPT ![i] = v]
    BY <2>1, <2>2, MakeSlot DEF AbsStore, Allocated, SlotsOK, IInv
  <2>4. QED
    BY <2>1, <2>3, StoreDefs DEF Store!OnIndex
<1>3. QED
  BY <1>1, <1>2

LEMMA SwapRefines ==
  ASSUME IInv, NEW a \in Handle, NEW b \in Handle, Swap(a, b)
  PROVE  Store!Swap(a, b)
<1>1. CASE Refuse("swap", a)
  BY <1>1, RefuseRefines, StoreDefs DEF Store!Swap
<1>2. CASE ValidIndex(a) /\ Refuse("swap", b)
  BY <1>2, RefuseRefines, StoreDefs DEF Store!Swap, Store!OnIndex
<1>3. CASE /\ ValidIndex(a) /\ ValidIndex(b)
           /\ slots' = IF a = b THEN slots
                       ELSE [slots EXCEPT ![a] = OccupiedSlot(slots[b].value),
                                          ![b] = OccupiedSlot(slots[a].value)]
           /\ res' = Ok("swap", "unit")
  <2>1. a \in Allocated /\ b \in Allocated /\ a \in Idx /\ b \in Idx
    BY <1>3, StoreDefs DEF Allocated
  <2>2. slots[a].value \in Value /\ slots[b].value \in Value
    BY <2>1, ValueOf DEF Allocated, IInv
  <2>3. Allocated' = Allocated
    BY <1>3, <2>1, <2>2, MakeSlot DEF Allocated, IsOccupied, SlotsOK, IInv
  <2>4. AbsStore' = [AbsStore EXCEPT ![a] = AbsStore[b], ![b] = AbsStore[a]]
    <3>1. CASE a = b
      BY <1>3, <2>1, <3>1, SameSlots DEF AbsStore
    <3>2. CASE a # b
      <4>1. slots' = [slots EXCEPT ![a] = OccupiedSlot(slots[b].value),
                                   ![b] = OccupiedSlot(slots[a].value)]
        BY <1>3, <3>2
      <4>2. \A i \in Allocated :
              slots'[i].value = IF i = b THEN slots[a].value
                                ELSE IF i = a THEN slots[b].value ELSE slots[i].value
        BY <2>1, <2>2, <4>1, MakeSlot DEF Allocated, SlotsOK, IInv
      <4>3. QED
        BY <2>1, <2>3, <4>2 DEF AbsStore
    <3>3. QED
      BY <3>1, <3>2
  <2>5. QED
    BY <1>3, <2>1, <2>4, StoreDefs DEF Store!Swap, Store!OnIndex
<1>4. QED
  BY <1>1, <1>2, <1>3 DEF Swap

LEMMA ForEachMutRefines ==
  ASSUME IInv, NEW g \in [Idx -> Value], ForEachMut(g)
  PROVE  Store!ForEachMut
<1>1. \A i \in Idx : g[i] \in Value
  OBVIOUS
<1>2. Allocated' = Allocated
  BY <1>1, MakeSlot DEF ForEachMut, Allocated, IsOccupied, SlotsOK, IInv
<1>3. AbsStore' = [i \in Allocated |-> g[i]]
  BY <1>1, <1>2, MakeSlot DEF AbsStore, ForEachMut, Allocated
<1>4. AbsStore' \in [Allocated -> Value]
  BY <1>1, <1>3 DEF Allocated
<1>5. QED
  BY <1>4, StoreDefs DEF Store!ForEachMut, ForEachMut

LEMMA FreshIsEmpty ==
  ASSUME slots = FreshSlots PROVE AbsStore = [i \in {} |-> {}]
<1>1. Allocated = {}
  BY MakeSlot DEF Allocated, IsOccupied, FreshSlots, Idx, Link
<1>2. QED
  BY <1>1 DEF AbsStore

LEMMA StepRefines ==
  ASSUME IInv, [Next]_vars
  PROVE  [Store!Next]_(Store!storeVars)
<1>1. ASSUME NEW v \in Value, Alloc(v) PROVE Store!Next
  BY <1>1, AllocRefines DEF Store!Next
<1>2. ASSUME NEW i \in Handle, Get(i) PROVE Store!Get(i)
  <2>1. CASE Refuse("get", i)
    BY <2>1, RefuseRefines, StoreDefs DEF Store!Get
  <2>2. CASE ValidIndex(i) /\ res' = Ok("get", slots[i].value) /\ UNCHANGED arenaVars
    BY <2>2, SameSlots, StoreDefs DEF Store!Get, arenaVars
  <2>3. QED
    BY <1>2, <2>1, <2>2 DEF Get
<1>3. ASSUME NEW i \in Handle, NEW v \in Value, Set(i, v) PROVE Store!Set(i, v)
  BY <1>3, OverwriteRefines DEF Set, Store!Set
<1>4. ASSUME NEW i \in Handle, NEW v \in Value, Replace(i, v) PROVE Store!Replace(i, v)
  <2>1. Store!OnIndex("replace", i, [AbsStore EXCEPT ![i] = v], slots[i].value)
    BY <1>4, OverwriteRefines DEF Replace
  <2>2. QED
    BY <2>1, StoreDefs DEF Store!Replace, Store!OnIndex
<1>5. ASSUME NEW i \in Handle, NEW v \in Value, Modify(i, v) PROVE Store!Modify(i, v)
  BY <1>5, OverwriteRefines DEF Modify, Store!Modify
<1>6. ASSUME Clear PROVE Store!Clear
  <2>1. (slots = FreshSlots)'
    BY <1>6 DEF Clear, FreshSlots, Idx, FreeSlot
  <2>2. (AbsStore = [i \in {} |-> {}])'
    BY <2>1, FreshIsEmpty, PTL
  <2>3. QED
    BY <1>6, <2>2, StoreDefs DEF Clear, Store!Clear
<1>7. ASSUME UNCHANGED vars PROVE UNCHANGED Store!storeVars
  BY <1>7, SameSlots DEF vars, Store!storeVars
<1>8. QED
  BY <1>1, <1>2, <1>3, <1>4, <1>5, <1>6, <1>7, FreeRefines, SwapRefines, ForEachMutRefines,
     StoreDefs DEF Next, Store!Next

(* The arena implements the partial map: every call returns and does what  *)
(* the map says; alloc() never hands out an index in use, and fails only   *)
(* when there is none left.                                                *)
THEOREM ArenaImplementsStore == Spec => ImplementsStore
<1>1. Init => Store!Init
  BY FreshIsEmpty, StoreDefs DEF Init, Store!Init
<1>2. QED
  BY <1>1, InvHolds, StepRefines, PTL DEF Spec, Store!Spec, ImplementsStore
-----------------------------------------------------------------------------
(* validate(): its walk, turn by turn, over any contents of the fields.    *)
(* The first of the numbers up to n that is not as claimed. *)
LEMMA FirstWrong ==
  ASSUME NEW n \in Nat, NEW Wrong \in SUBSET (0 .. n), 0 \notin Wrong,
         \A e \in 1 .. n : e-1 \notin Wrong => e \notin Wrong
  PROVE  Wrong = {}
<1> SUFFICES ASSUME Wrong # {} PROVE FALSE
  OBVIOUS
<1> DEFINE R == OpToRel(<, Nat)
<1>1. IsWellFoundedOn(R, Nat)
  BY NatLessThanWellFounded, Zenon
<1>2. \A a, b : a \in Nat /\ b \in Nat /\ a < b => <<a, b>> \in R
  BY Zenon DEF OpToRel
<1> HIDE DEF R
<1>3. PICK m \in Wrong : \A k \in Wrong : <<k, m>> \notin R
  <2>1. Wrong \subseteq Nat
    OBVIOUS
  <2> QED BY <1>1, <2>1, WFMin, Zenon
<1>4. m \in 1 .. n /\ m - 1 \in Nat /\ m \in Nat /\ m - 1 < m
  OBVIOUS
<1>5. m - 1 \in Wrong
  BY <1>4
<1> QED BY <1>2, <1>3, <1>4, <1>5

AnyFields(s) == \A i \in Idx : /\ s[i].kind \in {"Free", "Occupied"}
                               /\ s[i].kind = "Free" => s[i].next_free \in Nat

(* The walk after each of the first m turns. *)
FromHead(head) == [current |-> head, visited |-> {}, failed |-> FALSE]
Turns(f, s, head, m) == f = [n \in 0 .. m |-> IF n = 0 THEN FromHead(head) ELSE Pass(s, f[n-1])]

LEMMA TurnsExist ==
  ASSUME NEW s, NEW head, NEW m \in Nat
  PROVE  \E f : Turns(f, s, head, m)
<1> DEFINE Wrong == {k \in 0 .. m : ~\E f : Turns(f, s, head, k)}
<1>1. 0 \notin Wrong
  <2>1. Turns([n \in 0 .. 0 |-> FromHead(head)], s, head, 0)
    BY DEF Turns
  <2> QED BY <2>1
<1>2. ASSUME NEW k \in 1 .. m, k-1 \notin Wrong PROVE k \notin Wrong
  <2>1. PICK f : Turns(f, s, head, k-1)
    BY <1>2
  <2> DEFINE g == [n \in 0 .. k |-> IF n < k THEN f[n] ELSE Pass(s, f[k-1])]
  <2>2. \A n \in 0 .. k-1 : f[n] = IF n = 0 THEN FromHead(head) ELSE Pass(s, f[n-1])
    BY <2>1 DEF Turns
  <2>3. \A n \in 0 .. k : g[n] = IF n = 0 THEN FromHead(head) ELSE Pass(s, g[n-1])
    BY <2>2
  <2>4. Turns(g, s, head, k)
    BY <2>3 DEF Turns
  <2> HIDE DEF g
  <2> QED BY <2>4
<1> HIDE DEF Wrong
<1>3. Wrong = {}
  BY <1>1, <1>2, FirstWrong DEF Wrong
<1> QED BY <1>3 DEF Wrong

LEMMA WalkTurns ==
  ASSUME NEW s, NEW head
  PROVE  \E f : Turns(f, s, head, N+1) /\ Walk(s, head) = f[N+1]
<1> DEFINE Body(f) == [n \in 0 .. N+1 |->
                 IF n = 0 THEN [current |-> head, visited |-> {}, failed |-> FALSE]
                 ELSE Pass(s, f[n-1])]
           F == CHOOSE f : f = Body(f)
<1>1. Walk(s, head) = F[N+1]
  BY DEF Walk
<1>2. PICK f : Turns(f, s, head, N+1)
  BY TurnsExist
<1>3. f = Body(f)
  BY <1>2 DEF Turns, FromHead
<1>4. F = Body(F)
  <2> HIDE DEF Body
  <2> QED BY <1>3
<1>5. Turns(F, s, head, N+1)
  BY <1>4 DEF Turns, FromHead
<1> HIDE DEF F
<1> QED BY <1>1, <1>5

(* l are the slots that a walk from head has passed, in order, at x.       *)
Passed(l, m, s, head, x) ==
  /\ m \in 0 .. N /\ l \in [1 .. m -> Idx]
  /\ \A i, j \in 1 .. m : l[i] = l[j] => i = j
  /\ head = IF m = 0 THEN x ELSE l[1]
  /\ \A j \in 1 .. m : s[l[j]].kind = "Free" /\ s[l[j]].next_free = IF j = m THEN x ELSE l[j+1]
Marks(l, m) == {l[j] : j \in 1 .. m}

LEMMA OneMore ==
  ASSUME NEW s, NEW head, NEW m, NEW l, NEW x \in Idx, Passed(l, m, s, head, x),
         x \notin Marks(l, m), s[x].kind = "Free"
  PROVE  \E q : /\ Passed(q, m+1, s, head, s[x].next_free)
                /\ Marks(q, m+1) = Marks(l, m) \cup {x}
<1> DEFINE q == [j \in 1 .. m+1 |-> IF j <= m THEN l[j] ELSE x]
<1>1. m \in Nat /\ l \in [1 .. m -> Idx] /\ m + 1 \in Nat
  BY DEF Passed
<1>2. q \in [1 .. m+1 -> Idx] /\ q[m+1] = x /\ \A j \in 1 .. m : q[j] = l[j]
  BY <1>1
<1>3. \A j \in 1 .. m : l[j] # x
  BY DEF Marks
<1> HIDE DEF q
<1>4. \A i, j \in 1 .. m+1 : q[i] = q[j] => i = j
  <2>1. \A i, j \in 1 .. m : q[i] = q[j] => i = j
    BY <1>2 DEF Passed
  <2> QED BY <1>1, <1>2, <1>3, <2>1
<1>5. m + 1 <= N
  <2>1. q \in Injection(1 .. m+1, Idx)
    BY <1>2, <1>4 DEF Injection, IsInjective
  <2>2. Cardinality(1 .. m+1) <= N
    BY <2>1, IdxFinite, FS_Injection
  <2>3. \A k \in Nat : 1 \in Int /\ k \in Int /\ (IF 1 > k THEN 0 ELSE k - 1 + 1) = k
    OBVIOUS
  <2>4. \A k \in Nat : Cardinality(1 .. k) = IF 1 > k THEN 0 ELSE k - 1 + 1
    BY <2>3, FS_Interval
  <2> QED BY <1>1, <2>2, <2>3, <2>4
<1>6. head = q[1]
  <2>1. CASE m = 0
    BY <1>2, <2>1 DEF Passed
  <2>2. CASE m # 0
    BY <1>1, <1>2, <2>2 DEF Passed
  <2> QED BY <2>1, <2>2
<1>7. ASSUME NEW j \in 1 .. m+1
      PROVE  /\ s[q[j]].kind = "Free"
             /\ s[q[j]].next_free = IF j = m+1 THEN s[x].next_free ELSE q[j+1]
  <2>1. CASE j = m+1
    BY <1>2, <2>1
  <2>2. CASE j # m+1
    <3>1. j \in 1 .. m /\ q[j] = l[j]
      BY <1>1, <1>2, <2>2
    <3>2. s[l[j]].kind = "Free" /\ s[l[j]].next_free = IF j = m THEN x ELSE l[j+1]
      BY <3>1 DEF Passed
    <3>3. q[j+1] = IF j = m THEN x ELSE l[j+1]
      BY <1>1, <1>2, <3>1
    <3> QED BY <2>2, <3>1, <3>2, <3>3
  <2> QED BY <2>1, <2>2
<1>8. Marks(q, m+1) = Marks(l, m) \cup {x}
  <2>1. \A y : (\E j \in 1 .. m+1 : y = q[j]) <=> (\E j \in 1 .. m : y = l[j]) \/ y = x
    BY <1>1, <1>2
  <2> QED BY <2>1 DEF Marks
<1>9. Passed(q, m+1, s, head, s[x].next_free)
  <2>1. m + 1 # 0 /\ m + 1 \in 0 .. N
    BY <1>1, <1>5
  <2> QED BY <1>2, <1>4, <1>6, <1>7, <2>1 DEF Passed
<1> QED BY <1>8, <1>9

(* After n turns a walk that has neither ended nor given up has passed n   *)
(* slots.                                                                  *)
Walked(w, s, head, n) ==
  /\ w = [current |-> w.current, visited |-> w.visited, failed |-> w.failed]
  /\ w.current \in Nat /\ w.failed \in BOOLEAN
  /\ \E m, l : /\ Passed(l, m, s, head, w.current) /\ w.visited = Marks(l, m)
               /\ m = n \/ w.current = FREE_LIST_END \/ w.failed

LEMMA PassWalks ==
  ASSUME NEW s, AnyFields(s), NEW head, NEW w, NEW n \in Nat, Walked(w, s, head, n)
  PROVE  Walked(Pass(s, w), s, head, n+1)
<1>1. PICK m, l : /\ Passed(l, m, s, head, w.current) /\ w.visited = Marks(l, m)
                  /\ m = n \/ w.current = FREE_LIST_END \/ w.failed
  BY DEF Walked
<1>2. CASE w.current = FREE_LIST_END \/ w.failed
  <2>1. Pass(s, w) = w
    BY <1>2 DEF Pass
  <2> QED BY <1>1, <1>2, <2>1 DEF Walked
<1>3. CASE ~(w.current = FREE_LIST_END \/ w.failed) /\ (w.current >= N \/ w.current \in w.visited \/ s[w.current].kind # "Free")
  <2>1. Pass(s, w) = [current |-> w.current, visited |-> w.visited, failed |-> TRUE]
    <3>1. Pass(s, w) = [w EXCEPT !.failed = TRUE]
      BY <1>3 DEF Pass
    <3> QED BY <3>1 DEF Walked
  <2> DEFINE v == Pass(s, w)
  <2>2. v.current = w.current /\ v.visited = w.visited /\ v.failed = TRUE
    BY <2>1
  <2>3. v = [current |-> v.current, visited |-> v.visited, failed |-> v.failed]
    BY <2>1
  <2> HIDE DEF v
  <2>4. v.current \in Nat
    BY <2>2 DEF Walked
  <2>5. Walked(v, s, head, n+1)
    BY <1>1, <2>2, <2>3, <2>4 DEF Walked
  <2> QED BY <2>5 DEF v
<1>4. CASE ~(w.current = FREE_LIST_END \/ w.failed \/ w.current >= N \/ w.current \in w.visited \/ s[w.current].kind # "Free")
  <2>1. w.current \in Idx /\ w.current \notin w.visited /\ s[w.current].kind = "Free"
    BY <1>4 DEF Idx, Walked
  <2>2. Pass(s, w) = [current |-> s[w.current].next_free, visited |-> w.visited \cup {w.current},
                      failed |-> w.failed]
    <3>1. Pass(s, w) = [w EXCEPT !.current = s[w.current].next_free, !.visited = @ \cup {w.current}]
      BY <1>4 DEF Pass
    <3> QED BY <3>1 DEF Walked
  <2> DEFINE v == Pass(s, w)
  <2>3. v.current = s[w.current].next_free /\ v.visited = w.visited \cup {w.current} /\ v.failed = w.failed
    BY <2>2
  <2>4. v = [current |-> v.current, visited |-> v.visited, failed |-> v.failed]
    BY <2>2
  <2> HIDE DEF v
  <2>5. v.current \in Nat /\ v.failed \in BOOLEAN
    BY <2>1, <2>3 DEF AnyFields, Walked
  <2>6. PICK q : Passed(q, m+1, s, head, v.current) /\ Marks(q, m+1) = v.visited
    BY <1>1, <2>1, <2>3, OneMore
  <2>7. m = n
    BY <1>1, <1>4
  <2>8. Walked(v, s, head, n+1)
    BY <2>4, <2>5, <2>6, <2>7 DEF Walked
  <2> QED BY <2>8 DEF v
<1> QED BY <1>2, <1>3, <1>4

(* So a walk that has not given up has come to the end of a list.          *)
LEMMA WalkEnds ==
  ASSUME NEW s, AnyFields(s), NEW head \in Nat, ~Walk(s, head).failed
  PROVE  \E m, l : Passed(l, m, s, head, FREE_LIST_END) /\ Walk(s, head).visited = Marks(l, m)
<1>1. PICK f : Turns(f, s, head, N+1) /\ Walk(s, head) = f[N+1]
  BY WalkTurns
<1>2. \A n \in 0 .. N+1 : f[n] = IF n = 0 THEN FromHead(head) ELSE Pass(s, f[n-1])
  BY <1>1 DEF Turns
<1> DEFINE Wrong == {n \in 0 .. N+1 : ~Walked(f[n], s, head, n)}
<1>3. 0 \notin Wrong
  <2> DEFINE none == [j \in 1 .. 0 |-> 0]
  <2>1. none \in [1 .. 0 -> Idx] /\ 1 .. 0 = {} /\ 0 \in 0 .. N
    OBVIOUS
  <2> HIDE DEF none
  <2>2. Passed(none, 0, s, head, head) /\ Marks(none, 0) = {}
    BY <2>1 DEF Passed, Marks
  <2>3. f[0] = [current |-> head, visited |-> {}, failed |-> FALSE]
    <3>1. 0 \in 0 .. N+1
      OBVIOUS
    <3> QED BY <1>2, <3>1 DEF FromHead
  <2>4. Walked(f[0], s, head, 0)
    BY <2>2, <2>3 DEF Walked
  <2> QED BY <2>4
<1>4. ASSUME NEW n \in 1 .. N+1, n-1 \notin Wrong PROVE n \notin Wrong
  <2>1. n-1 \in Nat /\ n-1 \in 0 .. N+1 /\ (n-1)+1 = n /\ n # 0
    OBVIOUS
  <2>2. Walked(f[n-1], s, head, n-1)
    BY <1>4, <2>1
  <2>3. Walked(Pass(s, f[n-1]), s, head, (n-1)+1)
    BY <2>1, <2>2, PassWalks
  <2> QED BY <1>2, <2>1, <2>3
<1> HIDE DEF Wrong
<1>5. Wrong = {}
  <2>1. N+1 \in Nat /\ Wrong \subseteq 0 .. N+1
    BY DEF Wrong
  <2> QED BY <1>3, <1>4, <2>1, FirstWrong
<1>6. Walked(f[N+1], s, head, N+1)
  BY <1>5 DEF Wrong
<1> DEFINE w == f[N+1]
<1> HIDE DEF w
<1>7. PICK m, l : /\ Passed(l, m, s, head, w.current) /\ w.visited = Marks(l, m)
                  /\ m = N+1 \/ w.current = FREE_LIST_END \/ w.failed
  BY <1>6 DEF Walked, w
<1>8. m # N+1
  BY <1>7 DEF Passed
<1> QED BY <1>1, <1>7, <1>8 DEF w

(* And a list that is there, ends and has been passed is walked to its end. *)
LEMMA WalkOfList ==
  ASSUME NEW s, NEW head, NEW l, NEW k, Passed(l, k, s, head, FREE_LIST_END)
  PROVE  ~Walk(s, head).failed /\ Walk(s, head).visited = Marks(l, k)
<1>0. k \in Nat /\ k <= N /\ l \in [1 .. k -> Idx]
  BY DEF Passed
<1>1. PICK f : Turns(f, s, head, N+1) /\ Walk(s, head) = f[N+1]
  BY WalkTurns
<1>2. \A n \in 0 .. N+1 : f[n] = IF n = 0 THEN FromHead(head) ELSE Pass(s, f[n-1])
  BY <1>1 DEF Turns
<1> DEFINE Place(n) == IF n >= k THEN FREE_LIST_END ELSE l[n+1]
           Done(n)  == {l[j] : j \in {i \in 1 .. k : i <= n}}
           At(n)    == [current |-> Place(n), visited |-> Done(n), failed |-> FALSE]
           Wrong    == {n \in 0 .. N+1 : f[n] # At(n)}
<1>3. 0 \notin Wrong
  <2>1. Done(0) = {}
    BY <1>0
  <2>2. Place(0) = head
    BY <1>0 DEF Passed
  <2>3. f[0] = FromHead(head)
    <3>1. 0 \in 0 .. N+1
      OBVIOUS
    <3> QED BY <1>2, <3>1
  <2> HIDE DEF Done, Place
  <2> QED BY <2>1, <2>2, <2>3 DEF FromHead
<1>4. ASSUME NEW n \in 1 .. N+1, n-1 \notin Wrong PROVE n \notin Wrong
  <2>1. n \in Nat /\ n-1 \in Nat /\ n-1 \in 0 .. N+1 /\ (n-1)+1 = n /\ n # 0 /\ n \in 0 .. N+1
    OBVIOUS
  <2>2. f[n-1] = At(n-1) /\ f[n] = Pass(s, f[n-1])
    BY <1>2, <1>4, <2>1
  <2>3. CASE n-1 >= k
    <3>1. Place(n-1) = FREE_LIST_END /\ Place(n) = FREE_LIST_END
      BY <1>0, <2>1, <2>3
    <3>2. Done(n-1) = Done(n)
      <4>1. \A i \in 1 .. k : i <= n-1 /\ i <= n
        BY <1>0, <2>1, <2>3
      <4> QED BY <4>1
    <3> HIDE DEF Done, Place
    <3>3. f[n-1].current = FREE_LIST_END
      BY <2>2, <3>1
    <3>4. Pass(s, f[n-1]) = f[n-1]
      BY <3>3 DEF Pass
    <3> QED BY <2>2, <3>1, <3>2, <3>4
  <2>4. CASE ~(n-1 >= k)
    <3>1. n \in 1 .. k
      BY <1>0, <2>1, <2>4
    <3>2. Place(n-1) = l[n]
      BY <2>1, <2>4
    <3>3. l[n] \in Idx /\ s[l[n]].kind = "Free" /\ s[l[n]].next_free = Place(n)
      <4>1. Place(n) = IF n = k THEN FREE_LIST_END ELSE l[n+1]
        BY <1>0, <3>1
      <4> HIDE DEF Place
      <4> QED BY <1>0, <3>1, <4>1 DEF Passed
    <3>4. l[n] \notin Done(n-1)
      <4>1. \A i \in 1 .. k : i <= n-1 => l[i] # l[n]
        BY <1>0, <2>1, <3>1 DEF Passed
      <4> QED BY <4>1
    <3>5. Done(n) = Done(n-1) \cup {l[n]}
      <4>1. \A i \in 1 .. k : i <= n <=> (i <= n-1 \/ i = n)
        BY <1>0, <2>1
      <4> QED BY <3>1, <4>1
    <3>6. l[n] # FREE_LIST_END /\ ~(l[n] >= N)
      BY <3>3 DEF Idx
    <3> DEFINE w == f[n-1]
    <3> HIDE DEF Done, Place
    <3>7. w.current = l[n] /\ w.visited = Done(n-1) /\ w.failed = FALSE
          /\ w = [current |-> w.current, visited |-> w.visited, failed |-> w.failed]
      BY <2>2, <3>2
    <3> HIDE DEF w
    <3>8. Pass(s, w) = [w EXCEPT !.current = s[w.current].next_free, !.visited = @ \cup {w.current}]
      BY <3>3, <3>4, <3>6, <3>7 DEF Pass
    <3>9. Pass(s, w) = At(n)
      BY <3>3, <3>5, <3>7, <3>8
    <3> QED BY <2>2, <3>9 DEF w
  <2> QED BY <2>3, <2>4
<1> HIDE DEF Wrong
<1>5. Wrong = {}
  <2>1. N+1 \in Nat /\ Wrong \subseteq 0 .. N+1
    BY DEF Wrong
  <2> QED BY <1>3, <1>4, <2>1, FirstWrong
<1>6. f[N+1] = At(N+1)
  <2>1. N+1 \in 0 .. N+1
    OBVIOUS
  <2> QED BY <1>5, <2>1 DEF Wrong
<1>7. Done(N+1) = Marks(l, k)
  <2>1. \A i \in 1 .. k : i <= N+1
    BY <1>0
  <2> QED BY <2>1 DEF Marks
<1> HIDE DEF Done, Place
<1> QED BY <1>1, <1>6, <1>7
-----------------------------------------------------------------------------
(* A list of k slots is k slots. *)
LEMMA ListSize ==
  ASSUME NEW s, NEW head, NEW l, NEW k, NEW x, Passed(l, k, s, head, x)
  PROVE  IsFiniteSet(Marks(l, k)) /\ Cardinality(Marks(l, k)) = k
<1>0. k \in Nat /\ l \in [1 .. k -> Idx]
  BY DEF Passed
<1>1. IsFiniteSet(1 .. k) /\ Cardinality(1 .. k) = k
  <2>1. \A j \in Nat : 1 \in Int /\ j \in Int /\ (IF 1 > j THEN 0 ELSE j - 1 + 1) = j
    OBVIOUS
  <2>2. \A j \in Nat : IsFiniteSet(1 .. j) /\ Cardinality(1 .. j) = IF 1 > j THEN 0 ELSE j - 1 + 1
    BY <2>1, FS_Interval
  <2> QED BY <1>0, <2>1, <2>2
<1>2. l \in Surjection(1 .. k, Marks(l, k))
  BY <1>0 DEF Surjection, Marks
<1>3. l \in Injection(1 .. k, Marks(l, k))
  BY <1>2 DEF Passed, Surjection, Injection, IsInjective
<1> QED BY <1>1, <1>2, <1>3, FS_Surjection

FreeOf(s) == {i \in Idx : s[i].kind = "Free"}
UsedOf(s) == {i \in Idx : s[i].kind = "Occupied"}

LEMMA Halves ==
  ASSUME NEW s, AnyFields(s)
  PROVE  /\ UsedOf(s) = Idx \ FreeOf(s) /\ FreeOf(s) = Idx \ UsedOf(s)
         /\ IsFiniteSet(FreeOf(s)) /\ IsFiniteSet(UsedOf(s))
         /\ Cardinality(FreeOf(s)) \in Nat /\ Cardinality(UsedOf(s)) \in Nat
         /\ Cardinality(FreeOf(s)) + Cardinality(UsedOf(s)) = N
<1>1. UsedOf(s) = Idx \ FreeOf(s) /\ FreeOf(s) = Idx \ UsedOf(s)
  BY DEF UsedOf, FreeOf, AnyFields
<1>2. FreeOf(s) \subseteq Idx /\ UsedOf(s) \subseteq Idx
  BY DEF UsedOf, FreeOf
<1>3. IsFiniteSet(FreeOf(s)) /\ IsFiniteSet(UsedOf(s))
  BY <1>2, IdxFinite, FS_Subset
<1>4. Cardinality(FreeOf(s)) \in Nat /\ Cardinality(UsedOf(s)) \in Nat
  BY <1>3, FS_CardinalityType
<1>5. FreeOf(s) \cup UsedOf(s) = Idx /\ FreeOf(s) \cap UsedOf(s) = {}
  BY <1>1, <1>2
<1>6. Cardinality(Idx) = Cardinality(FreeOf(s)) + Cardinality(UsedOf(s)) - Cardinality({})
  BY <1>3, <1>5, FS_Union
<1>7. Cardinality({}) = 0
  BY FS_EmptySet
<1>8. \A a, b \in Nat : a + b - 0 = a + b
  OBVIOUS
<1> QED BY <1>1, <1>3, <1>4, <1>6, <1>7, <1>8, IdxFinite

(* What validate() tests is consistency. *)
LEMMA ValidateSound ==
  ASSUME NEW s, AnyFields(s), NEW head \in Nat, NEW count, Validate(s, head, count)
  PROVE  Consistent(s, head, count)
<1> DEFINE k == Cardinality(FreeOf(s))
<1>1. /\ Cardinality(UsedOf(s)) = count
      /\ ~Walk(s, head).failed
      /\ Cardinality(Walk(s, head).visited) + Cardinality(UsedOf(s)) = N
      /\ \A i \in Idx \ UsedOf(s) : i \in Walk(s, head).visited
  BY DEF Validate, UsedOf
<1>2. PICK m, l : Passed(l, m, s, head, FREE_LIST_END) /\ Walk(s, head).visited = Marks(l, m)
  BY <1>1, WalkEnds
<1>3. Marks(l, m) = FreeOf(s)
  <2>1. FreeOf(s) \subseteq Marks(l, m)
    BY <1>1, <1>2, Halves
  <2>2. Marks(l, m) \subseteq FreeOf(s)
    BY <1>2 DEF Marks, Passed, FreeOf
  <2> QED BY <2>1, <2>2
<1>4. m = k
  BY <1>2, <1>3, ListSize
<1>5. count = N - k
  <2>1. \A a, b \in Nat : a + b = N => b = N - a
    OBVIOUS
  <2> QED BY <1>1, <2>1, Halves
<1>6. l \in [1 .. k -> FreeOf(s)]
  BY <1>2, <1>3, <1>4 DEF Passed, Marks
<1> HIDE DEF k
<1>7. /\ \A i, n \in 1 .. k : l[i] = l[n] => i = n
      /\ head = IF k = 0 THEN FREE_LIST_END ELSE l[1]
      /\ \A n \in 1 .. k : s[l[n]].next_free = IF n = k THEN FREE_LIST_END ELSE l[n+1]
  BY <1>2, <1>4 DEF Passed
<1> QED BY <1>5, <1>6, <1>7 DEF Consistent, k, FreeOf

LEMMA ValidateComplete ==
  ASSUME NEW s, AnyFields(s), NEW head, NEW count, Consistent(s, head, count)
  PROVE  Validate(s, head, count)
<1> DEFINE k == Cardinality(FreeOf(s))
<1>1. count = N - k
  BY DEF Consistent, FreeOf
<1>2. PICK l \in [1 .. k -> FreeOf(s)] :
        /\ \A m, n \in 1 .. k : l[m] = l[n] => m = n
        /\ head = IF k = 0 THEN FREE_LIST_END ELSE l[1]
        /\ \A n \in 1 .. k : s[l[n]].next_free = IF n = k THEN FREE_LIST_END ELSE l[n+1]
  BY DEF Consistent, FreeOf
<1>3. k \in Nat /\ k <= N /\ Cardinality(UsedOf(s)) = N - k
  <2>1. \A a, b \in Nat : a + b = N => a <= N /\ b = N - a
    OBVIOUS
  <2> QED BY <2>1, Halves
<1>3a. k = Cardinality(FreeOf(s))
  OBVIOUS
<1> HIDE DEF k
<1>4. Passed(l, k, s, head, FREE_LIST_END)
  <2>1. l \in [1 .. k -> Idx]
    BY DEF FreeOf
  <2>2. \A n \in 1 .. k : s[l[n]].kind = "Free"
    BY DEF FreeOf
  <2> QED BY <1>2, <1>3, <2>1, <2>2 DEF Passed
<1>5. ~Walk(s, head).failed /\ Walk(s, head).visited = Marks(l, k)
  BY <1>4, WalkOfList
<1>6. Marks(l, k) \subseteq FreeOf(s)
  BY DEF Marks
<1>7. Marks(l, k) = FreeOf(s)
  BY <1>3a, <1>4, <1>6, ListSize, Halves, FS_Subset
<1>8. Cardinality(Marks(l, k)) + Cardinality(UsedOf(s)) = N
  BY <1>3a, <1>7, Halves
<1>9. \A i \in Idx \ UsedOf(s) : i \in Marks(l, k)
  BY <1>7, Halves
<1> QED BY <1>1, <1>3, <1>5, <1>8, <1>9 DEF Validate, UsedOf

(* What the calls maintain is consistency. *)
LEMMA InvConsistent == IInv => Consistent(slots, free_head, len)
<1> SUFFICES ASSUME IInv PROVE Consistent(slots, free_head, len)
  OBVIOUS
<1>1. PICK k \in 0 .. N : \E l \in [1 .. k -> Idx] : IsFreeList(k, l)
  BY DEF IInv, FreeListIntact
<1>2. PICK l \in [1 .. k -> Idx] : IsFreeList(k, l)
  BY <1>1
<1>3. AnyFields(slots)
  BY SlotShape DEF IInv, SlotsOK, AnyFields, Link, Idx, Slot, FreeSlot, OccupiedSlot
<1>4. Allocated = UsedOf(slots)
  BY DEF Allocated, IsOccupied, UsedOf
<1>5. len = Cardinality(UsedOf(slots)) /\ len + k = N /\ len \in Nat /\ k \in Nat
  BY <1>2, <1>3, <1>4, Halves DEF IInv, LenIsExact, IsFreeList
<1>6. k = Cardinality(FreeOf(slots)) /\ len = N - k
  <2>1. \A a, b, c \in Nat : a + b = N /\ c + a = N => b = c /\ a = N - b
    OBVIOUS
  <2> QED BY <1>3, <1>5, <2>1, Halves
<1>7. \A n \in 1 .. k : slots[l[n]] = FreeSlot(IF n = k THEN FREE_LIST_END ELSE l[n+1])
  BY <1>2 DEF IsFreeList
<1>8. \A n \in 1 .. k : /\ slots[l[n]].kind = "Free"
                        /\ slots[l[n]].next_free = IF n = k THEN FREE_LIST_END ELSE l[n+1]
  <2>1. \A y : FreeSlot(y).kind = "Free" /\ FreeSlot(y).next_free = y
    BY DEF FreeSlot
  <2> QED BY <1>7, <2>1
<1>9. l \in [1 .. k -> FreeOf(slots)]
  BY <1>8 DEF FreeOf
<1>10. /\ \A m, n \in 1 .. k : l[m] = l[n] => m = n
       /\ free_head = IF k = 0 THEN FREE_LIST_END ELSE l[1]
  BY <1>2 DEF IsFreeList
<1> QED BY <1>6, <1>8, <1>9, <1>10 DEF Consistent, FreeOf

LEMMA InvValidates == IInv => ValidateExact
<1> SUFFICES ASSUME IInv PROVE ValidateExact
  OBVIOUS
<1>1. AnyFields(slots)
  BY SlotShape DEF IInv, SlotsOK, AnyFields, Link, Idx, Slot, FreeSlot, OccupiedSlot
<1>2. Validate(slots, free_head, len)
  BY <1>1, InvConsistent, ValidateComplete
<1>3. ASSUME NEW i \in Idx, NEW x \in Handle \cup {FREE_LIST_END},
             NEW head \in Handle \cup {FREE_LIST_END}, NEW count,
             NEW s, s = [slots EXCEPT ![i] = FreeSlot(x)]
      PROVE  Validate(s, head, count) <=> Consistent(s, head, count)
  <2>1. x \in Nat /\ head \in Nat
    BY DEF Handle
  <2>2. \A j \in Idx : s[j] = IF j = i THEN FreeSlot(x) ELSE slots[j]
    BY <1>3 DEF IInv, SlotsOK
  <2>3. AnyFields(s)
    BY <1>1, <2>1, <2>2 DEF AnyFields, FreeSlot
  <2> QED BY <2>1, <2>3, ValidateSound, ValidateComplete
<1> QED BY <1>2, <1>3 DEF ValidateExact

(* Arena::validate() accepts the arena whatever calls were made, and with  *)
(* a slot, the head and the count changed at will it answers true only if  *)
(* the free list and the count are consistent, for every capacity.         *)
THEOREM ValidateDecides == Spec => []ValidateExact
<1>1. IInv => ValidateExact
  BY InvValidates
<1> QED BY <1>1, InvHolds, PTL
=============================================================================
