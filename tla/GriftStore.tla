---------------------------- MODULE GriftStore ----------------------------
(***************************************************************************)
(* What a fixed-capacity arena promises its callers, with no free list in  *)
(* sight: a partial map from the allocated indices to values.  An          *)
(* allocation may return any unallocated index; it fails exactly when      *)
(* there is none.  A call on an index that is out of range or not          *)
(* allocated reports the error and changes nothing.                        *)
(*                                                                         *)
(* "res" is the result of the last call: the pair a Rust caller sees,      *)
(* tagged with the operation so that results of different calls differ.    *)
(***************************************************************************)
EXTENDS Integers

CONSTANTS N,      \* capacity of the arena, a natural number
          Value   \* the values it may hold

VARIABLES store,  \* [allocated indices -> Value]
          res     \* result of the last call

storeVars == <<store, res>>

Idx    == 0 .. N-1
Handle == 0 .. N        \* N stands for every raw index past the end

Ok(op, x)   == <<op, "Ok", x>>
Err(op, e)  == <<op, "Err", e>>
IndexError(i) == IF i \in Idx THEN "IndexNotAllocated" ELSE "IndexOutOfBounds"

Allocated == DOMAIN store

TypeOK == store \in UNION {[S -> Value] : S \in SUBSET Idx}

Init == /\ store = [i \in {} |-> {}]
        /\ res = Ok("new", "unit")
-----------------------------------------------------------------------------
Alloc(v) ==
  \/ \E i \in Idx \ Allocated :
       /\ store' = [j \in Allocated \cup {i} |-> IF j = i THEN v ELSE store[j]]
       /\ res' = Ok("alloc", i)
  \/ /\ Allocated = Idx
     /\ res' = Err("alloc", "OutOfMemory")
     /\ UNCHANGED store

Get(i) ==
  /\ res' = IF i \in Allocated THEN Ok("get", store[i])
                               ELSE Err("get", IndexError(i))
  /\ UNCHANGED store

\* A call on one index that either fails or rewrites the map.
OnIndex(op, i, newStore, answer) ==
  \/ /\ i \in Allocated
     /\ store' = newStore
     /\ res' = Ok(op, answer)
  \/ /\ i \notin Allocated
     /\ res' = Err(op, IndexError(i))
     /\ UNCHANGED store

Set(i, v) == OnIndex("set", i, [store EXCEPT ![i] = v], "unit")

\* The caller's closure may turn the old value into any other, v.
Modify(i, v) == OnIndex("modify", i, [store EXCEPT ![i] = v], "unit")

Replace(i, v) == OnIndex("replace", i, [store EXCEPT ![i] = v], store[i])

Free(i) == OnIndex("free", i, [j \in Allocated \ {i} |-> store[j]], "unit")

\* Both indices are checked, the first one first, before either is written.
Swap(a, b) ==
  \/ /\ a \in Allocated
     /\ OnIndex("swap", b, [store EXCEPT ![a] = store[b], ![b] = store[a]], "unit")
  \/ /\ a \notin Allocated
     /\ res' = Err("swap", IndexError(a))
     /\ UNCHANGED store

ForEachMut ==
  /\ store' \in [Allocated -> Value]
  /\ res' = Ok("for_each_mut", "unit")

Clear == /\ store' = [i \in {} |-> {}]
         /\ res' = Ok("clear", "unit")

Next ==
  \/ \E v \in Value : Alloc(v)
  \/ \E i \in Handle : \/ Get(i)
                       \/ Free(i)
                       \/ \E v \in Value : Set(i, v) \/ Replace(i, v) \/ Modify(i, v)
                       \/ \E j \in Handle : Swap(i, j)
  \/ ForEachMut
  \/ Clear

Spec == Init /\ [][Next]_storeVars
=============================================================================
