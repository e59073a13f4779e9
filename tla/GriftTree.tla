----------------------------- MODULE GriftTree ----------------------------
(***************************************************************************)
(* Arena::delete_recursive and Arena::copy_deep over the slots of          *)
(* GriftArena, with the element type of their documentation: a leaf, or a  *)
(* branch that holds two indices.  The recursion goes through the value's  *)
(* own trait implementation and back; "frames" is the part of the Rust     *)
(* stack that belongs to it.  A step is one call on the arena and what     *)
(* happens up to the next.  Nothing obliges the indices in a branch to     *)
(* make up a tree: they may dangle, be shared, or lead back.               *)
(***************************************************************************)
EXTENDS GriftArena, GriftReach, Sequences

CONSTANTS Payload,   \* what a leaf carries
          Written,   \* the values the program stores itself
          MaxDepth   \* activations that fit the Rust stack

Leaf(n)      == [kind |-> "Leaf", payload |-> n]
Branch(l, r) == [kind |-> "Branch", left |-> l, right |-> r]

ASSUME TreeAssumption ==
  /\ Value = {Leaf(n) : n \in Payload} \cup {Branch(l, r) : l, r \in Handle}
  /\ Written \subseteq Value
  /\ MaxDepth \in Nat
  /\ MaxDepth > N

VARIABLES task,    \* the call in progress: operation, argument, where it stands
          node,    \* the index the next activation is called with
          frames,  \* activations that have read their value, outermost first
          before   \* the slots when the call began (observation only)

treeVars == <<task, node, frames, before>>

Idle         == [op |-> "none", root |-> 0, at |-> "idle", answer |-> "none"]
Kids(v)      == IF v.kind = "Leaf" THEN << >> ELSE <<v.left, v.right>>
Frame(i, v)  == [idx |-> i, value |-> v, made |-> << >>]
At(where)    == [task EXCEPT !.at = where]
Answer(x)    == [task EXCEPT !.at = "done", !.answer = x]

(* Branch(new_left, new_right); a leaf is copied as it is. *)
Rebuilt(v, made) == IF v.kind = "Leaf" THEN v ELSE Branch(made[1], made[2])

TreeInit == Init /\ task = Idle /\ node = 0 /\ frames = << >> /\ before = FreshSlots
-----------------------------------------------------------------------------
(* The calls of GriftArena between those that recurse; the others lead to  *)
(* no slots that these do not.                                             *)
ArenaCall == /\ task.at = "idle"
             /\ \/ \E v \in Written : Alloc(v)
                \/ \E i \in Handle : Free(i) \/ \E v \in Written : Set(i, v)
             /\ UNCHANGED treeVars

Start(op, i) ==
  /\ task.at = "idle"
  /\ task' = [op |-> op, root |-> i, at |-> "visit", answer |-> "none"]
  /\ node' = i
  /\ before' = slots
  /\ UNCHANGED <<vars, frames>>

ProceedOnSelf(s) ==   \* mutant: recurses on the node itself, not on its child
  LET f == s[Len(s)]  k == Len(f.made) + 1
  IN  /\ frames' = s
      /\ IF k <= Len(Kids(f.value))
         THEN task' = At("visit") /\ node' = f.idx
         ELSE task' = At("finish") /\ UNCHANGED node

(* The innermost activation of s goes on to its next child or, when it has *)
(* none left, to its last call.                                            *)
Proceed(s) ==
  LET f == s[Len(s)]  k == Len(f.made) + 1
  IN  /\ frames' = s
      /\ IF k <= Len(Kids(f.value))
         THEN task' = At("visit") /\ node' = Kids(f.value)[k]
         ELSE task' = At("finish") /\ UNCHANGED node

(* ? takes an error out of all the activations at once. *)
Fail(e) == task' = Answer(e) /\ frames' = << >> /\ UNCHANGED node

(* The recursion is deeper than the stack: the process is aborted. *)
Overflow == task' = At("aborted") /\ UNCHANGED <<node, frames>>

VisitUnbounded ==     \* mutant: no limit to the recursion
  /\ task.at = "visit"
  /\ Get(node)
  /\ UNCHANGED before
  /\ \/ ~ValidIndex(node) /\ Fail(IndexError(node))
     \/ ValidIndex(node) /\ Proceed(Append(frames, Frame(node, slots[node].value)))

Visit ==
  /\ task.at = "visit"
  /\ Get(node)
  /\ UNCHANGED before
  /\ \/ ~ValidIndex(node) /\ Fail(IndexError(node))
     \/ ValidIndex(node) /\ Len(frames) = MaxDepth /\ Overflow
     \/ /\ ValidIndex(node) /\ Len(frames) < MaxDepth
        /\ Proceed(Append(frames, Frame(node, slots[node].value)))

(* The innermost activation answers x to the one around it. *)
WithChild(f, x) == [f EXCEPT !.made = Append(@, x)]
Returns(x) ==
  LET k == Len(frames)
  IN  IF k = 1
      THEN task' = Answer("Ok") /\ frames' = << >> /\ node' = x
      ELSE Proceed(Append(SubSeq(frames, 1, k-2), WithChild(frames[k-1], x)))

Innermost == frames[Len(frames)]

FreeAncestor ==       \* mutant: the outermost node is freed instead
  /\ task.at = "finish" /\ task.op = "delete"
  /\ Free(frames[1].idx)
  /\ UNCHANGED before
  /\ Returns(Innermost.idx)

(* self.free(index)?  Nothing has been allocated since index was visited,  *)
(* and only its descendants have been freed.                               *)
FinishDelete ==
  /\ task.at = "finish" /\ task.op = "delete"
  /\ Free(Innermost.idx)
  /\ UNCHANGED before
  /\ \/ ~ValidIndex(Innermost.idx) /\ Fail(IndexError(Innermost.idx))
     \/ ValidIndex(Innermost.idx) /\ Returns(Innermost.idx)

AllocShallow ==       \* mutant: the copy refers to the children of the original
  /\ task.at = "finish" /\ task.op = "copy"
  /\ Alloc(Innermost.value)
  /\ UNCHANGED before
  /\ \/ free_head = FREE_LIST_END /\ Fail("OutOfMemory")
     \/ free_head # FREE_LIST_END /\ Returns(free_head)

CopyCleansUp ==       \* mutant: an error path that frees the wrong node
  /\ task.at = "finish" /\ task.op = "copy"
  /\ UNCHANGED before
  /\ \/ free_head = FREE_LIST_END /\ Free(Innermost.idx) /\ Fail("OutOfMemory")
     \/ /\ free_head # FREE_LIST_END
        /\ Alloc(Rebuilt(Innermost.value, Innermost.made))
        /\ Returns(free_head)

(* self.alloc(copied) *)
FinishCopy ==
  /\ task.at = "finish" /\ task.op = "copy"
  /\ Alloc(Rebuilt(Innermost.value, Innermost.made))
  /\ UNCHANGED before
  /\ \/ free_head = FREE_LIST_END /\ Fail("OutOfMemory")
     \/ free_head # FREE_LIST_END /\ Returns(free_head)

(* The caller has its answer. *)
Return == /\ task.at = "done"
          /\ task' = Idle /\ node' = 0 /\ before' = FreshSlots
          /\ UNCHANGED <<vars, frames>>

Aborted == task.at = "aborted" /\ UNCHANGED <<vars, treeVars>>

TreeNext == \/ ArenaCall
            \/ \E op \in {"delete", "copy"}, i \in Handle : Start(op, i)
            \/ Visit \/ FinishDelete \/ FinishCopy
            \/ Return \/ Aborted

TreeSpec == TreeInit /\ [][TreeNext]_<<vars, treeVars>>
-----------------------------------------------------------------------------
(* What hangs together, in the slots s. *)
Filled(s) == {i \in Idx : s[i].kind = "Occupied"}
KidsAt(s, i) == IF i \in Filled(s) THEN Kids(s[i].value) ELSE << >>
Entries(s, i) == {<<i, k>> : k \in DOMAIN KidsAt(s, i)}   \* places for children in i
KidAt(s, e) == KidsAt(s, e[1])[e[2]]
LinksOf(s) == [i \in Idx |-> {KidAt(s, e) : e \in Entries(s, i)} \cap Idx]
Below(s, i) == Reachable(LinksOf(s), {i} \cap Idx)
Places(s, S) == UNION {Entries(s, i) : i \in S}

(* From i every path ends in a leaf, and no two paths meet. *)
IsTree(s, i) ==
  /\ i \in Filled(s)
  /\ Below(s, i) \subseteq Filled(s)
  /\ \A e \in Places(s, Below(s, i)) : KidAt(s, e) \in Idx \ {i}
  /\ \A d, e \in Places(s, Below(s, i)) : KidAt(s, d) = KidAt(s, e) => d = e

(* At every moment, a call in progress, failed or aborted has not touched  *)
(* what is not its own: copy_deep no slot that was occupied when it began, *)
(* delete_recursive none that its argument does not lead to.               *)
Confined ==
  task.at # "idle" =>
    /\ task.op = "copy" => \A i \in Filled(before) : slots[i] = before[i]
    /\ task.op = "delete" => /\ \A i \in Filled(slots) : slots[i] = before[i]
                             /\ Filled(before) \ Filled(slots) \subseteq Below(before, task.root)

(* delete_recursive: it succeeds exactly on trees and then has freed all   *)
(* of the tree.  Otherwise some of the nodes below its argument may be     *)
(* gone, never the argument itself, which then refers to free slots.       *)
DeletesTrees ==
  task.at = "done" /\ task.op = "delete" =>
    LET gone == Filled(before) \ Allocated
    IN  /\ task.answer = "Ok" <=> IsTree(before, task.root)
        /\ task.answer = "Ok" => gone = Below(before, task.root)
        /\ task.answer # "Ok" => task.root \notin gone

(* "origin" tells of each new node which one it is a copy of. *)
CopyOf(origin, new, i) ==
  /\ origin[new] = task.root
  /\ slots[i].value.kind = before[origin[i]].value.kind
  /\ LET v == slots[i].value  o == before[origin[i]].value
     IN  /\ v.kind = "Leaf" => v = o
         /\ \A k \in DOMAIN Kids(v) : /\ Kids(v)[k] \in DOMAIN origin
                                      /\ origin[Kids(v)[k]] = Kids(o)[k]

(* No index below i dangles. *)
Intact(s, i) == \A e \in Places(s, Below(s, i)) : KidAt(s, e) \in Filled(s)

(* copy_deep: when it succeeds, all that is new is a tree, in slots of its *)
(* own: the unfolding of the original, which may share.  Only where an     *)
(* index of the original dangles may the tree be another, for the copy of  *)
(* one child can come to lie in the slot that the other's index leads to.  *)
CopiesTrees ==
  task.at = "done" /\ task.op = "copy" =>
    LET fresh == Allocated \ Filled(before)
    IN  task.answer = "Ok" =>
          /\ IsTree(slots, node)
          /\ fresh = Below(slots, node)
          /\ Intact(before, task.root) =>
               \E origin \in [fresh -> Filled(before)] :
                  \A i \in fresh : CopyOf(origin, node, i)

(* The recursion runs out of stack only where the structure leads back to  *)
(* itself: a node below the argument is below one of its own children.     *)
AbortsOnCycles ==
  task.at = "aborted" =>
    \E i \in Below(before, task.root) : \E j \in LinksOf(before)[i] : i \in Below(before, j)

TreeTypeOK == /\ TypeOK
              /\ task.at \in {"idle", "visit", "finish", "done", "aborted"}
              /\ node \in Handle
              /\ Len(frames) <= MaxDepth
              /\ \A k \in DOMAIN frames :
                   /\ frames[k].idx \in Idx /\ frames[k].value \in Value
                   /\ Len(frames[k].made) <= Len(Kids(frames[k].value))
                   /\ \A m \in DOMAIN frames[k].made : frames[k].made[m] \in Idx
=============================================================================
