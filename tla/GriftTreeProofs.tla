-------------------------- MODULE GriftTreeProofs -------------------------
(***************************************************************************)
(* For arenas of every capacity, values of every shape and structures that *)
(* dangle, share and lead back: delete_recursive and copy_deep are calls   *)
(* on the arena, so what is proved of the arena holds here; their stack of *)
(* activations is well formed; they touch only what is their own; a        *)
(* deletion succeeds exactly on trees, a copy makes a tree that unfolds    *)
(* the original, and only a cycle exhausts the stack.                      *)
(***************************************************************************)
EXTENDS GriftTree, GriftArenaProofs, SequenceTheorems, WellFoundedInduction

USE ArenaAssumption, TreeAssumption

Answers == {"none", "Ok", "IndexOutOfBounds", "IndexNotAllocated", "OutOfMemory"}
Activation == [idx : Idx, value : Value, made : Seq(Idx)]
Task == [op     : {"none", "delete", "copy"},
         root   : Handle,
         at     : {"idle", "visit", "finish", "done", "aborted"},
         answer : Answers]
Open(f) == Len(f.made) < Len(Kids(f.value))   \* waits for a child

(* A stack whose innermost activation may have all its children. *)
StackOK(s) == /\ s \in Seq(Activation)
              /\ Len(s) <= MaxDepth
              /\ \A k \in 1 .. Len(s)-1 : Open(s[k])
              /\ s # << >> => Len(s[Len(s)].made) <= Len(Kids(s[Len(s)].value))

(* What the nodes of a deletion under way have in common. *)
Own(i)   == i \in Below(before, task.root)
Owned(s) == \A k \in 1 .. Len(s) : /\ Own(s[k].idx)
                                   /\ s[k].idx \in Filled(before)
                                   /\ s[k].value = before[s[k].idx].value

TreeTyped == /\ task \in Task
             /\ node \in Handle
             /\ before \in [Idx -> Slot]
             /\ StackOK(frames)
StackAt == /\ task.at = "visit" => \A k \in 1 .. Len(frames) : Open(frames[k])
           /\ task.at = "finish" => /\ frames # << >>
                                    /\ ~Open(frames[Len(frames)])
           /\ task.at \in {"idle", "done"} => frames = << >>
           /\ (task.op = "none") <=> (task.at = "idle")
DeleteOwned ==
  task.op = "delete" => /\ Owned(frames)
                        /\ task.at = "visit" /\ node \in Idx => Own(node)
TreeInv == IInv /\ TreeTyped /\ StackAt /\ DeleteOwned /\ Confined
-----------------------------------------------------------------------------
LEMMA Prefix ==
  ASSUME NEW S, NEW s \in Seq(S), NEW n \in 0 .. Len(s)
  PROVE  /\ SubSeq(s, 1, n) \in Seq(S) /\ Len(SubSeq(s, 1, n)) = n
         /\ \A m \in 1 .. n : SubSeq(s, 1, n)[m] = s[m]
OBVIOUS

LEMMA ValueShape ==
  ASSUME NEW v \in Value
  PROVE  /\ \/ \E n \in Payload : v = Leaf(n)
            \/ \E l, r \in Handle : v = Branch(l, r)
         /\ Kids(v) \in Seq(Handle)
         /\ Len(Kids(v)) \in {0, 2}
         /\ v.kind = "Leaf" <=> Len(Kids(v)) = 0
<1>1. CASE \E n \in Payload : v = Leaf(n)
  BY <1>1 DEF Leaf, Kids
<1>2. CASE \E l, r \in Handle : v = Branch(l, r)
  BY <1>2 DEF Branch, Kids
<1>3. QED
  BY <1>1, <1>2

LEMMA RebuiltIsValue ==
  ASSUME NEW v \in Value, NEW made \in Seq(Idx), Len(made) = Len(Kids(v))
  PROVE  Rebuilt(v, made) \in Value
<1>1. CASE v.kind = "Leaf"
  BY <1>1 DEF Rebuilt
<1>2. CASE v.kind # "Leaf"
  <2>1. Len(made) = 2
    BY <1>2, ValueShape
  <2>2. made[1] \in Idx /\ made[2] \in Idx
    BY <2>1
  <2>3. QED
    BY <1>2, <2>2 DEF Rebuilt, Idx, Handle
<1>3. QED
  BY <1>1, <1>2

(* A node's children, those out of range left aside, are below whatever    *)
(* the node is below, and a node is below itself.                          *)
LEMMA BelowClosed ==
  ASSUME NEW s \in [Idx -> Slot], NEW i, NEW j \in Idx, j \in Below(s, i),
         s[j].kind = "Occupied", NEW k \in 1 .. Len(Kids(s[j].value)),
         Kids(s[j].value)[k] \in Idx
  PROVE  Kids(s[j].value)[k] \in Below(s, i)
<1>1. s[j].value \in Value
  BY SlotShape
<1>2. KidsAt(s, j) = Kids(s[j].value) /\ k \in DOMAIN KidsAt(s, j)
  BY <1>1, ValueShape DEF KidsAt, Filled
<1>3. <<j, k>> \in Entries(s, j) /\ KidAt(s, <<j, k>>) = Kids(s[j].value)[k]
  BY <1>2 DEF Entries, KidAt
<1>4. Kids(s[j].value)[k] \in LinksOf(s)[j] /\ DOMAIN LinksOf(s) = Idx
  BY <1>3 DEF LinksOf
<1>5. QED
  BY <1>4 DEF Below, Reachable, ClosedIn

LEMMA BelowRoot == ASSUME NEW s, NEW i \in Idx PROVE i \in Below(s, i)
BY DEF Below, Reachable, LinksOf
-----------------------------------------------------------------------------
LEMMA InitTreeInv == TreeInit => TreeInv
<1> SUFFICES ASSUME TreeInit PROVE TreeInv
  OBVIOUS
<1>1. IInv
  BY FreshIsIntact DEF TreeInit, Init
<1>2. before \in [Idx -> Slot]
  BY <1>1 DEF TreeInit, Init, IInv, SlotsOK
<1>3. TreeTyped
  <2>1. StackOK(<< >>)
    BY DEF StackOK
  <2>2. 0 \in Handle
    BY DEF Handle
  <2>3. Idle \in Task
    BY <2>2 DEF Idle, Task, Answers
  <2>4. QED
    BY <1>2, <2>1, <2>2, <2>3 DEF TreeInit, TreeTyped
<1>4. QED
  BY <1>1, <1>3 DEF TreeInit, TreeInv, StackAt, DeleteOwned, Confined, Idle

(* The innermost activation goes on: to a child, or to its last call.      *)
LEMMA ProceedFacts ==
  ASSUME TreeTyped, NEW s, StackOK(s), s # << >>, Proceed(s)
  PROVE  /\ StackOK(frames')
         /\ task' \in Task /\ node' \in Handle
         /\ task'.op = task.op /\ task'.root = task.root
         /\ frames' = s
         /\ \/ /\ task'.at = "visit"
               /\ \A k \in 1 .. Len(s) : Open(s[k])
               /\ \E k \in 1 .. Len(Kids(s[Len(s)].value)) : node' = Kids(s[Len(s)].value)[k]
            \/ task'.at = "finish" /\ ~Open(s[Len(s)])
<1> DEFINE f == s[Len(s)]
           k == Len(f.made) + 1
<1>1. f \in Activation /\ Len(s) \in Nat \ {0}
  BY DEF StackOK
<1>2. f.made \in Seq(Idx) /\ k \in Nat \ {0} /\ f.value \in Value
  BY <1>1 DEF Activation
<1>3. frames' = s
  BY DEF Proceed
<1>4. CASE k <= Len(Kids(f.value))
  <2>1. task' = At("visit") /\ node' = Kids(f.value)[k]
    BY <1>4 DEF Proceed
  <2>2. Kids(f.value) \in Seq(Handle)
    BY <1>2, ValueShape
  <2>3. k \in 1 .. Len(Kids(f.value))
    BY <1>2, <1>4, <2>2
  <2>4. node' \in Handle
    BY <2>1, <2>2, <2>3
  <2>5. \A m \in 1 .. Len(s) : Open(s[m])
    BY <1>1, <1>2, <1>4, <2>2 DEF StackOK, Open
  <2>6. task' \in Task /\ task'.at = "visit" /\ task'.op = task.op /\ task'.root = task.root
    BY <2>1 DEF At, TreeTyped, Task
  <2>7. \E m \in 1 .. Len(Kids(f.value)) : node' = Kids(f.value)[m]
    BY <2>1, <2>3
  <2>8. QED
    BY <1>3, <2>4, <2>5, <2>6, <2>7
<1>5. CASE ~(k <= Len(Kids(f.value)))
  <2>1. task' = At("finish") /\ node' = node
    BY <1>5 DEF Proceed
  <2>2. ~Open(f)
    BY <1>2, <1>5, ValueShape DEF Open
  <2>3. task' \in Task /\ task'.at = "finish" /\ task'.op = task.op /\ task'.root = task.root
    BY <2>1 DEF At, TreeTyped, Task
  <2>4. node' \in Handle
    BY <2>1 DEF TreeTyped
  <2>5. QED
    BY <1>3, <2>2, <2>3, <2>4
<1>6. QED
  BY <1>4, <1>5

(* What an error does to the stack. *)
LEMMA FailFacts ==
  ASSUME TreeTyped, NEW e \in Answers, Fail(e)
  PROVE  /\ StackOK(frames') /\ frames' = << >>
         /\ task' \in Task /\ node' = node
         /\ task'.op = task.op /\ task'.root = task.root /\ task'.at = "done"
<1>1. StackOK(<< >>)
  BY DEF StackOK
<1>2. QED
  BY <1>1 DEF Fail, Answer, TreeTyped, Task

LEMMA ErrorString == \A i \in Handle : IndexError(i) \in Answers
BY DEF IndexError, Answers

(* The innermost activation leaves the stack; the one around it has one    *)
(* child more.                                                             *)
LEMMA ReturnsFacts ==
  ASSUME TreeTyped, task.at = "finish", StackAt, NEW x \in Idx, Returns(x)
  PROVE  /\ StackOK(frames')
         /\ task' \in Task /\ node' \in Handle
         /\ task'.op = task.op /\ task'.root = task.root
         /\ Len(frames') < Len(frames)
         /\ \A k \in 1 .. Len(frames') : /\ frames'[k].idx = frames[k].idx
                                         /\ frames'[k].value = frames[k].value
         /\ \/ /\ task'.at = "visit"
               /\ \A k \in 1 .. Len(frames') : Open(frames'[k])
               /\ \E k \in 1 .. Len(Kids(frames'[Len(frames')].value)) :
                     node' = Kids(frames'[Len(frames')].value)[k]
            \/ task'.at = "finish" /\ ~Open(frames'[Len(frames')])
            \/ task'.at = "done"
         /\ frames' = << >> <=> task'.at = "done"
<1> DEFINE k == Len(frames)
<1>1. frames \in Seq(Activation) /\ k \in Nat \ {0}
  BY DEF TreeTyped, StackOK, StackAt
<1>cases. k = 1 \/ (k > 1 /\ ~(k = 1))
  <2> HIDE DEF k
  <2>1. QED
    BY <1>1
<1>2. CASE k = 1
  <2>1. task' = Answer("Ok") /\ frames' = << >> /\ node' = x
    BY <1>2 DEF Returns
  <2>2. StackOK(<< >>)
    BY DEF StackOK
  <2>3. task' \in Task /\ task'.op = task.op /\ task'.root = task.root /\ task'.at = "done"
    BY <2>1 DEF Answer, TreeTyped, Task, Answers
  <2>4. node' \in Handle
    BY <2>1 DEF Idx, Handle
  <2>5. Len(frames') = 0
    BY <2>1
  <2>6. QED
    BY <1>1, <1>2, <2>1, <2>2, <2>3, <2>4, <2>5
<1>3. CASE k > 1 /\ ~(k = 1)
  <2> DEFINE o == SubSeq(frames, 1, k-2)
             p == frames[k-1]
             g == WithChild(p, x)
             s == Append(o, g)
  <2>1. o \in Seq(Activation) /\ Len(o) = k-2 /\ \A m \in 1 .. k-2 : o[m] = frames[m]
    <3>1. k-2 \in 0 .. Len(frames)
      BY <1>1, <1>3
    <3>2. QED
      BY <1>1, <3>1, Prefix
  <2>2. s = Append(o, g) /\ p = frames[k-1]
    OBVIOUS
  <2>3. Proceed(s)
    BY <1>3, Zenon DEF Returns
  <2>4. p \in Activation
    BY <1>1, <1>3
  <2> HIDE DEF o, p, s
  <2>5. p.made \in Seq(Idx) /\ Append(p.made, x) \in Seq(Idx) /\ p.value \in Value
    BY <2>4 DEF Activation
  <2>6. /\ g \in Activation
        /\ g.made = Append(p.made, x) /\ g.idx = p.idx /\ g.value = p.value
    BY <2>4, <2>5 DEF Activation, WithChild
  <2> HIDE DEF g
  <2>7. /\ s \in Seq(Activation) /\ Len(s) = k-1
        /\ s[k-1] = g /\ \A m \in 1 .. k-2 : s[m] = frames[m]
    BY <1>1, <1>3, <2>1, <2>2, <2>6, SMTT(30)
  <2>8. Len(g.made) <= Len(Kids(g.value))
    <3>1. Open(p)
      BY <1>1, <1>3, <2>2 DEF TreeTyped, StackOK
    <3>2. Len(Kids(p.value)) \in Nat
      BY <2>5, ValueShape
    <3>3. Len(g.made) = Len(p.made) + 1
      BY <2>5, <2>6
    <3>4. QED
      BY <2>5, <2>6, <3>1, <3>2, <3>3 DEF Open
  <2>9. StackOK(s)
    <3>1. \A m \in 1 .. Len(s)-1 : Open(s[m])
      BY <1>1, <1>3, <2>7 DEF TreeTyped, StackOK
    <3>2. Len(s) <= MaxDepth
      BY <1>1, <1>3, <2>7 DEF TreeTyped, StackOK
    <3>3. QED
      BY <2>7, <2>8, <3>1, <3>2 DEF StackOK
  <2>10. s # << >> /\ Len(s) < Len(frames)
    BY <1>1, <1>3, <2>7
  <2>11. /\ StackOK(frames')
         /\ task' \in Task /\ node' \in Handle
         /\ task'.op = task.op /\ task'.root = task.root
         /\ frames' = s
         /\ \/ /\ task'.at = "visit"
               /\ \A m \in 1 .. Len(s) : Open(s[m])
               /\ \E m \in 1 .. Len(Kids(s[Len(s)].value)) : node' = Kids(s[Len(s)].value)[m]
            \/ task'.at = "finish" /\ ~Open(s[Len(s)])
    BY <2>3, <2>9, <2>10, ProceedFacts
  <2>12. ASSUME NEW m \in 1 .. Len(s)
         PROVE  s[m].idx = frames[m].idx /\ s[m].value = frames[m].value
    <3>1. m = k-1 \/ m \in 1 .. k-2
      BY <1>1, <1>3, <2>7
    <3>2. QED
      BY <2>2, <2>6, <2>7, <3>1
  <2>13. QED
    BY <2>10, <2>11, <2>12
<1>4. QED
  BY <1>cases, <1>2, <1>3, Zenon
-----------------------------------------------------------------------------
(* Calls that change no slot leave what is confined confined.             *)
LEMMA ConfinedKept ==
  ASSUME TreeInv, UNCHANGED <<slots, before>>, task'.at # "idle",
         task.at # "idle", task'.op = task.op, task'.root = task.root
  PROVE  Confined'
BY DEF TreeInv, Confined, Filled, Below, Reachable, LinksOf, Entries, KidAt, KidsAt

LEMMA ArenaCallKeeps == TreeInv /\ ArenaCall => TreeInv' /\ [Next]_vars
<1> SUFFICES ASSUME TreeInv, ArenaCall PROVE TreeInv' /\ [Next]_vars
  OBVIOUS
<1>1. [Next]_vars
  BY DEF ArenaCall, Next
<1>2. IInv'
  BY <1>1, InvInductive DEF TreeInv
<1>3. UNCHANGED treeVars /\ task.at = "idle"
  BY DEF ArenaCall
<1>4. TreeTyped' /\ StackAt' /\ Confined' /\ task'.op = "none"
  BY <1>3 DEF TreeInv, treeVars, TreeTyped, StackAt, Confined
<1>5. QED
  BY <1>1, <1>2, <1>4 DEF TreeInv, DeleteOwned

LEMMA StartKeeps ==
  ASSUME TreeInv, NEW op \in {"delete", "copy"}, NEW i \in Handle, Start(op, i)
  PROVE  TreeInv' /\ [Next]_vars
<1>1. UNCHANGED vars /\ frames' = << >> /\ frames = << >>
  BY DEF Start, TreeInv, StackAt
<1>2. IInv'
  BY <1>1, StutterKeepsInv DEF TreeInv, vars, arenaVars
<1>3. TreeTyped'
  BY <1>1 DEF Start, TreeInv, TreeTyped, Task, Answers, IInv, SlotsOK
<1>4. StackAt'
  BY <1>1 DEF Start, StackAt
<1>5. DeleteOwned'
  <2>1. i \in Idx => i \in Below(slots, i)
    BY BelowRoot
  <2>2. QED
    BY <1>1, <2>1 DEF Start, DeleteOwned, Owned, Own
<1>6. Confined'
  BY <1>1 DEF Start, Confined, vars, Filled
<1>7. QED
  BY <1>1, <1>2, <1>3, <1>4, <1>5, <1>6 DEF TreeInv

LEMMA ReturnKeeps == TreeInv /\ Return => TreeInv' /\ [Next]_vars
<1> SUFFICES ASSUME TreeInv, Return PROVE TreeInv' /\ [Next]_vars
  OBVIOUS
<1>1. UNCHANGED vars /\ frames' = << >> /\ frames = << >>
  BY DEF Return, TreeInv, StackAt
<1>2. IInv'
  BY <1>1, StutterKeepsInv DEF TreeInv, vars, arenaVars
<1>3. TreeTyped'
  <2>1. FreshSlots \in [Idx -> Slot]
    BY MakeSlot DEF FreshSlots, Idx, Link
  <2>2. 0 \in Handle
    BY DEF Handle
  <2>3. QED
    BY <1>1, <2>1, <2>2 DEF Return, TreeInv, TreeTyped, Task, Answers, Idle
<1>4. QED
  BY <1>1, <1>2, <1>3 DEF Return, TreeInv, StackAt, DeleteOwned, Confined, Idle

(* A step of the recursion is one call on the arena. *)
LEMMA VisitKeeps == TreeInv /\ Visit => TreeInv' /\ [Next]_vars
<1> SUFFICES ASSUME TreeInv, Visit PROVE TreeInv' /\ [Next]_vars
  OBVIOUS
<1>1. TreeTyped /\ StackAt /\ task.at = "visit" /\ Get(node)
  BY DEF TreeInv, Visit
<1>2. [Next]_vars /\ UNCHANGED arenaVars
  BY <1>1 DEF Next, Get, Refuse, TreeTyped
<1>3. IInv' /\ UNCHANGED <<slots, before>>
  BY <1>2, StutterKeepsInv DEF TreeInv, arenaVars, Visit
<1>4. CASE ~ValidIndex(node) /\ Fail(IndexError(node))
  <2>1. /\ StackOK(frames') /\ frames' = << >>
        /\ task' \in Task /\ node' = node
        /\ task'.op = task.op /\ task'.root = task.root /\ task'.at = "done"
    BY <1>1, <1>4, FailFacts, ErrorString DEF TreeTyped
  <2>2. Confined'
    BY <1>1, <1>3, <2>1, ConfinedKept
  <2>3. TreeTyped' /\ StackAt' /\ DeleteOwned'
    BY <1>1, <1>3, <2>1 DEF TreeTyped, StackAt, DeleteOwned, Owned
  <2>4. QED
    BY <1>2, <1>3, <2>2, <2>3 DEF TreeInv
<1>5. CASE Overflow
  <2>1. task' \in Task /\ task'.op = task.op /\ task'.root = task.root /\ task'.at = "aborted"
    BY <1>1, <1>5 DEF Overflow, At, TreeTyped, Task
  <2>2. Confined'
    BY <1>1, <1>3, <2>1, ConfinedKept
  <2>3. TreeTyped' /\ StackAt'
    BY <1>1, <1>3, <1>5, <2>1 DEF Overflow, TreeTyped, StackAt
  <2>4. DeleteOwned'
    BY <1>1, <1>3, <1>5, <2>1 DEF Overflow, TreeInv, DeleteOwned, Owned, Own
  <2>5. QED
    BY <1>2, <1>3, <2>2, <2>3, <2>4 DEF TreeInv
<1>6. CASE /\ ValidIndex(node) /\ Len(frames) < MaxDepth
           /\ Proceed(Append(frames, Frame(node, slots[node].value)))
  <2> DEFINE g == Frame(node, slots[node].value)
             s == Append(frames, g)
  <2>1. node \in Idx /\ slots[node].kind = "Occupied" /\ slots[node] \in Slot
    BY <1>1, <1>6 DEF ValidIndex, IsOccupied, TreeTyped, Handle, Idx, TreeInv, IInv, SlotsOK
  <2>2. /\ g \in Activation /\ g.idx = node /\ g.value = slots[node].value
        /\ Len(g.made) = 0 /\ g.value \in Value
    BY <2>1, SlotShape DEF Frame, Activation
  <2>3. frames \in Seq(Activation)
    BY <1>1 DEF TreeTyped, StackOK
  <2> HIDE DEF g
  <2>4. /\ s \in Seq(Activation) /\ Len(s) = Len(frames) + 1 /\ s # << >>
        /\ s[Len(s)] = g /\ \A k \in 1 .. Len(frames) : s[k] = frames[k]
    BY <2>2, <2>3, AppendProperties
  <2> HIDE DEF s
  <2>5. StackOK(s)
    <3>1. Len(s) <= MaxDepth
      BY <1>6, <2>3, <2>4
    <3>2. \A k \in 1 .. Len(s)-1 : Open(s[k])
      BY <1>1, <2>3, <2>4 DEF StackAt
    <3>3. Len(g.made) <= Len(Kids(g.value))
      BY <2>2, ValueShape
    <3>4. QED
      BY <2>4, <3>1, <3>2, <3>3 DEF StackOK
  <2>6. Proceed(s)
    BY <1>6 DEF s, g
  <2>7. /\ StackOK(frames')
        /\ task' \in Task /\ node' \in Handle
        /\ task'.op = task.op /\ task'.root = task.root
        /\ frames' = s
        /\ \/ /\ task'.at = "visit"
              /\ \A m \in 1 .. Len(s) : Open(s[m])
              /\ \E m \in 1 .. Len(Kids(s[Len(s)].value)) : node' = Kids(s[Len(s)].value)[m]
           \/ task'.at = "finish" /\ ~Open(s[Len(s)])
    BY <1>1, <2>4, <2>5, <2>6, ProceedFacts
  <2>8. TreeTyped' /\ StackAt'
    BY <1>1, <1>3, <2>4, <2>7 DEF TreeTyped, StackAt
  <2>9. Confined'
    BY <1>1, <1>3, <2>7, ConfinedKept
  <2>10. ASSUME task'.op = "delete" PROVE DeleteOwned'
    <3>1. Own(node) /\ Owned(frames) /\ slots[node] = before[node] /\ node \in Filled(before)
      <4>1. Own(node) /\ Owned(frames)
        BY <1>1, <2>1, <2>7, <2>10 DEF TreeInv, DeleteOwned
      <4>2. node \in Filled(slots)
        BY <2>1 DEF Filled
      <4>3. slots[node] = before[node]
        BY <1>1, <2>7, <2>10, <4>2 DEF TreeInv, Confined
      <4>4. QED
        BY <2>1, <4>1, <4>3 DEF Filled
    <3>2. Owned(s)
      <4>1. \A k \in 1 .. Len(s) : k = Len(s) \/ k \in 1 .. Len(frames)
        BY <2>3, <2>4
      <4>2. QED
        BY <2>2, <2>4, <3>1, <4>1 DEF Owned
    <3>3. ASSUME task'.at = "visit", node' \in Idx PROVE Own(node')
      <4>1. PICK m \in 1 .. Len(Kids(g.value)) : node' = Kids(g.value)[m]
        BY <2>4, <2>7, <3>3
      <4>2. g.value = before[node].value /\ before[node].kind = "Occupied"
        BY <2>1, <2>2, <3>1
      <4>3. Kids(before[node].value)[m] \in Below(before, task.root)
        BY <1>1, <2>1, <3>1, <3>3, <4>1, <4>2, BelowClosed DEF Own, TreeTyped
      <4>4. QED
        BY <4>1, <4>2, <4>3 DEF Own
    <3>4. QED
      BY <1>3, <2>7, <3>2, <3>3 DEF DeleteOwned, Owned, Own
  <2>11. QED
    BY <1>2, <1>3, <2>8, <2>9, <2>10 DEF TreeInv, DeleteOwned
<1>7. QED
  BY <1>4, <1>5, <1>6 DEF Visit

(* What is left when the innermost activation has answered. *)
LEMMA ReturnsKeep ==
  ASSUME TreeInv, task.at = "finish", UNCHANGED before, NEW x \in Idx, Returns(x)
  PROVE  /\ TreeTyped' /\ StackAt' /\ DeleteOwned'
         /\ task'.op = task.op /\ task'.root = task.root /\ task'.at # "idle"
<1> DEFINE s == frames'
<1>1. TreeTyped /\ StackAt
  BY DEF TreeInv
<1>2. /\ StackOK(s)
      /\ task' \in Task /\ node' \in Handle
      /\ task'.op = task.op /\ task'.root = task.root
      /\ Len(s) < Len(frames)
      /\ \A k \in 1 .. Len(s) : /\ s[k].idx = frames[k].idx
                                /\ s[k].value = frames[k].value
      /\ \/ /\ task'.at = "visit"
            /\ \A k \in 1 .. Len(s) : Open(s[k])
            /\ \E k \in 1 .. Len(Kids(s[Len(s)].value)) : node' = Kids(s[Len(s)].value)[k]
         \/ task'.at = "finish" /\ ~Open(s[Len(s)])
         \/ task'.at = "done"
      /\ s = << >> <=> task'.at = "done"
  BY <1>1, ReturnsFacts
<1>3. TreeTyped' /\ StackAt' /\ task'.at # "idle"
  BY <1>1, <1>2 DEF TreeTyped, StackAt
<1>4. ASSUME task'.op = "delete" PROVE DeleteOwned'
  <2>0. s \in Seq(Activation) /\ frames \in Seq(Activation)
    BY <1>1, <1>2 DEF StackOK, TreeTyped
  <2>1. Owned(frames)
    BY <1>2, <1>4 DEF TreeInv, DeleteOwned
  <2>2. Owned(s)
    <3>1. \A k \in 1 .. Len(s) : k \in 1 .. Len(frames)
      BY <1>2, <2>0
    <3>2. QED
      BY <1>2, <2>1, <3>1 DEF Owned
  <2>3. ASSUME task'.at = "visit", node' \in Idx PROVE Own(node')
    <3> DEFINE g == s[Len(s)]
    <3>1. PICK m \in 1 .. Len(Kids(g.value)) : node' = Kids(g.value)[m]
      BY <1>2, <2>3
    <3>2. Len(s) \in 1 .. Len(s)
      BY <1>2, <2>0, <2>3
    <3>3. g.idx \in Idx
      <4> HIDE DEF s
      <4>1. g \in Activation
        BY <2>0, <3>2
      <4>2. QED
        BY <4>1 DEF Activation
    <3>4. Own(g.idx) /\ g.value = before[g.idx].value /\ before[g.idx].kind = "Occupied"
      BY <2>2, <3>2 DEF Owned, Filled
    <3>5. Kids(before[g.idx].value)[m] \in Below(before, task.root)
      BY <1>1, <2>3, <3>1, <3>3, <3>4, BelowClosed DEF Own, TreeTyped
    <3>6. QED
      BY <3>1, <3>4, <3>5 DEF Own
  <2>4. QED
    BY <1>2, <2>2, <2>3 DEF DeleteOwned, Owned, Own
<1>5. QED
  BY <1>2, <1>3, <1>4 DEF DeleteOwned

(* ... and when it has failed. *)
LEMMA FailKeeps ==
  ASSUME TreeInv, UNCHANGED <<before, slots>>, task.at # "idle", NEW e \in Answers, Fail(e)
  PROVE  TreeTyped' /\ StackAt' /\ DeleteOwned' /\ Confined'
<1>1. /\ StackOK(frames') /\ frames' = << >>
      /\ task' \in Task /\ node' = node
      /\ task'.op = task.op /\ task'.root = task.root /\ task'.at = "done"
  BY FailFacts DEF TreeInv
<1>2. Confined'
  BY <1>1, ConfinedKept
<1>3. TreeTyped' /\ StackAt' /\ DeleteOwned'
  BY <1>1 DEF TreeInv, TreeTyped, StackAt, DeleteOwned, Owned
<1>4. QED
  BY <1>2, <1>3

LEMMA InnermostFacts ==
  ASSUME TreeInv, task.at = "finish"
  PROVE  /\ Innermost \in Activation
         /\ Len(Innermost.made) = Len(Kids(Innermost.value))
         /\ task.op = "delete" => Own(Innermost.idx)
<1>1. frames \in Seq(Activation) /\ frames # << >> /\ Len(frames) \in 1 .. Len(frames)
  BY DEF TreeInv, TreeTyped, StackOK, StackAt
<1>2. Innermost \in Activation
  BY <1>1 DEF Innermost
<1>3. Innermost.made \in Seq(Idx) /\ Innermost.value \in Value
  BY <1>2 DEF Activation
<1>4. Len(Kids(Innermost.value)) \in Nat
  BY <1>3, ValueShape
<1>5. Len(Innermost.made) <= Len(Kids(Innermost.value)) /\ ~Open(Innermost)
  BY <1>1 DEF TreeInv, TreeTyped, StackOK, StackAt, Innermost
<1>6. task.op = "delete" => Own(Innermost.idx)
  BY <1>1 DEF TreeInv, DeleteOwned, Owned, Innermost
<1>7. QED
  BY <1>2, <1>3, <1>4, <1>5, <1>6 DEF Open

LEMMA FinishDeleteKeeps == TreeInv /\ FinishDelete => TreeInv' /\ [Next]_vars
<1> SUFFICES ASSUME TreeInv, FinishDelete PROVE TreeInv' /\ [Next]_vars
  OBVIOUS
<1> DEFINE i == Innermost.idx
<1>1. task.at = "finish" /\ task.op = "delete" /\ Free(i) /\ UNCHANGED before
  BY DEF FinishDelete
<1>2. i \in Idx /\ i \in Handle /\ Own(i)
  BY <1>1, InnermostFacts DEF Activation, Idx, Handle
<1> HIDE DEF i
<1>3. [Next]_vars
  BY <1>1, <1>2 DEF Next
<1>4. IInv'
  BY <1>3, InvInductive DEF TreeInv
<1>5. CASE ~ValidIndex(i) /\ Fail(IndexError(i))
  <2>1. UNCHANGED slots
    BY <1>1, <1>5 DEF Free, Refuse, arenaVars
  <2>2. QED
    BY <1>1, <1>2, <1>3, <1>4, <1>5, <2>1, ErrorString, FailKeeps DEF TreeInv
<1>6. CASE ValidIndex(i) /\ Returns(i)
  <2>1. slots' = [slots EXCEPT ![i] = FreeSlot(free_head)]
    BY <1>1, <1>6 DEF Free, Refuse, PushSlot
  <2>2. TreeTyped' /\ StackAt' /\ DeleteOwned' /\ task'.op = "delete" /\ task'.root = task.root
    BY <1>1, <1>2, <1>6, ReturnsKeep
  <2>3. Filled(slots') = Filled(slots) \ {i} /\ \A j \in Filled(slots') : slots'[j] = slots[j]
    <3>1. FreeSlot(free_head).kind = "Free"
      BY DEF FreeSlot
    <3>2. slots \in [Idx -> Slot]
      BY DEF TreeInv, IInv, SlotsOK
    <3>3. QED
      BY <1>2, <2>1, <3>1, <3>2 DEF Filled
  <2>4. Confined'
    <3>1. /\ \A j \in Filled(slots) : slots[j] = before[j]
          /\ Filled(before) \ Filled(slots) \subseteq Below(before, task.root)
      BY <1>1 DEF TreeInv, Confined
    <3>2. i \in Below(before, task.root)
      BY <1>2 DEF Own
    <3>3. /\ \A j \in Filled(slots') : slots'[j] = before'[j]
          /\ Filled(before') \ Filled(slots') \subseteq Below(before', task'.root)
      BY <1>1, <2>2, <2>3, <3>1, <3>2
    <3>4. QED
      BY <2>2, <3>3 DEF Confined, Filled, Below, Reachable, LinksOf, Entries, KidAt, KidsAt
  <2>5. QED
    BY <1>3, <1>4, <2>2, <2>4 DEF TreeInv
<1>7. QED
  BY <1>5, <1>6 DEF FinishDelete, i

LEMMA FinishCopyKeeps == TreeInv /\ FinishCopy => TreeInv' /\ [Next]_vars
<1> SUFFICES ASSUME TreeInv, FinishCopy PROVE TreeInv' /\ [Next]_vars
  OBVIOUS
<1> DEFINE v == Rebuilt(Innermost.value, Innermost.made)
<1>1. task.at = "finish" /\ task.op = "copy" /\ Alloc(v) /\ UNCHANGED before
  BY DEF FinishCopy
<1>2. v \in Value
  BY <1>1, InnermostFacts, RebuiltIsValue DEF Activation
<1> HIDE DEF v
<1>3. [Next]_vars
  BY <1>1, <1>2 DEF Next
<1>4. IInv'
  BY <1>3, InvInductive DEF TreeInv
<1>5. CASE free_head = FREE_LIST_END /\ Fail("OutOfMemory")
  <2>1. UNCHANGED slots
    BY <1>1, <1>5 DEF Alloc, arenaVars
  <2>2. "OutOfMemory" \in Answers
    BY DEF Answers
  <2>3. QED
    BY <1>1, <1>3, <1>4, <1>5, <2>1, <2>2, FailKeeps DEF TreeInv
<1>6. CASE free_head # FREE_LIST_END /\ Returns(free_head)
  <2>1. PopSlot(v)
    BY <1>1, <1>6 DEF Alloc
  <2>2. free_head \in Idx /\ ~IsOccupied(free_head)
    BY <1>2, <1>6, <2>1, PopKeepsInv DEF TreeInv
  <2>3. TreeTyped' /\ StackAt' /\ DeleteOwned' /\ task'.op = "copy" /\ task'.root = task.root
    BY <1>1, <1>6, <2>2, ReturnsKeep
  <2>4. Confined'
    <3>1. \A j \in Filled(before) : slots[j] = before[j] /\ j # free_head
      BY <1>1, <2>2 DEF TreeInv, Confined, Filled, IsOccupied
    <3>2. slots' = [slots EXCEPT ![free_head] = OccupiedSlot(v)]
      BY <2>1 DEF PopSlot
    <3>3. slots \in [Idx -> Slot]
      BY DEF TreeInv, IInv, SlotsOK
    <3>4. \A j \in Filled(before') : slots'[j] = before'[j]
      BY <1>1, <3>1, <3>2, <3>3 DEF Filled
    <3>5. QED
      BY <2>3, <3>4 DEF Confined, Filled
  <2>5. QED
    BY <1>3, <1>4, <2>3, <2>4 DEF TreeInv
<1>7. QED
  BY <1>5, <1>6 DEF FinishCopy
-----------------------------------------------------------------------------
LEMMA StepKeeps == TreeInv /\ [TreeNext]_<<vars, treeVars>> => TreeInv' /\ [Next]_vars
<1> SUFFICES ASSUME TreeInv, [TreeNext]_<<vars, treeVars>> PROVE TreeInv' /\ [Next]_vars
  OBVIOUS
<1>1. CASE UNCHANGED <<vars, treeVars>>
  <2>1. IInv'
    BY <1>1, StutterKeepsInv DEF TreeInv, vars, arenaVars
  <2>2. TreeTyped' /\ StackAt' /\ DeleteOwned'
    BY <1>1 DEF TreeInv, treeVars, TreeTyped, StackAt, DeleteOwned, Owned, Own
  <2>3. Confined'
    BY <1>1 DEF TreeInv, vars, treeVars, Confined, Filled, Below, Reachable, LinksOf,
                Entries, KidAt, KidsAt
  <2>4. QED
    BY <1>1, <2>1, <2>2, <2>3 DEF TreeInv
<1>2. CASE Aborted
  BY <1>1, <1>2 DEF Aborted
<1>3. CASE ArenaCall
  BY <1>3, ArenaCallKeeps
<1>4. CASE \E op \in {"delete", "copy"}, i \in Handle : Start(op, i)
  BY <1>4, StartKeeps
<1>5. CASE Visit
  BY <1>5, VisitKeeps
<1>6. CASE FinishDelete
  BY <1>6, FinishDeleteKeeps
<1>7. CASE FinishCopy
  BY <1>7, FinishCopyKeeps
<1>8. CASE Return
  BY <1>8, ReturnKeeps
<1>9. QED
  BY <1>1, <1>2, <1>3, <1>4, <1>5, <1>6, <1>7, <1>8 DEF TreeNext

LEMMA TreeInvHolds == TreeSpec => []TreeInv
<1>1. TreeInv /\ [TreeNext]_<<vars, treeVars>> => TreeInv'
  BY StepKeeps
<1>2. QED
  BY <1>1, InitTreeInv, PTL DEF TreeSpec

(* delete_recursive and copy_deep reach the slots through calls of the     *)
(* arena alone: every behaviour of the recursions is one of the arena.     *)
THEOREM TreesAreCalls == TreeSpec => Spec
<1>1. TreeInit => Init
  BY DEF TreeInit
<1>2. TreeInv /\ [TreeNext]_<<vars, treeVars>> => [Next]_vars
  BY StepKeeps
<1>3. QED
  BY <1>1, <1>2, TreeInvHolds, PTL DEF TreeSpec, Spec

(* The free list is intact at every step of a recursion, one that fails or *)
(* runs out of stack included.                                             *)
THEOREM FreeListSurvivesTrees == TreeSpec => []FreeListIntact
BY TreesAreCalls, FreeListCorrect, PTL

(* Every activation on the stack is of an index in range, has a value and  *)
(* no more copies of children than the value has children.                 *)
THEOREM TreeTypeCorrect == TreeSpec => []TreeTypeOK
<1>1. TreeInv => TreeTypeOK
  <2> SUFFICES ASSUME TreeInv PROVE TreeTypeOK
    OBVIOUS
  <2>1. TypeOK
    BY TypeFromInv DEF TreeInv
  <2>2. /\ frames \in Seq(Activation) /\ Len(frames) <= MaxDepth
        /\ task \in Task /\ node \in Handle
    BY DEF TreeInv, TreeTyped, StackOK
  <2>3. ASSUME NEW k \in DOMAIN frames
        PROVE  /\ frames[k].idx \in Idx /\ frames[k].value \in Value
               /\ Len(frames[k].made) <= Len(Kids(frames[k].value))
               /\ \A m \in DOMAIN frames[k].made : frames[k].made[m] \in Idx
    <3>1. frames[k] \in Activation /\ k \in 1 .. Len(frames)
      BY <2>2, <2>3
    <3>2. frames[k].made \in Seq(Idx) /\ frames[k].idx \in Idx /\ frames[k].value \in Value
      BY <3>1 DEF Activation
    <3>3. Len(Kids(frames[k].value)) \in Nat
      BY <3>2, ValueShape
    <3>4. k = Len(frames) \/ k \in 1 .. Len(frames)-1
      BY <2>2, <3>1
    <3>5. Len(frames[k].made) <= Len(Kids(frames[k].value))
      BY <2>2, <3>1, <3>2, <3>3, <3>4 DEF TreeInv, TreeTyped, StackOK, Open
    <3>6. QED
      BY <3>2, <3>5
  <2>4. QED
    BY <2>1, <2>2, <2>3 DEF TreeTypeOK, Task
<1>2. QED
  BY <1>1, TreeInvHolds, PTL

(* A copy never writes a slot that was in use when it began; a deletion    *)
(* frees nothing that its argument did not lead to and changes nothing.    *)
THEOREM TreesAreConfined == TreeSpec => []Confined
<1>1. TreeInv => Confined
  BY DEF TreeInv
<1>2. QED
  BY <1>1, TreeInvHolds, PTL
-----------------------------------------------------------------------------
(***************************************************************************)
(* What the recursion achieves.  The indices of the stack are a route      *)
(* through the structure: each is the child that the activation around it  *)
(* waits for.                                                              *)
(***************************************************************************)
NextKid(f)      == Kids(f.value)[Len(f.made)+1]
Arity(s, i)     == 1 .. Len(Kids(s[i].value))
KidOf(s, i, k)  == Kids(s[i].value)[k]
Under           == task.at \in {"visit", "finish"}

Route == /\ \A k \in 1 .. Len(frames)-1 : frames[k+1].idx = NextKid(frames[k])
         /\ frames # << >> => frames[1].idx = task.root
         /\ task.at = "visit" => node = IF frames = << >> THEN task.root ELSE NextKid(Innermost)
\* What is old was read as it was when the call began, and was reached through what is old.
Read  == \A k \in 1 .. Len(frames) :
           frames[k].idx \in Filled(before) => frames[k].value = before[frames[k].idx].value
Led   == \A b \in 1 .. Len(frames) : frames[b].idx \in Filled(before) =>
           \A a \in 1 .. b : /\ frames[a].idx \in Filled(before)
                             /\ frames[b].idx \in Below(before, frames[a].idx)

(* What the call began with stays what it was. *)
LEMMA RootKept ==
  ASSUME UNCHANGED before, task'.root = task.root
  PROVE  /\ IsTree(before, task.root)' <=> IsTree(before, task.root)
         /\ Intact(before, task.root)' <=> Intact(before, task.root)
BY DEF IsTree, Intact, Filled, Below, Reachable, LinksOf, Places, Entries, KidAt, KidsAt

(* An activation more, and one less that answers x, as the steps see them. *)
Pushed ==
  /\ node \in Filled(slots)
  /\ Len(frames') = Len(frames) + 1
  /\ \A k \in 1 .. Len(frames) : frames'[k] = frames[k]
  /\ frames'[Len(frames)+1].idx = node
  /\ frames'[Len(frames)+1].value = slots[node].value
  /\ Len(frames'[Len(frames)+1].made) = 0
  /\ task'.at = "visit" => node' = NextKid(frames'[Len(frames)+1])
  /\ task'.op = task.op /\ task'.root = task.root
  /\ UNCHANGED <<slots, before>>

Extended(q, p, x) ==
  /\ q.idx = p.idx /\ q.value = p.value
  /\ Len(q.made) = Len(p.made) + 1
  /\ \A m \in 1 .. Len(p.made) : q.made[m] = p.made[m]
  /\ q.made[Len(p.made)+1] = x

Popped(x) ==
  /\ Len(frames) > 1
  /\ Len(frames') = Len(frames) - 1
  /\ \A k \in 1 .. Len(frames)-2 : frames'[k] = frames[k]
  /\ Extended(frames'[Len(frames)-1], frames[Len(frames)-1], x)
  /\ task'.at \in {"visit", "finish"}
  /\ task'.at = "visit" => node' = NextKid(frames'[Len(frames)-1])
  /\ task'.op = task.op /\ task'.root = task.root

LEMMA FrameShape ==
  ASSUME NEW s \in Seq(Activation), NEW k \in 1 .. Len(s)
  PROVE  /\ s[k].idx \in Idx /\ s[k].value \in Value /\ s[k].made \in Seq(Idx)
         /\ Len(s[k].made) \in Nat
         /\ Kids(s[k].value) \in Seq(Handle) /\ Len(Kids(s[k].value)) \in {0, 2}
<1>1. s[k] \in Activation
  OBVIOUS
<1>2. s[k].idx \in Idx /\ s[k].value \in Value /\ s[k].made \in Seq(Idx)
  BY <1>1 DEF Activation
<1>3. QED
  BY <1>2, ValueShape

LEMMA StackType == TreeInv => frames \in Seq(Activation) /\ Len(frames) \in Nat
BY DEF TreeInv, TreeTyped, StackOK

LEMMA PushFacts ==
  ASSUME TreeInv, Visit, task'.at \in {"visit", "finish"}
  PROVE  Pushed
<1> DEFINE g == Frame(node, slots[node].value)
           s == Append(frames, g)
<1>1. ~Fail(IndexError(node)) /\ ~Overflow
  BY DEF Fail, Answer, Overflow, At, TreeInv, TreeTyped, Task
<1>2. ValidIndex(node) /\ Proceed(s) /\ UNCHANGED before /\ task.at = "visit"
  BY <1>1 DEF Visit
<1>3. UNCHANGED slots
  BY DEF Visit, Get, Refuse, arenaVars
<1>4. node \in Idx /\ slots[node].kind = "Occupied" /\ slots[node] \in Slot
  BY <1>2 DEF ValidIndex, IsOccupied, TreeTyped, Handle, Idx, TreeInv, IInv, SlotsOK
<1>5. /\ g \in Activation /\ g.idx = node /\ g.value = slots[node].value
      /\ g.made = << >>
  BY <1>4, SlotShape DEF Frame, Activation
<1> HIDE DEF g
<1>6. /\ s # << >> /\ Len(s) = Len(frames) + 1 /\ s[Len(frames)+1] = g
      /\ \A k \in 1 .. Len(frames) : s[k] = frames[k]
  BY <1>5, StackType, AppendProperties
<1> HIDE DEF s
<1>7. frames' = s
  BY <1>2 DEF Proceed
<1>8. task'.op = task.op /\ task'.root = task.root
  BY <1>2 DEF Proceed, At, TreeInv, TreeTyped, Task
<1>9. task'.at = "visit" => node' = NextKid(s[Len(s)])
  BY <1>2 DEF Proceed, At, TreeInv, TreeTyped, Task, NextKid
<1>10. QED
  BY <1>2, <1>3, <1>4, <1>5, <1>6, <1>7, <1>8, <1>9 DEF Pushed, Filled

LEMMA PopFacts ==
  ASSUME TreeInv, task.at = "finish", NEW x \in Idx, Returns(x)
  PROVE  \/ /\ Len(frames) = 1 /\ frames' = << >>
            /\ task' = Answer("Ok") /\ node' = x
         \/ Popped(x)
<1> DEFINE k == Len(frames)
<1>1. frames \in Seq(Activation) /\ k \in Nat \ {0}
  BY DEF TreeInv, TreeTyped, StackOK, StackAt
<1>cases. k = 1 \/ (k > 1 /\ k # 1)
  <2> HIDE DEF k
  <2>1. QED
    BY <1>1
<1>2. CASE k = 1
  BY <1>2 DEF Returns
<1>3. CASE k > 1 /\ k # 1
  <2> DEFINE o == SubSeq(frames, 1, k-2)
             p == frames[k-1]
             g == WithChild(p, x)
             s == Append(o, g)
  <2>1. o \in Seq(Activation) /\ Len(o) = k-2 /\ \A m \in 1 .. k-2 : o[m] = frames[m]
    <3>1. k-2 \in 0 .. Len(frames)
      BY <1>1, <1>3
    <3>2. QED
      BY <1>1, <3>1, Prefix
  <2>2. s = Append(o, g) /\ p = frames[k-1]
    OBVIOUS
  <2>3. Proceed(s)
    BY <1>3, Zenon DEF Returns
  <2>4. p \in Activation
    BY <1>1, <1>3
  <2> HIDE DEF o, p, s
  <2>5. p.made \in Seq(Idx) /\ Append(p.made, x) \in Seq(Idx)
    BY <2>4 DEF Activation
  <2>6. /\ g \in Activation
        /\ g.made = Append(p.made, x) /\ g.idx = p.idx /\ g.value = p.value
    BY <2>4, <2>5 DEF Activation, WithChild
  <2> HIDE DEF g
  <2>7. Extended(g, p, x)
    BY <2>5, <2>6, AppendProperties DEF Extended
  <2>8. /\ Len(s) = k-1 /\ s[k-1] = g /\ \A m \in 1 .. k-2 : s[m] = frames[m]
    BY <1>1, <1>3, <2>1, <2>2, <2>6
  <2>9. frames' = s
    BY <2>3 DEF Proceed
  <2>10. task'.op = task.op /\ task'.root = task.root /\ task'.at \in {"visit", "finish"}
    BY <2>3 DEF Proceed, At, TreeInv, TreeTyped, Task
  <2>11. task'.at = "visit" => node' = NextKid(s[Len(s)])
    BY <2>3 DEF Proceed, At, TreeInv, TreeTyped, Task, NextKid
  <2>12. QED
    BY <1>1, <1>3, <2>2, <2>7, <2>8, <2>9, <2>10, <2>11 DEF Popped
<1>4. QED
  BY <1>cases, <1>2, <1>3, Zenon

(* The route goes on when a node is visited ...                            *)
LEMMA PushRoute ==
  ASSUME TreeInv, TreeInv', task.at = "visit", Route, Pushed
  PROVE  Route'
<1> DEFINE n == Len(frames)
<1>1. n \in Nat /\ frames' \in Seq(Activation)
  BY StackType DEF TreeInv, TreeTyped, StackOK
<1>2. Len(frames') = n+1 /\ frames'[n+1].idx = node
  BY DEF Pushed
<1>3. \A k \in 1 .. n : frames'[k] = frames[k]
  BY DEF Pushed
<1>4. n = 0 => node = task.root
  BY <1>1, StackType, EmptySeq DEF Route
<1>5. n > 0 => node = NextKid(frames[n]) /\ frames[1].idx = task.root
  BY <1>1 DEF Route, Innermost
<1> HIDE DEF n
<1>6. ASSUME NEW k \in 1 .. Len(frames')-1
      PROVE  frames'[k+1].idx = NextKid(frames'[k])
  <2>1. CASE k = n
    BY <1>1, <1>2, <1>3, <1>5, <2>1 DEF NextKid
  <2>2. CASE k # n
    <3>1. k \in 1 .. n-1 /\ k \in 1 .. n /\ k+1 \in 1 .. n
      BY <1>1, <1>2, <2>2
    <3>2. frames[k+1].idx = NextKid(frames[k])
      BY <3>1 DEF Route, n
    <3>3. QED
      BY <1>3, <3>1, <3>2 DEF NextKid
  <2>3. QED
    BY <2>1, <2>2
<1>7. frames'[1].idx = task'.root
  <2>1. task'.root = task.root
    BY DEF Pushed
  <2>2. CASE n = 0
    BY <1>2, <1>4, <2>1, <2>2
  <2>3. CASE n > 0
    BY <1>1, <1>3, <1>5, <2>1, <2>3
  <2>4. QED
    BY <1>1, <2>2, <2>3
<1>8. task'.at = "visit" => node' = NextKid(frames'[Len(frames')])
  BY <1>2 DEF Pushed, n
<1>9. frames' # << >>
  BY <1>1, <1>2
<1>10. QED
  BY <1>6, <1>7, <1>8, <1>9 DEF Route, Innermost, NextKid

(* ... and when one answers.                                               *)
LEMMA PopRoute ==
  ASSUME TreeInv, TreeInv', Route, NEW x, Popped(x)
  PROVE  Route'
<1> DEFINE n == Len(frames)
<1>1. n \in Nat /\ n > 1 /\ frames' \in Seq(Activation) /\ Len(frames') = n-1
  BY StackType DEF TreeInv, TreeTyped, StackOK, Popped
<1>2. \A k \in 1 .. n-1 : frames'[k].idx = frames[k].idx
  <2>1. frames'[n-1].idx = frames[n-1].idx /\ \A k \in 1 .. n-2 : frames'[k] = frames[k]
    BY DEF Popped, Extended
  <2> HIDE DEF n
  <2>2. QED
    BY <1>1, <2>1
<1>3. \A k \in 1 .. n-2 : frames'[k] = frames[k]
  BY DEF Popped
<1>4. task'.root = task.root /\ (task'.at = "visit" => node' = NextKid(frames'[n-1]))
  BY DEF Popped
<1>5. frames[1].idx = task.root /\ \A k \in 1 .. n-1 : frames[k+1].idx = NextKid(frames[k])
  BY <1>1 DEF Route
<1> HIDE DEF n
<1>6. ASSUME NEW k \in 1 .. Len(frames')-1
      PROVE  frames'[k+1].idx = NextKid(frames'[k])
  <2>1. k \in 1 .. n-2 /\ k \in 1 .. n-1 /\ k+1 \in 1 .. n-1
    BY <1>1
  <2>2. frames'[k] = frames[k] /\ frames'[k+1].idx = frames[k+1].idx
    BY <1>2, <1>3, <2>1
  <2>3. QED
    BY <1>5, <2>1, <2>2
<1>7. frames'[1].idx = task'.root
  BY <1>1, <1>2, <1>4, <1>5
<1>8. task'.at = "visit" => node' = NextKid(frames'[Len(frames')])
  BY <1>1, <1>4
<1>9. frames' # << >>
  BY <1>1
<1>10. QED
  BY <1>6, <1>7, <1>8, <1>9 DEF Route, Innermost, NextKid

LEMMA NextKidFacts ==
  ASSUME NEW s \in Seq(Activation), NEW k \in 1 .. Len(s), Open(s[k])
  PROVE  /\ Len(s[k].made)+1 \in 1 .. Len(Kids(s[k].value))
         /\ NextKid(s[k]) \in Handle
BY FrameShape DEF Open, NextKid

LEMMA PushReads ==
  ASSUME TreeInv, TreeInv', task.at = "visit", Route, Read, Led, Pushed,
         node \in Filled(before) => slots[node] = before[node],
         node \in Filled(before) /\ frames # << >> => Innermost.idx \in Filled(before)
  PROVE  Read' /\ Led'
<1> DEFINE n == Len(frames)
<1>1. n \in Nat /\ frames \in Seq(Activation) /\ before' = before /\ before \in [Idx -> Slot]
  BY StackType DEF Pushed, TreeInv, TreeTyped
<1>2. Len(frames') = n+1 /\ frames'[n+1].idx = node /\ frames'[n+1].value = slots[node].value
  BY DEF Pushed
<1>3. \A k \in 1 .. n : frames'[k] = frames[k]
  BY DEF Pushed
<1>4. \A b \in 1 .. n+1 : b \in 1 .. n \/ b = n+1
  BY <1>1
<1>5. Filled(before)' = Filled(before)
  BY <1>1
<1>6. Read'
  <2>1. \A k \in 1 .. n : frames[k].idx \in Filled(before) => frames[k].value = before[frames[k].idx].value
    BY DEF Read
  <2>2. QED
    BY <1>1, <1>2, <1>3, <1>4, <1>5, <2>1 DEF Read
<1>7. ASSUME node \in Filled(before), NEW a \in 1 .. n
      PROVE  /\ frames[a].idx \in Filled(before)
             /\ node \in Below(before, frames[a].idx)
  <2> DEFINE j == frames[n].idx
             k == Len(frames[n].made) + 1
  <2>1. n \in 1 .. n /\ frames # << >>
    BY <1>1
  <2>2. j \in Filled(before) /\ frames[n].value = before[j].value
    BY <1>7, <2>1 DEF Innermost, Read
  <2>3. frames[a].idx \in Filled(before) /\ j \in Below(before, frames[a].idx)
    BY <1>1, <2>1, <2>2 DEF Led
  <2>4. node = NextKid(frames[n]) /\ Open(frames[n])
    BY <2>1 DEF Route, Innermost, TreeInv, StackAt
  <2>5. k \in 1 .. Len(Kids(frames[n].value))
    BY <1>1, <2>1, <2>4, NextKidFacts
  <2>6. node = Kids(before[j].value)[k] /\ k \in 1 .. Len(Kids(before[j].value))
    BY <2>2, <2>4, <2>5 DEF NextKid
  <2>7. j \in Idx /\ before[j].kind = "Occupied" /\ node \in Idx
    BY <1>7, <2>2 DEF Filled
  <2> HIDE DEF j, k
  <2>8. node \in Below(before, frames[a].idx)
    BY <1>1, <2>3, <2>6, <2>7, BelowClosed
  <2>9. QED
    BY <2>3, <2>8
<1>8. node \in Filled(before) => node \in Below(before, node)
  BY BelowRoot DEF Filled
<1> HIDE DEF n
<1>9. ASSUME NEW b \in 1 .. Len(frames'), frames'[b].idx \in Filled(before),
             NEW a \in 1 .. b
      PROVE  /\ frames'[a].idx \in Filled(before)
             /\ frames'[b].idx \in Below(before, frames'[a].idx)
  <2>1. CASE b \in 1 .. n
    <3>1. a \in 1 .. n /\ frames'[a] = frames[a] /\ frames'[b] = frames[b]
      BY <1>1, <1>3, <2>1
    <3>2. QED
      BY <1>9, <2>1, <3>1 DEF Led, n
  <2>2. CASE b = n+1 /\ a = b
    BY <1>2, <1>8, <1>9, <2>2
  <2>3. CASE b = n+1 /\ a # b
    <3>1. a \in 1 .. n /\ frames'[a] = frames[a] /\ frames'[b].idx = node
      BY <1>1, <1>2, <1>3, <2>3
    <3>2. QED
      BY <1>7, <1>9, <3>1
  <2>4. QED
    BY <1>2, <1>4, <2>1, <2>2, <2>3
<1>10. Led'
  BY <1>1, <1>5, <1>9 DEF Led
<1>11. QED
  BY <1>6, <1>10

LEMMA PopReads ==
  ASSUME TreeInv, UNCHANGED before, Read, Led, NEW x, Popped(x)
  PROVE  Read' /\ Led'
<1> DEFINE n == Len(frames)
<1>1. n \in Nat /\ n > 1 /\ Len(frames') = n-1
  BY StackType DEF Popped
<1>2. \A k \in 1 .. n-1 : frames'[k].idx = frames[k].idx /\ frames'[k].value = frames[k].value
  <2>1. /\ frames'[n-1].idx = frames[n-1].idx /\ frames'[n-1].value = frames[n-1].value
        /\ \A k \in 1 .. n-2 : frames'[k] = frames[k]
    BY DEF Popped, Extended
  <2> HIDE DEF n
  <2>2. QED
    BY <1>1, <2>1
<1>3. Filled(before)' = Filled(before)
  OBVIOUS
<1>4. \A k \in 1 .. n-1 : frames[k].idx \in Filled(before) => frames[k].value = before[frames[k].idx].value
  BY <1>1 DEF Read
<1>5. \A b \in 1 .. n-1 : frames[b].idx \in Filled(before) =>
        \A a \in 1 .. b : /\ frames[a].idx \in Filled(before)
                          /\ frames[b].idx \in Below(before, frames[a].idx)
  BY <1>1 DEF Led
<1> HIDE DEF n
<1>6. \A b \in 1 .. n-1 : \A a \in 1 .. b : a \in 1 .. n-1
  BY <1>1
<1>7. Read'
  BY <1>1, <1>2, <1>3, <1>4 DEF Read
<1>8. Led'
  BY <1>1, <1>2, <1>3, <1>5, <1>6 DEF Led
<1>9. QED
  BY <1>7, <1>8
-----------------------------------------------------------------------------
(* The places for children below i, one by one. *)
LEMMA PlacesShape ==
  ASSUME NEW s \in [Idx -> Slot], NEW S \in SUBSET Idx
  PROVE  /\ \A e \in Places(s, S) : \E i \in S \cap Filled(s) : \E k \in Arity(s, i) :
               e = <<i, k>> /\ KidAt(s, e) = KidOf(s, i, k)
         /\ \A i \in S \cap Filled(s) : \A k \in Arity(s, i) :
               <<i, k>> \in Places(s, S) /\ KidAt(s, <<i, k>>) = KidOf(s, i, k)
<1>1. ASSUME NEW i \in S \cap Filled(s)
      PROVE  KidsAt(s, i) = Kids(s[i].value) /\ DOMAIN KidsAt(s, i) = Arity(s, i)
  BY SlotShape, ValueShape DEF KidsAt, Filled, Arity
<1>2. ASSUME NEW e \in Places(s, S)
      PROVE  \E i \in S \cap Filled(s) : \E k \in Arity(s, i) :
               e = <<i, k>> /\ KidAt(s, e) = KidOf(s, i, k)
  <2>1. PICK i \in S : e \in Entries(s, i)
    BY DEF Places
  <2>2. PICK k \in DOMAIN KidsAt(s, i) : e = <<i, k>>
    BY <2>1 DEF Entries
  <2>3. i \in Filled(s)
    BY <2>2 DEF KidsAt
  <2>4. QED
    BY <1>1, <2>2, <2>3 DEF KidAt, KidOf
<1>3. ASSUME NEW i \in S \cap Filled(s), NEW k \in Arity(s, i)
      PROVE  <<i, k>> \in Places(s, S) /\ KidAt(s, <<i, k>>) = KidOf(s, i, k)
  BY <1>1 DEF Places, Entries, KidAt, KidOf
<1>4. QED
  BY <1>2, <1>3

LEMMA TreeEntries ==
  ASSUME NEW s \in [Idx -> Slot], NEW r, IsTree(s, r),
         NEW i \in Below(s, r), NEW j \in Below(s, r),
         NEW k \in Arity(s, i), NEW l \in Arity(s, j)
  PROVE  /\ KidOf(s, i, k) \in Filled(s) \ {r}
         /\ KidOf(s, i, k) = KidOf(s, j, l) => i = j /\ k = l
<1>1. Below(s, r) \subseteq Idx /\ Below(s, r) \subseteq Filled(s)
  BY DEF IsTree, Filled
<1>2. /\ <<i, k>> \in Places(s, Below(s, r)) /\ KidAt(s, <<i, k>>) = KidOf(s, i, k)
      /\ <<j, l>> \in Places(s, Below(s, r)) /\ KidAt(s, <<j, l>>) = KidOf(s, j, l)
  BY <1>1, PlacesShape
<1>3. KidOf(s, i, k) \in Idx \ {r}
  BY <1>2 DEF IsTree
<1>4. KidOf(s, i, k) = KidOf(s, j, l) => <<i, k>> = <<j, l>>
  BY <1>2 DEF IsTree
<1>5. s[i].kind = "Occupied" /\ i \in Idx
  BY <1>1 DEF Filled
<1>6. KidOf(s, i, k) \in Below(s, r)
  BY <1>3, <1>5, BelowClosed DEF KidOf, Arity
<1>7. QED
  BY <1>1, <1>3, <1>4, <1>6

(* What is closed under children and holds i holds all that is below i. *)
LEMMA BelowLeast ==
  ASSUME NEW s \in [Idx -> Slot], NEW S \in SUBSET Idx, NEW r \in S,
         \A i \in S \cap Filled(s) : \A k \in Arity(s, i) : KidOf(s, i, k) \in Idx => KidOf(s, i, k) \in S
  PROVE  Below(s, r) \subseteq S
<1>1. ASSUME NEW i \in S, NEW e \in Entries(s, i), KidAt(s, e) \in Idx
      PROVE  KidAt(s, e) \in S
  <2>1. e \in Places(s, {i}) /\ {i} \in SUBSET Idx
    BY DEF Places
  <2>2. PICK j \in {i} \cap Filled(s) : \E k \in Arity(s, j) : e = <<j, k>> /\ KidAt(s, e) = KidOf(s, j, k)
    BY <2>1, PlacesShape
  <2>3. QED
    BY <1>1, <2>2
<1>2. DOMAIN LinksOf(s) = Idx /\ \A i \in Idx : LinksOf(s)[i] = {KidAt(s, e) : e \in Entries(s, i)} \cap Idx
  BY DEF LinksOf
<1>3. ClosedIn(LinksOf(s), S)
  BY <1>1, <1>2 DEF ClosedIn
<1>4. QED
  BY <1>2, <1>3 DEF Below, Reachable

LEMMA MakesTree ==
  ASSUME NEW s \in [Idx -> Slot], NEW r \in Filled(s), NEW S, S = Below(s, r), S \subseteq Filled(s),
         \A i \in S : \A k \in Arity(s, i) : KidOf(s, i, k) \in Idx \ {r},
         \A i, j \in S : \A k \in Arity(s, i), l \in Arity(s, j) :
            KidOf(s, i, k) = KidOf(s, j, l) => i = j /\ k = l
  PROVE  IsTree(s, r)
<1>1. S \in SUBSET Idx
  BY DEF Filled
<1>2. \A e \in Places(s, S) : \E i \in S : \E k \in Arity(s, i) :
        e = <<i, k>> /\ KidAt(s, e) = KidOf(s, i, k)
  BY <1>1, PlacesShape
<1>3. \A e \in Places(s, S) : KidAt(s, e) \in Idx \ {r}
  BY <1>2
<1>4. \A d, e \in Places(s, S) : KidAt(s, d) = KidAt(s, e) => d = e
  BY <1>2
<1>5. QED
  BY <1>3, <1>4 DEF IsTree
-----------------------------------------------------------------------------
(***************************************************************************)
(* A deletion.  What is gone is closed under children; nothing on the      *)
(* stack is gone, which is why the stack never frees a node twice; and the *)
(* indices that led to what is gone, those "eaten", are as many as the     *)
(* nodes that are gone.  In a tree no two activations are of one node.     *)
(***************************************************************************)
Gone        == Filled(before) \ Filled(slots)
Eaten(i, k) == \/ i \in Gone
               \/ \E a \in 1 .. Len(frames) : frames[a].idx = i /\ k <= Len(frames[a].made)

GoneClosed == \A i \in Gone : \A k \in Arity(before, i) : KidOf(before, i, k) \in Gone
MadeGone   == \A a \in 1 .. Len(frames) : \A m \in 1 .. Len(frames[a].made) :
                /\ frames[a].made[m] = Kids(frames[a].value)[m]
                /\ frames[a].made[m] \in Gone
NoneGone   == \A a \in 1 .. Len(frames) : frames[a].idx \notin Gone
EatenOnce  == \A i, j \in Filled(before) : \A k \in Arity(before, i), l \in Arity(before, j) :
                Eaten(i, k) /\ Eaten(j, l) /\ KidOf(before, i, k) = KidOf(before, j, l)
                  => i = j /\ k = l
GoneEaten  == \A g \in Gone : \E i \in Filled(before) : \E k \in Arity(before, i) :
                Eaten(i, k) /\ KidOf(before, i, k) = g
NoneTwice  == IsTree(before, task.root) =>
                \A a, b \in 1 .. Len(frames) : frames[a].idx = frames[b].idx => a = b
DeleteInv  == /\ GoneClosed /\ MadeGone /\ NoneGone /\ EatenOnce /\ GoneEaten /\ NoneTwice
              /\ frames = << >> => Gone = {}

LEMMA DeletePush ==
  ASSUME TreeInv, TreeInv', task.at = "visit", task.op = "delete", Route, DeleteInv, Pushed
  PROVE  DeleteInv'
<1> DEFINE n == Len(frames)
<1>1. n \in Nat /\ frames \in Seq(Activation) /\ UNCHANGED <<before, slots>>
  BY StackType DEF Pushed
<1>2. /\ Len(frames') = n+1 /\ frames'[n+1].idx = node /\ Len(frames'[n+1].made) = 0
      /\ task'.root = task.root
  BY DEF Pushed
<1>3. \A k \in 1 .. n : frames'[k] = frames[k]
  BY DEF Pushed
<1>4. Gone' = Gone /\ node \notin Gone /\ node \in Idx
  BY <1>1 DEF Gone, Filled, Pushed
<1>5. \A a \in 1 .. n+1 : a \in 1 .. n \/ a = n+1
  BY <1>1
<1>6. (\A i, k : Arity(before, i)' = Arity(before, i) /\ KidOf(before, i, k)' = KidOf(before, i, k))
  BY <1>1 DEF Arity, KidOf
<1>7. ASSUME NEW i, NEW k \in Arity(before, i)
      PROVE  Eaten(i, k)' <=> Eaten(i, k)
  <2>1. k \in Int /\ k > 0
    BY DEF Arity
  <2> HIDE DEF n
  <2>2. (\E a \in 1 .. n+1 : frames'[a].idx = i /\ k <= Len(frames'[a].made))
          <=> (\E a \in 1 .. n : frames[a].idx = i /\ k <= Len(frames[a].made))
    <3>1. ASSUME NEW a \in 1 .. n+1, frames'[a].idx = i, k <= Len(frames'[a].made)
          PROVE  a \in 1 .. n /\ frames[a].idx = i /\ k <= Len(frames[a].made)
      BY <1>2, <1>3, <1>5, <2>1, <3>1
    <3>2. ASSUME NEW a \in 1 .. n, frames[a].idx = i, k <= Len(frames[a].made)
          PROVE  a \in 1 .. n+1 /\ frames'[a].idx = i /\ k <= Len(frames'[a].made)
      BY <1>1, <1>3, <3>2
    <3>3. QED
      BY <3>1, <3>2
  <2>3. QED
    BY <1>2, <1>4, <2>2 DEF Eaten, n
<1>8. GoneClosed'
  BY <1>1, <1>4, <1>6 DEF DeleteInv, GoneClosed
<1>9. MadeGone' /\ NoneGone'
  <2>1. \A a \in 1 .. n : frames[a].idx \notin Gone
    BY DEF DeleteInv, NoneGone
  <2>2. \A a \in 1 .. n : \A m \in 1 .. Len(frames[a].made) :
           frames[a].made[m] = Kids(frames[a].value)[m] /\ frames[a].made[m] \in Gone
    BY DEF DeleteInv, MadeGone
  <2> HIDE DEF n
  <2>3. NoneGone'
    BY <1>2, <1>3, <1>4, <1>5, <2>1 DEF NoneGone
  <2>4. MadeGone'
    BY <1>2, <1>3, <1>4, <1>5, <2>2 DEF MadeGone
  <2>5. QED
    BY <2>3, <2>4
<1>10. EatenOnce'
  BY <1>1, <1>6, <1>7 DEF DeleteInv, EatenOnce
<1>11. GoneEaten'
  BY <1>1, <1>4, <1>6, <1>7 DEF DeleteInv, GoneEaten
<1>12. NoneTwice'
  <2> SUFFICES ASSUME IsTree(before, task.root)
               PROVE  \A a \in 1 .. n : frames[a].idx # node
    <3>1. NoneTwice
      BY DEF DeleteInv
    <3>2. IsTree(before, task.root)' <=> IsTree(before, task.root)
      BY <1>1, <1>2, RootKept
    <3>3. \A a \in 1 .. n : a \in 1 .. n+1
      BY <1>1
    <3> SUFFICES ASSUME IsTree(before, task.root), NEW a \in 1 .. n+1, NEW b \in 1 .. n+1,
                        frames'[a].idx = frames'[b].idx
                 PROVE  a = b
      BY <1>2, <3>2 DEF NoneTwice
    <3> HIDE DEF n
    <3>4. CASE a \in 1 .. n /\ b \in 1 .. n
      BY <1>3, <3>1, <3>4 DEF NoneTwice, n
    <3>5. CASE a = n+1 \/ b = n+1
      BY <1>2, <1>3, <1>5, <3>5
    <3>6. QED
      BY <1>5, <3>4, <3>5
  <2> SUFFICES ASSUME NEW a \in 1 .. n, frames[a].idx = node PROVE FALSE
    OBVIOUS
  <2>1. n \in 1 .. n /\ frames # << >>
    BY <1>1
  <2>2. /\ node = NextKid(frames[n]) /\ frames[1].idx = task.root
        /\ \A k \in 1 .. n-1 : frames[k+1].idx = NextKid(frames[k])
    BY <2>1 DEF Route, Innermost
  <2>3. \A k \in 1 .. n : Open(frames[k])
    BY DEF TreeInv, StackAt
  <2> DEFINE pos(k) == Len(frames[k].made) + 1
  <2>4. ASSUME NEW k \in 1 .. n
        PROVE  /\ frames[k].idx \in Below(before, task.root)
               /\ pos(k) \in Arity(before, frames[k].idx)
               /\ NextKid(frames[k]) = KidOf(before, frames[k].idx, pos(k))
    <3>1. Owned(frames)
      BY DEF TreeInv, DeleteOwned
    <3>2. frames[k].idx \in Below(before, task.root) /\ frames[k].value = before[frames[k].idx].value
      BY <3>1 DEF Owned, Own
    <3>3. pos(k) \in 1 .. Len(Kids(frames[k].value))
      BY <1>1, <2>3, NextKidFacts
    <3>4. QED
      BY <3>2, <3>3 DEF Arity, KidOf, NextKid
  <2>5. before \in [Idx -> Slot]
    BY DEF TreeInv, TreeTyped
  <2> HIDE DEF pos, n
  <2>6. a # 1
    BY <2>1, <2>2, <2>4, <2>5, TreeEntries
  <2>7. a-1 \in 1 .. n-1 /\ a-1 \in 1 .. n
    BY <1>1, <2>6
  <2>8. frames[(a-1)+1].idx = node
    BY <2>7
  <2>9. NextKid(frames[a-1]) = NextKid(frames[n])
    BY <2>2, <2>7, <2>8
  <2>10. frames[a-1].idx = frames[n].idx
    BY <2>1, <2>4, <2>5, <2>7, <2>9, TreeEntries
  <2>11. a-1 = n
    BY <2>1, <2>7, <2>10 DEF DeleteInv, NoneTwice, n
  <2>12. QED
    BY <1>1, <2>7, <2>11
<1>13. frames' # << >>
  BY <1>1, <1>2
<1>14. QED
  BY <1>8, <1>9, <1>10, <1>11, <1>12, <1>13 DEF DeleteInv

(* An index that was eaten led to what is gone. *)
LEMMA EatenIsGone ==
  ASSUME TreeInv, task.op = "delete", DeleteInv,
         NEW i \in Filled(before), NEW k \in Arity(before, i), Eaten(i, k)
  PROVE  KidOf(before, i, k) \in Gone
<1>1. CASE i \in Gone
  BY <1>1 DEF DeleteInv, GoneClosed
<1>2. CASE \E a \in 1 .. Len(frames) : frames[a].idx = i /\ k <= Len(frames[a].made)
  <2>1. PICK a \in 1 .. Len(frames) : frames[a].idx = i /\ k <= Len(frames[a].made)
    BY <1>2
  <2>2. frames[a].value = before[i].value
    BY <2>1 DEF TreeInv, DeleteOwned, Owned
  <2>3. k \in 1 .. Len(frames[a].made)
    BY <2>1, StackType, FrameShape DEF Arity
  <2>4. QED
    BY <2>2, <2>3 DEF DeleteInv, MadeGone, KidOf
<1>3. QED
  BY <1>1, <1>2 DEF Eaten

(* The innermost activation frees a node that is still there and that no   *)
(* other activation is of: its next child would be gone.                   *)
LEMMA DeleteFinish ==
  ASSUME TreeInv, task.at = "finish", task.op = "delete", Route, DeleteInv
  PROVE  LET n == Len(frames)  i == Innermost.idx
         IN  /\ n \in Nat \ {0} /\ frames[n] = Innermost
             /\ i \in Filled(slots) /\ i \in Filled(before) /\ i \in Idx
             /\ \A k \in Arity(before, i) : /\ k <= Len(frames[n].made)
                                            /\ KidOf(before, i, k) \in Gone
             /\ \A a \in 1 .. n-1 : frames[a].idx # i
<1> DEFINE n == Len(frames)
           i == Innermost.idx
<1>1. n \in Nat \ {0} /\ frames[n] = Innermost /\ n \in 1 .. n /\ frames \in Seq(Activation)
  BY StackType DEF TreeInv, StackAt, Innermost
<1>2. /\ \A a \in 1 .. n : /\ frames[a].idx \in Filled(before)
                           /\ frames[a].value = before[frames[a].idx].value
  BY DEF TreeInv, DeleteOwned, Owned
<1>3. i \in Filled(before) /\ i \in Idx /\ Innermost.value = before[i].value
  BY <1>1, <1>2 DEF Filled
<1>4. i \in Filled(slots)
  BY <1>1, <1>3 DEF DeleteInv, NoneGone, Gone
<1>5. ASSUME NEW k \in Arity(before, i)
      PROVE  k <= Len(frames[n].made) /\ KidOf(before, i, k) \in Gone
  <2>1. Len(Innermost.made) = Len(Kids(Innermost.value))
    BY InnermostFacts
  <2>2. k \in 1 .. Len(frames[n].made)
    BY <1>1, <1>3, <2>1 DEF Arity
  <2>3. frames[n].made[k] = Kids(before[i].value)[k] /\ frames[n].made[k] \in Gone
    BY <1>1, <1>3, <2>2 DEF DeleteInv, MadeGone
  <2>4. Len(frames[n].made) \in Nat
    BY <1>1, FrameShape
  <2>5. QED
    BY <2>2, <2>3, <2>4 DEF KidOf
<1>6. ASSUME NEW a \in 1 .. n-1, frames[a].idx = i
      PROVE  FALSE
  <2>1. a \in 1 .. n /\ a+1 \in 1 .. n
    BY <1>1
  <2>2. frames[a+1].idx = NextKid(frames[a]) /\ Open(frames[a])
    BY DEF Route, TreeInv, TreeTyped, StackOK
  <2> DEFINE k == Len(frames[a].made) + 1
  <2>3. k \in 1 .. Len(Kids(frames[a].value)) /\ frames[a].value = before[i].value
    BY <1>1, <1>2, <1>6, <2>1, <2>2, NextKidFacts
  <2>4. k \in Arity(before, i) /\ KidOf(before, i, k) = frames[a+1].idx
    BY <2>2, <2>3 DEF Arity, KidOf, NextKid
  <2> HIDE DEF k, n
  <2>5. frames[a+1].idx \in Gone
    BY <1>5, <2>4
  <2>6. QED
    BY <2>1, <2>5 DEF DeleteInv, NoneGone, n
<1>7. QED
  BY <1>1, <1>3, <1>4, <1>5, <1>6

LEMMA GoneMore ==
  ASSUME TreeInv, UNCHANGED before, NEW i \in Filled(slots), i \in Filled(before),
         Filled(slots)' = Filled(slots) \ {i}
  PROVE  Gone' = Gone \cup {i} /\ i \notin Gone
BY DEF Gone, Filled

(* What a free and its answer do to the indices eaten: those of the node   *)
(* freed stay eaten, and the one that led to it is eaten with it.          *)
LEMMA DeletePop ==
  ASSUME TreeInv, TreeInv', task.at = "finish", task.op = "delete", Route, DeleteInv,
         UNCHANGED before, Filled(slots)' = Filled(slots) \ {Innermost.idx},
         Popped(Innermost.idx)
  PROVE  DeleteInv'
<1> DEFINE n == Len(frames)
           i == Innermost.idx
           p == frames[n-1]
           l == Len(p.made) + 1
<1>1. /\ n \in Nat \ {0} /\ frames[n] = Innermost /\ n > 1
      /\ i \in Filled(slots) /\ i \in Filled(before) /\ i \in Idx
      /\ \A k \in Arity(before, i) : /\ k <= Len(frames[n].made)
                                     /\ KidOf(before, i, k) \in Gone
      /\ \A a \in 1 .. n-1 : frames[a].idx # i
  BY DeleteFinish DEF Popped
<1>2. Gone' = Gone \cup {i} /\ i \notin Gone
  BY <1>1, GoneMore
<1>3. n-1 \in 1 .. n-1 /\ n-1 \in 1 .. n /\ n \in 1 .. n
  BY <1>1
<1>4. frames \in Seq(Activation)
  BY StackType
<1>5. /\ Len(frames') = n-1
      /\ \A k \in 1 .. n-2 : frames'[k] = frames[k]
      /\ frames'[n-1].idx = p.idx /\ frames'[n-1].value = p.value
      /\ Len(frames'[n-1].made) = l
      /\ \A m \in 1 .. Len(p.made) : frames'[n-1].made[m] = p.made[m]
      /\ frames'[n-1].made[l] = i
      /\ task'.root = task.root
  BY DEF Popped, Extended
<1>6. p.idx \in Filled(before) /\ p.value = before[p.idx].value
  BY <1>3 DEF TreeInv, DeleteOwned, Owned
<1>7. l \in 1 .. Len(Kids(p.value)) /\ NextKid(p) = i
  <2>1. Open(p)
    BY <1>3 DEF TreeInv, TreeTyped, StackOK
  <2>2. frames[(n-1)+1].idx = NextKid(p)
    BY <1>3 DEF Route
  <2>3. QED
    BY <1>1, <1>3, <1>4, <2>1, <2>2, NextKidFacts
<1>8. l \in Arity(before, p.idx) /\ KidOf(before, p.idx, l) = i /\ i = Kids(p.value)[l]
  BY <1>6, <1>7 DEF Arity, KidOf, NextKid
<1>9. Len(p.made) \in Nat
  BY <1>3, <1>4, FrameShape
<1>10. \A a \in 1 .. n-1 : a \in 1 .. n /\ (a \in 1 .. n-2 \/ a = n-1)
  BY <1>1
<1>11. \A a \in 1 .. n : a \in 1 .. n-1 \/ a = n
  BY <1>1
<1>12. \A j, k : Arity(before, j)' = Arity(before, j) /\ KidOf(before, j, k)' = KidOf(before, j, k)
  BY DEF Arity, KidOf
<1> DEFINE q == frames'[n-1]
<1> HIDE DEF n, i, p, l, q
<1>13. ASSUME NEW j, NEW k \in Arity(before, j), Eaten(j, k)'
       PROVE  Eaten(j, k) \/ (j = p.idx /\ k = l)
  <2>1. k \in Int
    BY DEF Arity
  <2>2. CASE j \in Gone
    BY <2>2 DEF Eaten
  <2>3. CASE j = i
    BY <1>1, <1>3, <2>3 DEF Eaten, n, i
  <2>4. CASE \E a \in 1 .. n-1 : frames'[a].idx = j /\ k <= Len(frames'[a].made)
    <3>1. PICK a \in 1 .. n-1 : frames'[a].idx = j /\ k <= Len(frames'[a].made)
      BY <2>4
    <3>2. CASE a \in 1 .. n-2
      <4>1. frames[a].idx = j /\ k <= Len(frames[a].made) /\ a \in 1 .. n
        BY <1>5, <1>10, <3>1, <3>2
      <4>2. QED
        BY <4>1 DEF Eaten, n
    <3>3. CASE a = n-1
      <4>1. p.idx = j /\ k <= l
        BY <1>5, <3>1, <3>3 DEF q
      <4>2. CASE k # l
        <5>1. k <= Len(p.made)
          BY <1>9, <2>1, <4>1, <4>2 DEF l
        <5>2. QED
          BY <1>3, <4>1, <5>1 DEF Eaten, n, p
      <4>3. QED
        BY <4>1, <4>2
    <3>4. QED
      BY <1>10, <3>2, <3>3
  <2>5. QED
    BY <1>2, <1>5, <1>13, <2>2, <2>3, <2>4 DEF Eaten, n
<1>14. ASSUME NEW j, NEW k \in Arity(before, j), Eaten(j, k)
       PROVE  Eaten(j, k)'
  <2>1. k \in Int
    BY DEF Arity
  <2>2. CASE j \in Gone
    BY <1>2, <2>2 DEF Eaten
  <2>3. CASE \E a \in 1 .. n : frames[a].idx = j /\ k <= Len(frames[a].made)
    <3>1. PICK a \in 1 .. n : frames[a].idx = j /\ k <= Len(frames[a].made)
      BY <2>3
    <3>2. CASE a \in 1 .. n-1
      <4>1. frames'[a].idx = j /\ k <= Len(frames'[a].made)
        BY <1>5, <1>9, <1>10, <2>1, <3>1, <3>2, SMTT(30) DEF p, l, q
      <4>2. QED
        BY <1>5, <3>2, <4>1 DEF Eaten
    <3>3. CASE a = n
      <4>1. j \in Gone'
        BY <1>1, <1>2, <3>1, <3>3 DEF i, n
      <4>2. QED
        BY <4>1 DEF Eaten
    <3>4. QED
      BY <1>11, <3>2, <3>3
  <2>4. QED
    BY <1>14, <2>2, <2>3 DEF Eaten, n
<1>15. ASSUME NEW j, NEW k, j = p.idx, k = l
       PROVE  Eaten(j, k)'
  <2>1. frames'[n-1].idx = j /\ k <= Len(frames'[n-1].made)
    BY <1>5, <1>9, <1>15 DEF q, l
  <2>2. QED
    BY <1>3, <1>5, <2>1 DEF Eaten
<1>16. GoneClosed'
  BY <1>1, <1>2, <1>12 DEF DeleteInv, GoneClosed, i
<1>17. NoneGone'
  <2>1. \A a \in 1 .. n-1 : frames'[a].idx = frames[a].idx
    BY <1>5, <1>10 DEF p, q
  <2>2. \A a \in 1 .. n-1 : frames[a].idx \notin Gone /\ frames[a].idx # i
    BY <1>1, <1>10 DEF DeleteInv, NoneGone, n, i
  <2>3. QED
    BY <1>2, <1>5, <2>1, <2>2 DEF NoneGone
<1>18. MadeGone'
  <2> SUFFICES ASSUME NEW a \in 1 .. n-1, NEW m \in 1 .. Len(frames'[a].made)
               PROVE  /\ frames'[a].made[m] = Kids(frames'[a].value)[m]
                      /\ frames'[a].made[m] \in Gone'
    BY <1>5 DEF MadeGone
  <2>1. \A b \in 1 .. n : \A c \in 1 .. Len(frames[b].made) :
           frames[b].made[c] = Kids(frames[b].value)[c] /\ frames[b].made[c] \in Gone
    BY DEF DeleteInv, MadeGone, n
  <2>2. CASE a \in 1 .. n-2
    BY <1>2, <1>5, <1>10, <2>1, <2>2
  <2>3. CASE a = n-1 /\ m \in 1 .. Len(p.made)
    <3>1. p.made[m] = Kids(p.value)[m] /\ p.made[m] \in Gone
      BY <1>3, <2>1, <2>3 DEF p
    <3>2. frames'[a].made[m] = p.made[m] /\ frames'[a].value = p.value
      BY <1>5, <2>3 DEF q
    <3>3. QED
      BY <1>2, <3>1, <3>2
  <2>4. CASE a = n-1 /\ m = l
    BY <1>2, <1>5, <1>8, <2>4 DEF q
  <2>5. a = n-1 => m \in 1 .. Len(p.made) \/ m = l
    BY <1>5, <1>9 DEF l, q
  <2>6. QED
    BY <1>10, <2>2, <2>3, <2>4, <2>5
<1>19. EatenOnce'
  <2> SUFFICES ASSUME NEW j \in Filled(before), NEW h \in Filled(before),
                      NEW k \in Arity(before, j), NEW m \in Arity(before, h),
                      Eaten(j, k)', Eaten(h, m)', KidOf(before, j, k) = KidOf(before, h, m)
               PROVE  j = h /\ k = m
    BY <1>12 DEF EatenOnce
  <2>1. Eaten(j, k) \/ (j = p.idx /\ k = l)
    BY <1>13
  <2>2. Eaten(h, m) \/ (h = p.idx /\ m = l)
    BY <1>13
  <2>3. CASE Eaten(j, k) /\ Eaten(h, m)
    BY <2>3 DEF DeleteInv, EatenOnce
  <2>4. Eaten(j, k) => KidOf(before, j, k) # i
    BY <1>2, EatenIsGone
  <2>5. Eaten(h, m) => KidOf(before, h, m) # i
    BY <1>2, EatenIsGone
  <2>6. QED
    BY <1>8, <2>1, <2>2, <2>3, <2>4, <2>5
<1>20. GoneEaten'
  <2>1. \A g \in Gone : \E j \in Filled(before) : \E k \in Arity(before, j) :
                Eaten(j, k)' /\ KidOf(before, j, k) = g
    BY <1>14 DEF DeleteInv, GoneEaten
  <2>2. \E j \in Filled(before) : \E k \in Arity(before, j) :
                Eaten(j, k)' /\ KidOf(before, j, k) = i
    <3>1. PICK j \in Filled(before) : j = p.idx
      BY <1>6
    <3>2. PICK k \in Arity(before, j) : k = l
      BY <1>8, <3>1
    <3>3. Eaten(j, k)' /\ KidOf(before, j, k) = i
      BY <1>8, <1>15, <3>1, <3>2
    <3>4. QED
      BY <3>3
  <2>3. QED
    BY <1>2, <1>12, <2>1, <2>2 DEF GoneEaten
<1>21. NoneTwice'
  <2>1. IsTree(before, task.root)' <=> IsTree(before, task.root)
    BY <1>5, RootKept
  <2>2. \A a \in 1 .. n-1 : a \in 1 .. n /\ frames'[a].idx = frames[a].idx
    BY <1>5, <1>10 DEF p, q
  <2>3. NoneTwice
    BY DEF DeleteInv
  <2>4. QED
    BY <1>5, <2>1, <2>2, <2>3 DEF NoneTwice, n
<1>22. frames' # << >>
  <2>1. Len(frames') # 0
    BY <1>1, <1>5
  <2>2. QED
    BY <2>1
<1>23. QED
  BY <1>16, <1>17, <1>18, <1>19, <1>20, <1>21, <1>22 DEF DeleteInv

(* The last free: what is gone is the tree. *)
LEMMA DeleteSucceeds ==
  ASSUME TreeInv, TreeInv', task.at = "finish", task.op = "delete", Route, DeleteInv,
         UNCHANGED before, Filled(slots)' = Filled(slots) \ {Innermost.idx},
         Len(frames) = 1, task' = Answer("Ok")
  PROVE  DeletesTrees'
<1> DEFINE i == Innermost.idx
<1>1. /\ frames[1] = Innermost
      /\ i \in Filled(slots) /\ i \in Filled(before) /\ i \in Idx
      /\ \A k \in Arity(before, i) : /\ k <= Len(frames[1].made)
                                     /\ KidOf(before, i, k) \in Gone
  BY DeleteFinish
<1>2. Gone' = Gone \cup {i} /\ i \notin Gone
  BY <1>1, GoneMore
<1>3. task.root = i
  BY <1>1 DEF Route, TreeInv, StackAt
<1>4. before \in [Idx -> Slot]
  BY DEF TreeInv, TreeTyped
<1>5. task'.at = "done" /\ task'.op = "delete" /\ task'.root = i /\ task'.answer = "Ok"
  BY <1>3 DEF Answer, TreeInv, TreeTyped, Task
<1> HIDE DEF i
<1> DEFINE S == Gone \cup {i}
<1>6. S \subseteq Filled(before) /\ S \in SUBSET Idx /\ i \in S
  BY <1>1 DEF Gone, Filled
<1>7. \A j \in S : \A k \in Arity(before, j) : KidOf(before, j, k) \in Gone
  BY <1>1 DEF DeleteInv, GoneClosed
<1>8. S \subseteq Below(before, i)
  <2>1. Filled(before)' \ Filled(slots)' \subseteq Below(before', task'.root)
    BY <1>5 DEF TreeInv, Confined
  <2>2. QED
    BY <1>2, <1>5, <2>1 DEF Gone
<1>9. Below(before, i) = S
  <2>1. Below(before, i) \subseteq S
    BY <1>4, <1>6, <1>7, BelowLeast
  <2>2. QED
    BY <1>8, <2>1
<1>10. \A j \in S : \A k \in Arity(before, j) : Eaten(j, k)
  BY <1>1, <1>5 DEF Eaten, i
<1>11. \A j, h \in S : \A k \in Arity(before, j), l \in Arity(before, h) :
          KidOf(before, j, k) = KidOf(before, h, l) => j = h /\ k = l
  BY <1>6, <1>10 DEF DeleteInv, EatenOnce
<1>12. \A j \in S : \A k \in Arity(before, j) : KidOf(before, j, k) \in Idx \ {i}
  BY <1>2, <1>6, <1>7 DEF Gone
<1> HIDE DEF S
<1>13. IsTree(before, i)
  BY <1>1, <1>4, <1>6, <1>9, <1>11, <1>12, MakesTree
<1>14. Filled(before) \ Allocated' = S
  <2>1. Allocated' = Filled(slots)'
    BY DEF Allocated, IsOccupied, Filled
  <2>2. QED
    BY <1>2, <2>1 DEF Gone, S
<1>15. Filled(before)' = Filled(before) /\ before' = before
  OBVIOUS
<1>16. QED
  BY <1>5, <1>9, <1>13, <1>14, <1>15 DEF DeletesTrees

(* A visit that fails: no tree, and its argument is still there. *)
LEMMA DeleteFails ==
  ASSUME TreeInv, task.at = "visit", task.op = "delete", Route, DeleteInv,
         UNCHANGED <<before, slots>>, ~ValidIndex(node), Fail(IndexError(node))
  PROVE  DeletesTrees'
<1> DEFINE n == Len(frames)
           r == task.root
<1>1. n \in Nat /\ frames \in Seq(Activation) /\ before \in [Idx -> Slot] /\ node \in Handle
  BY StackType DEF TreeInv, TreeTyped
<1>2. task'.at = "done" /\ task'.op = "delete" /\ task'.root = r /\ task'.answer # "Ok"
  BY DEF Fail, Answer, IndexError, TreeInv, TreeTyped, Task
<1>3. node \in Idx => node \notin Filled(slots)
  BY DEF ValidIndex, IsOccupied, Filled, Idx
<1>4. r \notin Gone
  <2>1. CASE frames = << >>
    BY <2>1 DEF DeleteInv
  <2>2. CASE frames # << >>
    <3>1. 1 \in 1 .. n /\ frames[1].idx = r
      BY <1>1, <2>2, EmptySeq DEF Route
    <3>2. QED
      BY <3>1 DEF DeleteInv, NoneGone
  <2>3. QED
    BY <2>1, <2>2
<1>5. ASSUME IsTree(before, r)
      PROVE  FALSE
  <2>1. CASE frames = << >>
    <3>1. node = r /\ Gone = {}
      BY <2>1 DEF Route, DeleteInv
    <3>2. r \in Filled(before) /\ r \in Idx
      BY <1>5 DEF IsTree, Filled
    <3>3. QED
      BY <1>3, <3>1, <3>2 DEF Gone
  <2>2. CASE frames # << >>
    <3> DEFINE i == frames[n].idx
               l == Len(frames[n].made) + 1
    <3>1. n \in 1 .. n
      BY <1>1, <2>2, EmptySeq
    <3>2. node = NextKid(frames[n]) /\ Open(frames[n])
      BY <2>2, <3>1 DEF Route, Innermost, TreeInv, StackAt
    <3>3. i \in Below(before, r) /\ frames[n].value = before[i].value /\ i \in Filled(before)
      BY <3>1 DEF TreeInv, DeleteOwned, Owned, Own
    <3>4. l \in Arity(before, i) /\ KidOf(before, i, l) = node
      BY <1>1, <3>1, <3>2, <3>3, NextKidFacts DEF Arity, KidOf, NextKid
    <3>5. node \in Filled(before) /\ node \in Idx
      BY <1>1, <1>5, <3>3, <3>4, TreeEntries DEF Filled
    <3>6. node \in Gone
      BY <1>3, <3>5 DEF Gone
    <3> HIDE DEF i, l
    <3>7. PICK j \in Filled(before) : \E k \in Arity(before, j) : Eaten(j, k) /\ KidOf(before, j, k) = node
      BY <3>6 DEF DeleteInv, GoneEaten
    <3>8. PICK k \in Arity(before, j) : Eaten(j, k) /\ KidOf(before, j, k) = node
      BY <3>7
    <3>9. j \in Below(before, r)
      <4>1. Gone \subseteq Below(before, r)
        BY DEF TreeInv, Confined, Gone
      <4>2. \A a \in 1 .. n : frames[a].idx \in Below(before, r)
        BY DEF TreeInv, DeleteOwned, Owned, Own
      <4>3. QED
        BY <3>8, <4>1, <4>2 DEF Eaten
    <3>10. j = i /\ k = l
      BY <1>1, <1>5, <3>3, <3>4, <3>8, <3>9, TreeEntries
    <3>11. i \notin Gone
      BY <3>1 DEF DeleteInv, NoneGone, i
    <3>12. PICK a \in 1 .. n : frames[a].idx = i /\ l <= Len(frames[a].made)
      BY <3>8, <3>10, <3>11 DEF Eaten
    <3>13. a = n
      BY <1>5, <3>1, <3>12 DEF DeleteInv, NoneTwice, i
    <3>14. Len(frames[n].made) \in Nat
      BY <1>1, <3>1, FrameShape
    <3>15. QED
      BY <3>12, <3>13, <3>14 DEF l
  <2>3. QED
    BY <2>1, <2>2
<1>6. Filled(before) \ Allocated' = Gone
  BY DEF Allocated, IsOccupied, Filled, Gone
<1>7. Filled(before)' = Filled(before) /\ before' = before
  OBVIOUS
<1>8. QED
  BY <1>2, <1>4, <1>5, <1>6, <1>7 DEF DeletesTrees
-----------------------------------------------------------------------------
LEMMA LinksShape ==
  ASSUME NEW s \in [Idx -> Slot], NEW i \in Filled(s), NEW k \in Arity(s, i), KidOf(s, i, k) \in Idx
  PROVE  KidOf(s, i, k) \in LinksOf(s)[i]
<1>1. i \in Idx /\ Kids(s[i].value) \in Seq(Handle)
  BY SlotShape, ValueShape DEF Filled
<1>2. KidsAt(s, i) = Kids(s[i].value) /\ k \in DOMAIN KidsAt(s, i)
  BY <1>1 DEF KidsAt, Arity
<1>3. <<i, k>> \in Entries(s, i) /\ KidAt(s, <<i, k>>) = KidOf(s, i, k)
  BY <1>2 DEF Entries, KidAt, KidOf
<1>4. QED
  BY <1>1, <1>3 DEF LinksOf

(* A stack that is full holds some node twice; what was between the two    *)
(* leads from it back to it.                                               *)
LEMMA FullStackIsCycle ==
  ASSUME TreeInv, Route, Read, Led,
         \A k \in 1 .. Len(frames) : Open(frames[k]), Len(frames) = MaxDepth,
         \A b \in 1 .. Len(frames) : \A a \in 1 .. b-1 :
            frames[a].idx = frames[b].idx => frames[b].idx \in Filled(before)
  PROVE  \E i \in Below(before, task.root) : \E j \in LinksOf(before)[i] : i \in Below(before, j)
<1> DEFINE n == Len(frames)
           f == [k \in 1 .. n |-> frames[k].idx]
<1>1. n \in Nat /\ n > N /\ frames \in Seq(Activation) /\ before \in [Idx -> Slot]
  BY StackType DEF TreeInv, TreeTyped
<1>2. f \in [1 .. n -> Idx]
  BY <1>1, FrameShape
<1>3. \E a, b \in 1 .. n : a # b /\ f[a] = f[b]
  <2>1. IsFiniteSet(1 .. n) /\ Cardinality(1 .. n) = n
    BY <1>1, FS_Interval
  <2> HIDE DEF f, n
  <2>2. IsFiniteSet(Idx) /\ Cardinality(Idx) = N
    BY IdxFinite
  <2>3. QED
    BY <1>1, <1>2, <2>1, <2>2, FS_PigeonHole
<1>4. \E a, b \in 1 .. n : a < b /\ frames[a].idx = frames[b].idx
  <2>1. PICK a \in 1 .. n, b \in 1 .. n : a # b /\ f[a] = f[b]
    BY <1>3
  <2>2. frames[a].idx = frames[b].idx
    BY <2>1
  <2>3. a < b \/ b < a
    BY <1>1, <2>1
  <2>4. QED
    BY <2>2, <2>3
<1>5. PICK a \in 1 .. n, b \in 1 .. n : a < b /\ frames[a].idx = frames[b].idx
  BY <1>4
<1> DEFINE i == frames[b].idx
           j == frames[a+1].idx
           k == Len(frames[a].made) + 1
<1>6. i \in Filled(before) /\ a \in 1 .. n-1 /\ a+1 \in 1 .. b /\ 1 \in 1 .. b /\ frames # << >>
  BY <1>1, <1>5
<1>7. i \in Below(before, j) /\ j \in Filled(before)
  BY <1>6 DEF Led
<1>8. i \in Below(before, task.root)
  BY <1>6 DEF Led, Route
<1>9. j = NextKid(frames[a]) /\ frames[a].value = before[i].value
  BY <1>5, <1>6 DEF Route, Read
<1>10. k \in Arity(before, i) /\ j = KidOf(before, i, k)
  BY <1>1, <1>9, NextKidFacts DEF Arity, KidOf, NextKid
<1>11. j \in LinksOf(before)[i]
  BY <1>1, <1>6, <1>7, <1>10, LinksShape DEF Filled
<1>12. QED
  BY <1>7, <1>8, <1>11
-----------------------------------------------------------------------------
(***************************************************************************)
(* A copy.  What is fresh leads only to what is fresh.  Each fresh node is *)
(* held once: by one index of one fresh node or by one activation that has *)
(* still to put it into its own copy.  The order of allocation ranks the   *)
(* fresh nodes above their children, so that they make no cycle, and a     *)
(* stack that has strayed into them through an index that dangled descends.*)
(* If no index dangles the stack is of old nodes only, and each fresh node *)
(* is the copy of one.                                                     *)
(***************************************************************************)
Fresh       == Filled(slots) \ Filled(before)
LiveFrames  == \A a \in 1 .. Len(frames) : /\ frames[a].idx \in Filled(slots)
                                           /\ frames[a].value = slots[frames[a].idx].value
FreshClosed == \A i \in Fresh : \A k \in Arity(slots, i) : KidOf(slots, i, k) \in Fresh
MadeFresh   == \A a \in 1 .. Len(frames) : \A m \in 1 .. Len(frames[a].made) : frames[a].made[m] \in Fresh
HeldByOneNode ==
  \A i, j \in Fresh : \A k \in Arity(slots, i), l \in Arity(slots, j) :
    KidOf(slots, i, k) = KidOf(slots, j, l) => i = j /\ k = l
HeldByOneFrame ==
  \A a, b \in 1 .. Len(frames) : \A m \in 1 .. Len(frames[a].made), l \in 1 .. Len(frames[b].made) :
    frames[a].made[m] = frames[b].made[l] => a = b /\ m = l
HeldByOneKind ==
  \A i \in Fresh : \A k \in Arity(slots, i) :
    \A a \in 1 .. Len(frames) : \A m \in 1 .. Len(frames[a].made) : KidOf(slots, i, k) # frames[a].made[m]
FreshHeld ==
  \A x \in Fresh :
    \/ \E i \in Fresh : \E k \in Arity(slots, i) : KidOf(slots, i, k) = x
    \/ \E a \in 1 .. Len(frames) : \E m \in 1 .. Len(frames[a].made) : frames[a].made[m] = x
KidsLower(r)   == \A i \in Fresh : \A k \in Arity(slots, i) : r[KidOf(slots, i, k)] < r[i]
FramesLower(r) == \A b \in 1 .. Len(frames) : \A a \in 1 .. b-1 :
                    frames[a].idx \in Fresh => /\ frames[b].idx \in Fresh
                                               /\ r[frames[b].idx] < r[frames[a].idx]
Ranked     == \E n \in Nat : \E r \in [Fresh -> 0 .. n-1] : KidsLower(r) /\ FramesLower(r)
Same(i, o) == /\ slots[i].value.kind = before[o].value.kind
              /\ slots[i].value.kind = "Leaf" => slots[i].value = before[o].value
NodesCopied(o)  == \A i \in Fresh : /\ Same(i, o[i])
                                    /\ \A k \in Arity(slots, i) : o[KidOf(slots, i, k)] = KidOf(before, o[i], k)
FramesCopied(o) == \A a \in 1 .. Len(frames) : \A m \in 1 .. Len(frames[a].made) :
                     o[frames[a].made[m]] = Kids(frames[a].value)[m]
Copied  == Intact(before, task.root) =>
             /\ \A a \in 1 .. Len(frames) : frames[a].idx \in Filled(before)
             /\ \E o \in [Fresh -> Filled(before)] : NodesCopied(o) /\ FramesCopied(o)
CopyInv == /\ LiveFrames /\ FreshClosed /\ MadeFresh
           /\ HeldByOneNode /\ HeldByOneFrame /\ HeldByOneKind /\ FreshHeld
           /\ Ranked /\ Copied
           /\ frames = << >> => slots = before

LEMMA CopyPush ==
  ASSUME TreeInv, TreeInv', task.at = "visit", task.op = "copy", Route, Led, CopyInv, Pushed
  PROVE  CopyInv'
<1> DEFINE n == Len(frames)
<1>1. /\ n \in Nat /\ frames \in Seq(Activation) /\ UNCHANGED <<before, slots>>
      /\ before \in [Idx -> Slot]
  BY StackType DEF Pushed, TreeInv, TreeTyped
<1>2. /\ Len(frames') = n+1 /\ frames'[n+1].idx = node /\ Len(frames'[n+1].made) = 0
      /\ frames'[n+1].value = slots[node].value
      /\ task'.root = task.root /\ node \in Filled(slots)
  BY DEF Pushed
<1>3. \A k \in 1 .. n : frames'[k] = frames[k] /\ k \in 1 .. n+1
  BY <1>1 DEF Pushed
<1>4. \A a \in 1 .. n+1 : a \in 1 .. n \/ a = n+1
  BY <1>1
<1>5. Fresh' = Fresh /\ Filled(before)' = Filled(before) /\ Filled(slots)' = Filled(slots)
  BY <1>1 DEF Fresh, Filled
<1>6. \A i, k : /\ Arity(slots, i)' = Arity(slots, i) /\ KidOf(slots, i, k)' = KidOf(slots, i, k)
                /\ KidOf(before, i, k)' = KidOf(before, i, k)
  BY <1>1 DEF Arity, KidOf
<1>7. n > 0 => /\ n \in 1 .. n /\ frames # << >>
               /\ node = NextKid(frames[n]) /\ Open(frames[n])
               /\ frames[1].idx = task.root
  BY <1>1 DEF Route, Innermost, TreeInv, StackAt
<1> DEFINE j == frames[n].idx
           l == Len(frames[n].made) + 1
<1>8. n > 0 => /\ j \in Filled(slots) /\ frames[n].value = slots[j].value
               /\ l \in Arity(slots, j) /\ node = KidOf(slots, j, l)
  <2>1. \A a \in 1 .. n : frames[a].idx \in Filled(slots) /\ frames[a].value = slots[frames[a].idx].value
    BY DEF CopyInv, LiveFrames
  <2>2. n > 0 => l \in 1 .. Len(Kids(frames[n].value))
    BY <1>1, <1>7, NextKidFacts
  <2> HIDE DEF n
  <2>3. QED
    BY <1>7, <2>1, <2>2 DEF Arity, KidOf, NextKid
<1>9. LiveFrames' /\ FreshClosed' /\ HeldByOneNode'
  <2>1. \A a \in 1 .. n : frames[a].idx \in Filled(slots) /\ frames[a].value = slots[frames[a].idx].value
    BY DEF CopyInv, LiveFrames
  <2> HIDE DEF n
  <2>2. LiveFrames'
    BY <1>1, <1>2, <1>3, <1>4, <1>5, <2>1 DEF LiveFrames
  <2>3. FreshClosed' /\ HeldByOneNode'
    BY <1>5, <1>6 DEF CopyInv, FreshClosed, HeldByOneNode
  <2>4. QED
    BY <2>2, <2>3
<1>10. \A a \in 1 .. n+1 : \A m \in 1 .. Len(frames'[a].made) :
         a \in 1 .. n /\ frames'[a] = frames[a] /\ m \in 1 .. Len(frames[a].made)
  <2> HIDE DEF n
  <2>1. QED
    BY <1>2, <1>3, <1>4
<1>11. MadeFresh' /\ HeldByOneFrame' /\ HeldByOneKind'
  <2>1. MadeFresh'
    BY <1>2, <1>5, <1>10 DEF CopyInv, MadeFresh
  <2>2. HeldByOneFrame'
    BY <1>2, <1>10, SMTT(30) DEF CopyInv, HeldByOneFrame
  <2>3. HeldByOneKind'
    BY <1>2, <1>5, <1>6, <1>10 DEF CopyInv, HeldByOneKind
  <2>4. QED
    BY <2>1, <2>2, <2>3
<1>12. FreshHeld'
  <2> SUFFICES ASSUME NEW x \in Fresh
               PROVE  \/ \E i \in Fresh : \E k \in Arity(slots, i) : KidOf(slots, i, k) = x
                      \/ \E a \in 1 .. n+1 : \E m \in 1 .. Len(frames'[a].made) : frames'[a].made[m] = x
    BY <1>2, <1>5, <1>6 DEF FreshHeld
  <2>1. CASE \E a \in 1 .. n : \E m \in 1 .. Len(frames[a].made) : frames[a].made[m] = x
    BY <1>3, <2>1
  <2>2. QED
    BY <2>1 DEF CopyInv, FreshHeld
<1>13. Ranked'
  <2>0. PICK c \in Nat : \E r \in [Fresh -> 0 .. c-1] : KidsLower(r) /\ FramesLower(r)
    BY DEF CopyInv, Ranked
  <2>1. PICK r \in [Fresh -> 0 .. c-1] : KidsLower(r) /\ FramesLower(r)
    BY <2>0
  <2>2. KidsLower(r)'
    BY <1>5, <1>6, <2>1 DEF KidsLower
  <2>3. ASSUME NEW a \in 1 .. n, frames[a].idx \in Fresh
        PROVE  node \in Fresh /\ r[node] < r[frames[a].idx]
    <3>1. n > 0 /\ n \in 1 .. n
      BY <1>1
    <3>2. j \in Fresh /\ (a # n => r[j] < r[frames[a].idx])
      <4>1. CASE a = n
        BY <2>3, <4>1
      <4>2. CASE a # n
        <5>1. a \in 1 .. n-1
          BY <1>1, <4>2
        <5>2. QED
          BY <2>1, <2>3, <3>1, <5>1 DEF FramesLower
      <4>3. QED
        BY <4>1, <4>2
    <3> HIDE DEF n, j, l
    <3>3. node \in Fresh /\ r[node] < r[j]
      BY <1>8, <2>1, <3>1, <3>2 DEF CopyInv, FreshClosed, KidsLower
    <3>4. CASE a = n
      BY <3>3, <3>4 DEF j
    <3>5. CASE a # n
      <4>1. r[node] \in Int /\ r[j] \in Int /\ r[frames[a].idx] \in Int
        BY <2>1, <2>3, <3>2, <3>3
      <4>2. QED
        BY <3>2, <3>3, <3>5, <4>1
    <3>6. QED
      BY <3>4, <3>5
  <2>4. ASSUME NEW b \in 1 .. n+1, NEW a \in 1 .. b-1, frames'[a].idx \in Fresh
        PROVE  frames'[b].idx \in Fresh /\ r[frames'[b].idx] < r[frames'[a].idx]
    <3>1. a \in 1 .. n /\ (b = n+1 \/ b \in 1 .. n)
      BY <1>1
    <3> HIDE DEF n
    <3>2. CASE b = n+1
      BY <1>2, <1>3, <2>3, <2>4, <3>1, <3>2
    <3>3. CASE b \in 1 .. n
      <4>1. frames'[a] = frames[a] /\ frames'[b] = frames[b]
        BY <1>3, <3>1, <3>3
      <4>2. QED
        BY <2>1, <2>4, <3>3, <4>1 DEF FramesLower, n
    <3>4. QED
      BY <3>1, <3>2, <3>3
  <2>5. FramesLower(r)'
    BY <1>2, <1>5, <2>4 DEF FramesLower
  <2>6. QED
    BY <1>5, <2>1, <2>2, <2>5 DEF Ranked
<1>14. Copied'
  <2> SUFFICES ASSUME Intact(before, task.root) PROVE Copied'
    <3>1. Intact(before, task.root)' <=> Intact(before, task.root)
      BY <1>1, <1>2, RootKept
    <3>2. QED
      BY <3>1 DEF Copied
  <2>1. PICK o \in [Fresh -> Filled(before)] : NodesCopied(o) /\ FramesCopied(o)
    BY DEF CopyInv, Copied
  <2>2. \A a \in 1 .. n : frames[a].idx \in Filled(before)
    BY DEF CopyInv, Copied
  <2>3. node \in Filled(before)
    <3>1. CASE n = 0
      <4>1. slots = before
        BY <1>1, <3>1, EmptySeq DEF CopyInv
      <4>2. QED
        BY <1>2, <4>1
    <3>2. CASE n > 0
      <4>1. j \in Filled(before) /\ 1 \in 1 .. n /\ n \in 1 .. n
        BY <1>1, <2>2, <3>2
      <4>2. j \in Below(before, task.root) /\ j \in Idx
        BY <1>7, <3>2, <4>1 DEF Led, Filled
      <4>3. slots[j] = before[j]
        BY <4>1 DEF TreeInv, Confined
      <4>4. l \in Arity(before, j) /\ node = KidOf(before, j, l)
        BY <1>8, <3>2, <4>3 DEF Arity, KidOf
      <4> HIDE DEF j, l
      <4>5. <<j, l>> \in Places(before, Below(before, task.root)) /\ KidAt(before, <<j, l>>) = node
        <5> DEFINE S == Below(before, task.root)
        <5>1. S \in SUBSET Idx
          BY DEF Below, Reachable, LinksOf
        <5>2. j \in S \cap Filled(before)
          BY <4>1, <4>2
        <5> HIDE DEF S
        <5>3. \A i \in S \cap Filled(before) : \A k \in Arity(before, i) :
                 <<i, k>> \in Places(before, S) /\ KidAt(before, <<i, k>>) = KidOf(before, i, k)
          BY <1>1, <5>1, PlacesShape
        <5>4. QED
          BY <4>4, <5>2, <5>3 DEF S
      <4>6. QED
        BY <4>5 DEF Intact
    <3>3. QED
      BY <1>1, <3>1, <3>2
  <2>4. \A a \in 1 .. n+1 : frames'[a].idx \in Filled(before)
    <3> HIDE DEF n
    <3>1. QED
      BY <1>2, <1>3, <1>4, <2>2, <2>3
  <2>5. NodesCopied(o)'
    BY <1>1, <1>5, <1>6, <2>1 DEF NodesCopied, Same
  <2>6. FramesCopied(o)'
    BY <1>2, <1>10, <2>1 DEF FramesCopied
  <2>7. QED
    BY <1>2, <1>5, <2>4, <2>5, <2>6 DEF Copied
<1>15. frames' # << >>
  BY <1>1, <1>2
<1>16. QED
  BY <1>9, <1>11, <1>12, <1>13, <1>14, <1>15 DEF CopyInv

(* The node x that the innermost activation allocates: it takes its        *)
(* children from the activation.                                           *)
Grown(x) ==
  /\ x \in Idx \ Filled(slots) /\ x \notin Filled(before)
  /\ Filled(slots)' = Filled(slots) \cup {x}
  /\ Fresh' = Fresh \cup {x}
  /\ \A i \in Filled(slots) : slots'[i] = slots[i]
  /\ slots'[x].value.kind = Innermost.value.kind
  /\ Innermost.value.kind = "Leaf" => slots'[x].value = Innermost.value
  /\ Arity(slots', x) = 1 .. Len(Innermost.made)
  /\ \A k \in 1 .. Len(Innermost.made) : KidOf(slots', x, k) = Innermost.made[k]

LEMMA CopyGrows ==
  ASSUME TreeInv, task.at = "finish", task.op = "copy", UNCHANGED before,
         free_head \in Idx, ~IsOccupied(free_head),
         PopSlot(Rebuilt(Innermost.value, Innermost.made))
  PROVE  Grown(free_head)
<1> DEFINE x == free_head
           v == Innermost.value
           w == Rebuilt(v, Innermost.made)
<1>1. Innermost \in Activation /\ Len(Innermost.made) = Len(Kids(v))
  BY InnermostFacts
<1>2. v \in Value /\ Innermost.made \in Seq(Idx)
  BY <1>1 DEF Activation
<1>3. slots' = [slots EXCEPT ![x] = OccupiedSlot(w)] /\ slots \in [Idx -> Slot]
  BY DEF PopSlot, TreeInv, IInv, SlotsOK
<1>4. slots'[x].kind = "Occupied" /\ slots'[x].value = w /\ \A i \in Idx \ {x} : slots'[i] = slots[i]
  BY <1>3 DEF OccupiedSlot
<1>5. x \in Idx \ Filled(slots) /\ Filled(slots)' = Filled(slots) \cup {x}
  BY <1>4 DEF Filled, IsOccupied
<1>6. x \notin Filled(before) /\ Filled(before)' = Filled(before)
  <2>1. \A i \in Filled(before) : slots[i] = before[i]
    BY DEF TreeInv, Confined
  <2>2. QED
    BY <1>5, <2>1 DEF Filled
<1>7. Fresh' = Fresh \cup {x}
  BY <1>5, <1>6 DEF Fresh
<1>8. w.kind = v.kind /\ (v.kind = "Leaf" => w = v)
  BY <1>2, ValueShape DEF Rebuilt, Branch, Leaf
<1>9. Len(Kids(w)) = Len(Innermost.made) /\ \A k \in 1 .. Len(Innermost.made) : Kids(w)[k] = Innermost.made[k]
  <2>1. CASE v.kind = "Leaf"
    <3>1. w = v /\ Len(Kids(v)) = 0
      BY <1>2, <1>8, <2>1, ValueShape
    <3>2. QED
      BY <1>1, <3>1
  <2>2. CASE v.kind # "Leaf"
    <3>1. Len(Kids(v)) = 2
      BY <1>2, <2>2, ValueShape
    <3>2. Kids(w) = <<Innermost.made[1], Innermost.made[2]>>
      BY <1>8, <2>2 DEF Rebuilt, Branch, Kids
    <3>3. \A k \in 1 .. 2 : k = 1 \/ k = 2
      OBVIOUS
    <3>4. QED
      BY <1>1, <3>1, <3>2, <3>3
  <2>3. QED
    BY <2>1, <2>2
<1> HIDE DEF w, x, v
<1>10. Arity(slots', x) = 1 .. Len(Innermost.made)
       /\ \A k \in 1 .. Len(Innermost.made) : KidOf(slots', x, k) = Innermost.made[k]
  BY <1>4, <1>9 DEF Arity, KidOf
<1>11. QED
  BY <1>4, <1>5, <1>6, <1>7, <1>8, <1>10 DEF Grown, x, v, Filled

(* The last but one of the activations has nothing fresh of the innermost; *)
(* what both lemmas below need of the slots with the new node in them.     *)
LEMMA GrownHolds ==
  ASSUME TreeInv, task.at = "finish", task.op = "copy", CopyInv, UNCHANGED before,
         NEW x, Grown(x)
  PROVE  LET n == Len(frames)
         IN  /\ n \in Nat \ {0} /\ frames[n] = Innermost
             /\ \A i \in Fresh' : \A k \in Arity(slots', i) : KidOf(slots', i, k) \in Fresh
             /\ HeldByOneNode'
             /\ \A i \in Fresh' : \A k \in Arity(slots', i) :
                  \A a \in 1 .. n-1 : \A m \in 1 .. Len(frames[a].made) :
                     KidOf(slots', i, k) # frames[a].made[m]
             /\ \A y \in Fresh :
                  \/ \E i \in Fresh' : \E k \in Arity(slots', i) : KidOf(slots', i, k) = y
                  \/ \E a \in 1 .. n-1 : \E m \in 1 .. Len(frames[a].made) : frames[a].made[m] = y
<1> DEFINE n == Len(frames)
<1>1. n \in Nat \ {0} /\ frames[n] = Innermost /\ n \in 1 .. n
  BY StackType DEF TreeInv, StackAt, Innermost
<1>2. \A i \in Fresh : i \in Filled(slots) /\ i # x
  BY DEF Grown, Fresh
<1>3. \A i \in Fresh : /\ Arity(slots', i) = Arity(slots, i)
                       /\ \A k : KidOf(slots', i, k) = KidOf(slots, i, k)
  BY <1>2 DEF Grown, Arity, KidOf
<1>4. /\ Fresh' = Fresh \cup {x} /\ x \notin Fresh
      /\ Arity(slots', x) = 1 .. Len(frames[n].made)
      /\ \A k \in 1 .. Len(frames[n].made) : KidOf(slots', x, k) = frames[n].made[k]
  BY <1>1, <1>2 DEF Grown
<1>5. \A a \in 1 .. n-1 : a \in 1 .. n /\ a # n
  BY <1>1
<1>6. \A a \in 1 .. n : a \in 1 .. n-1 \/ a = n
  BY <1>1
<1>7. \A a \in 1 .. n : \A m \in 1 .. Len(frames[a].made) : frames[a].made[m] \in Fresh
  BY DEF CopyInv, MadeFresh
<1>8. \A a, b \in 1 .. n : \A m \in 1 .. Len(frames[a].made), l \in 1 .. Len(frames[b].made) :
        frames[a].made[m] = frames[b].made[l] => a = b /\ m = l
  BY DEF CopyInv, HeldByOneFrame
<1>9. \A i \in Fresh : \A k \in Arity(slots, i) :
        \A a \in 1 .. n : \A m \in 1 .. Len(frames[a].made) : KidOf(slots, i, k) # frames[a].made[m]
  BY DEF CopyInv, HeldByOneKind
<1> HIDE DEF n
<1>10. \A i \in Fresh' : \A k \in Arity(slots', i) : KidOf(slots', i, k) \in Fresh
  BY <1>1, <1>3, <1>4, <1>7 DEF CopyInv, FreshClosed
<1>11. HeldByOneNode'
  <2> SUFFICES ASSUME NEW i \in Fresh', NEW j \in Fresh', NEW k \in Arity(slots', i),
                      NEW l \in Arity(slots', j), KidOf(slots', i, k) = KidOf(slots', j, l)
               PROVE  i = j /\ k = l
    BY DEF HeldByOneNode
  <2>1. CASE i \in Fresh /\ j \in Fresh
    BY <1>3, <2>1 DEF CopyInv, HeldByOneNode
  <2>2. CASE i = x /\ j = x
    BY <1>1, <1>4, <1>8, <2>2
  <2>3. CASE i = x /\ j \in Fresh
    BY <1>1, <1>3, <1>4, <1>9, <2>3
  <2>4. CASE i \in Fresh /\ j = x
    BY <1>1, <1>3, <1>4, <1>9, <2>4
  <2>5. QED
    BY <1>4, <2>1, <2>2, <2>3, <2>4
<1>12. ASSUME NEW i \in Fresh', NEW k \in Arity(slots', i),
              NEW a \in 1 .. n-1, NEW m \in 1 .. Len(frames[a].made)
       PROVE  KidOf(slots', i, k) # frames[a].made[m]
  <2>1. CASE i \in Fresh
    BY <1>3, <1>5, <1>9, <2>1
  <2>2. CASE i = x
    BY <1>1, <1>4, <1>5, <1>8, <2>2
  <2>3. QED
    BY <1>4, <2>1, <2>2
<1>13. ASSUME NEW y \in Fresh
       PROVE  \/ \E i \in Fresh' : \E k \in Arity(slots', i) : KidOf(slots', i, k) = y
              \/ \E a \in 1 .. n-1 : \E m \in 1 .. Len(frames[a].made) : frames[a].made[m] = y
  <2>1. CASE \E i \in Fresh : \E k \in Arity(slots, i) : KidOf(slots, i, k) = y
    BY <1>3, <1>4, <2>1
  <2>2. CASE \E a \in 1 .. n : \E m \in 1 .. Len(frames[a].made) : frames[a].made[m] = y
    <3>1. PICK a \in 1 .. n : \E m \in 1 .. Len(frames[a].made) : frames[a].made[m] = y
      BY <2>2
    <3>2. CASE a = n
      BY <1>4, <3>1, <3>2
    <3>3. QED
      BY <1>6, <3>1, <3>2
  <2>3. QED
    BY <2>1, <2>2 DEF CopyInv, FreshHeld, n
<1>14. QED
  BY <1>1, <1>10, <1>11, <1>12, <1>13 DEF n

(* The new node ranks above all others. *)
LEMMA GrownRanks ==
  ASSUME TreeInv, task.at = "finish", task.op = "copy", CopyInv, UNCHANGED before,
         NEW x, Grown(x)
  PROVE  \E c \in Nat : \E r \in [Fresh' -> 0 .. c-1] :
           /\ \A i \in Fresh' : \A k \in Arity(slots', i) : r[KidOf(slots', i, k)] < r[i]
           /\ \A b \in 1 .. Len(frames)-1 : \A a \in 1 .. b-1 :
                frames[a].idx \in Fresh' => /\ frames[b].idx \in Fresh'
                                            /\ r[frames[b].idx] < r[frames[a].idx]
<1> DEFINE n == Len(frames)
<1>1. PICK c \in Nat : \E r \in [Fresh -> 0 .. c-1] : KidsLower(r) /\ FramesLower(r)
  BY DEF CopyInv, Ranked
<1>2. PICK r \in [Fresh -> 0 .. c-1] : KidsLower(r) /\ FramesLower(r)
  BY <1>1
<1> DEFINE q == [y \in Fresh' |-> IF y = x THEN c ELSE r[y]]
<1>3. \A i \in Fresh : i \in Filled(slots) /\ i # x
  BY DEF Grown, Fresh
<1>4. \A i \in Fresh : /\ Arity(slots', i) = Arity(slots, i)
                       /\ \A k : KidOf(slots', i, k) = KidOf(slots, i, k)
  BY <1>3 DEF Grown, Arity, KidOf
<1>5. Fresh' = Fresh \cup {x} /\ x \notin Fresh /\ x \notin Filled(slots)
  BY <1>3 DEF Grown
<1>6. q \in [Fresh' -> 0 .. c] /\ q[x] = c /\ \A y \in Fresh : q[y] = r[y] /\ q[y] < c
  BY <1>5
<1>7. \A i \in Fresh' : \A k \in Arity(slots', i) : KidOf(slots', i, k) \in Fresh
  BY GrownHolds
<1> HIDE DEF q
<1>8. ASSUME NEW i \in Fresh', NEW k \in Arity(slots', i)
      PROVE  q[KidOf(slots', i, k)] < q[i]
  <2>1. CASE i = x
    BY <1>6, <1>7, <2>1
  <2>2. CASE i \in Fresh
    BY <1>2, <1>4, <1>6, <1>7, <2>2 DEF KidsLower
  <2>3. QED
    BY <1>5, <2>1, <2>2
<1>9. ASSUME NEW b \in 1 .. n-1, NEW a \in 1 .. b-1, frames[a].idx \in Fresh'
      PROVE  frames[b].idx \in Fresh' /\ q[frames[b].idx] < q[frames[a].idx]
  <2>1. n \in Nat
    BY StackType
  <2>2. a \in 1 .. n /\ b \in 1 .. n
    BY <2>1
  <2>3. frames[a].idx \in Fresh
    BY <1>5, <1>9, <2>2 DEF CopyInv, LiveFrames
  <2>4. frames[b].idx \in Fresh /\ r[frames[b].idx] < r[frames[a].idx]
    BY <1>2, <2>2, <2>3 DEF FramesLower
  <2>5. QED
    BY <1>5, <1>6, <2>3, <2>4
<1>10. c+1 \in Nat /\ q \in [Fresh' -> 0 .. (c+1)-1]
  BY <1>6
<1>11. QED
  BY <1>8, <1>9, <1>10 DEF n

(* ... and is the copy of the innermost activation's. *)
LEMMA GrownIsCopy ==
  ASSUME TreeInv, task.at = "finish", task.op = "copy", Read, CopyInv, UNCHANGED before,
         NEW x, Grown(x), Intact(before, task.root)
  PROVE  \E o \in [Fresh' -> Filled(before)] :
           /\ o[x] = Innermost.idx
           /\ \A i \in Fresh' : /\ slots'[i].value.kind = before[o[i]].value.kind
                                /\ slots'[i].value.kind = "Leaf" => slots'[i].value = before[o[i]].value
                                /\ \A k \in Arity(slots', i) : o[KidOf(slots', i, k)] = KidOf(before, o[i], k)
           /\ \A a \in 1 .. Len(frames)-1 : \A m \in 1 .. Len(frames[a].made) :
                o[frames[a].made[m]] = Kids(frames[a].value)[m]
<1> DEFINE n == Len(frames)
<1>1. PICK u \in [Fresh -> Filled(before)] : NodesCopied(u) /\ FramesCopied(u)
  BY DEF CopyInv, Copied
<1>2. n \in Nat \ {0} /\ frames[n] = Innermost /\ n \in 1 .. n
      /\ \A i \in Fresh' : \A k \in Arity(slots', i) : KidOf(slots', i, k) \in Fresh
  BY StackType, GrownHolds
<1>3. Innermost.idx \in Filled(before) /\ Innermost.value = before[Innermost.idx].value
  BY <1>2 DEF CopyInv, Copied, Read
<1>4. \A i \in Fresh : i \in Filled(slots) /\ i # x
  BY DEF Grown, Fresh
<1>5. \A i \in Fresh : /\ Arity(slots', i) = Arity(slots, i) /\ slots'[i] = slots[i]
                       /\ \A k : KidOf(slots', i, k) = KidOf(slots, i, k)
  BY <1>4 DEF Grown, Arity, KidOf
<1>6. /\ Fresh' = Fresh \cup {x} /\ x \notin Fresh
      /\ slots'[x].value.kind = Innermost.value.kind
      /\ Innermost.value.kind = "Leaf" => slots'[x].value = Innermost.value
      /\ Arity(slots', x) = 1 .. Len(frames[n].made)
      /\ \A k \in 1 .. Len(frames[n].made) : KidOf(slots', x, k) = frames[n].made[k]
  BY <1>2, <1>4 DEF Grown
<1>7. \A a \in 1 .. n : \A m \in 1 .. Len(frames[a].made) :
        frames[a].made[m] \in Fresh /\ u[frames[a].made[m]] = Kids(frames[a].value)[m]
  BY <1>1 DEF CopyInv, MadeFresh, FramesCopied
<1>8. \A a \in 1 .. n-1 : a \in 1 .. n
  BY <1>2
<1> DEFINE o == [y \in Fresh' |-> IF y = x THEN Innermost.idx ELSE u[y]]
<1>9. o \in [Fresh' -> Filled(before)] /\ o[x] = Innermost.idx /\ \A y \in Fresh : o[y] = u[y]
  BY <1>3, <1>6
<1> HIDE DEF o, n
<1>10. ASSUME NEW i \in Fresh'
       PROVE  /\ slots'[i].value.kind = before[o[i]].value.kind
              /\ slots'[i].value.kind = "Leaf" => slots'[i].value = before[o[i]].value
              /\ \A k \in Arity(slots', i) : o[KidOf(slots', i, k)] = KidOf(before, o[i], k)
  <2>1. CASE i = x
    <3>1. \A k \in Arity(slots', x) : o[KidOf(slots', x, k)] = KidOf(before, Innermost.idx, k)
      BY <1>2, <1>3, <1>6, <1>7, <1>9 DEF KidOf
    <3>2. QED
      BY <1>3, <1>6, <1>9, <2>1, <3>1
  <2>2. CASE i \in Fresh
    <3>1. o[i] = u[i] /\ slots'[i] = slots[i] /\ Same(i, u[i])
      BY <1>1, <1>5, <1>9, <2>2 DEF NodesCopied
    <3>2. \A k \in Arity(slots', i) : o[KidOf(slots', i, k)] = KidOf(before, u[i], k)
      BY <1>1, <1>2, <1>5, <1>9, <2>2 DEF NodesCopied
    <3>3. QED
      BY <3>1, <3>2 DEF Same
  <2>3. QED
    BY <1>6, <2>1, <2>2
<1>11. \A a \in 1 .. n-1 : \A m \in 1 .. Len(frames[a].made) :
         o[frames[a].made[m]] = Kids(frames[a].value)[m]
  BY <1>7, <1>8, <1>9
<1>12. QED
  BY <1>9, <1>10, <1>11 DEF n

LEMMA CopyPop ==
  ASSUME TreeInv, TreeInv', task.at = "finish", task.op = "copy", Route, Read, CopyInv,
         UNCHANGED before, NEW x, Grown(x), Popped(x)
  PROVE  CopyInv'
<1> DEFINE n == Len(frames)
           p == frames[n-1]
           l == Len(p.made) + 1
           q == frames'[n-1]
<1>1. /\ n \in Nat \ {0} /\ frames[n] = Innermost /\ n > 1
      /\ \A i \in Fresh' : \A k \in Arity(slots', i) : KidOf(slots', i, k) \in Fresh
      /\ HeldByOneNode'
      /\ \A i \in Fresh' : \A k \in Arity(slots', i) :
           \A a \in 1 .. n-1 : \A m \in 1 .. Len(frames[a].made) :
              KidOf(slots', i, k) # frames[a].made[m]
      /\ \A y \in Fresh :
           \/ \E i \in Fresh' : \E k \in Arity(slots', i) : KidOf(slots', i, k) = y
           \/ \E a \in 1 .. n-1 : \E m \in 1 .. Len(frames[a].made) : frames[a].made[m] = y
  BY GrownHolds DEF Popped
<1>2. n-1 \in 1 .. n-1 /\ n-1 \in 1 .. n /\ n \in 1 .. n /\ frames \in Seq(Activation)
  BY <1>1, StackType
<1>3. /\ Len(frames') = n-1
      /\ \A k \in 1 .. n-2 : frames'[k] = frames[k]
      /\ q.idx = p.idx /\ q.value = p.value
      /\ Len(q.made) = l
      /\ \A m \in 1 .. Len(p.made) : q.made[m] = p.made[m]
      /\ q.made[l] = x
      /\ task'.root = task.root
  BY DEF Popped, Extended
<1>4. Len(p.made) \in Nat
  BY <1>2, FrameShape
<1>5. \A a \in 1 .. n-1 : a \in 1 .. n /\ (a \in 1 .. n-2 \/ a = n-1)
  BY <1>1
<1>6. Fresh' = Fresh \cup {x} /\ x \notin Fresh
  BY DEF Grown, Fresh
<1>7. Filled(slots)' = Filled(slots) \cup {x} /\ \A i \in Filled(slots) : slots'[i] = slots[i]
  BY DEF Grown
<1>8. l \in 1 .. Len(Kids(p.value)) /\ NextKid(p) = Innermost.idx
  <2>1. Open(p)
    BY <1>2 DEF TreeInv, TreeTyped, StackOK
  <2>2. frames[(n-1)+1].idx = NextKid(p)
    BY <1>2 DEF Route
  <2>3. QED
    BY <1>1, <1>2, <2>1, <2>2, NextKidFacts
<1> HIDE DEF n, p, q, l
<1>9. \A a \in 1 .. n-1 : frames'[a].idx = frames[a].idx /\ frames'[a].value = frames[a].value
  BY <1>3, <1>5 DEF p, q
\* What the activations hold: what they held, and x.
<1>10. ASSUME NEW a \in 1 .. n-1, NEW m \in 1 .. Len(frames'[a].made)
       PROVE  \/ m \in 1 .. Len(frames[a].made) /\ frames'[a].made[m] = frames[a].made[m]
              \/ a = n-1 /\ m = l /\ frames'[a].made[m] = x
  <2>1. CASE a \in 1 .. n-2
    BY <1>3, <2>1
  <2>2. CASE a = n-1
    <3>1. m \in 1 .. Len(p.made) \/ m = l
      BY <1>3, <1>4, <2>2 DEF l, q
    <3>2. QED
      BY <1>3, <2>2, <3>1 DEF p, q
  <2>3. QED
    BY <1>5, <2>1, <2>2
<1>11. ASSUME NEW a \in 1 .. n-1, NEW m \in 1 .. Len(frames[a].made)
       PROVE  m \in 1 .. Len(frames'[a].made) /\ frames'[a].made[m] = frames[a].made[m]
  <2>1. CASE a \in 1 .. n-2
    BY <1>3, <2>1
  <2>2. CASE a = n-1
    BY <1>3, <1>4, <2>2 DEF l, p, q
  <2>3. QED
    BY <1>5, <2>1, <2>2
<1>12. l \in 1 .. Len(frames'[n-1].made) /\ frames'[n-1].made[l] = x
  BY <1>3, <1>4 DEF l, q
<1>13. \A a \in 1 .. n-1 : \A m \in 1 .. Len(frames[a].made) : frames[a].made[m] \in Fresh
  BY <1>5 DEF CopyInv, MadeFresh, n
<1>14. LiveFrames'
  <2>1. \A a \in 1 .. n-1 : /\ frames[a].idx \in Filled(slots)
                            /\ frames[a].value = slots[frames[a].idx].value
    BY <1>5 DEF CopyInv, LiveFrames, n
  <2>2. QED
    BY <1>3, <1>7, <1>9, <2>1 DEF LiveFrames
<1>15. FreshClosed'
  BY <1>1, <1>6 DEF FreshClosed
<1>16. MadeFresh'
  BY <1>3, <1>6, <1>10, <1>13 DEF MadeFresh
<1>17. HeldByOneFrame'
  <2>1. \A a, b \in 1 .. n-1 : \A m \in 1 .. Len(frames[a].made), k \in 1 .. Len(frames[b].made) :
           frames[a].made[m] = frames[b].made[k] => a = b /\ m = k
    BY <1>5 DEF CopyInv, HeldByOneFrame, n
  <2> SUFFICES ASSUME NEW a \in 1 .. n-1, NEW b \in 1 .. n-1,
                      NEW m \in 1 .. Len(frames'[a].made), NEW k \in 1 .. Len(frames'[b].made),
                      frames'[a].made[m] = frames'[b].made[k]
               PROVE  a = b /\ m = k
    BY <1>3 DEF HeldByOneFrame
  <2>2. \/ m \in 1 .. Len(frames[a].made) /\ frames'[a].made[m] = frames[a].made[m]
        \/ a = n-1 /\ m = l /\ frames'[a].made[m] = x
    BY <1>10
  <2>3. \/ k \in 1 .. Len(frames[b].made) /\ frames'[b].made[k] = frames[b].made[k]
        \/ b = n-1 /\ k = l /\ frames'[b].made[k] = x
    BY <1>10
  <2>4. QED
    BY <1>6, <1>13, <2>1, <2>2, <2>3, SMTT(30)
<1>18. HeldByOneKind'
  BY <1>1, <1>3, <1>6, <1>10 DEF HeldByOneKind
<1>19. FreshHeld'
  <2> SUFFICES ASSUME NEW y \in Fresh'
               PROVE  \/ \E i \in Fresh' : \E k \in Arity(slots', i) : KidOf(slots', i, k) = y
                      \/ \E a \in 1 .. n-1 : \E m \in 1 .. Len(frames'[a].made) : frames'[a].made[m] = y
    BY <1>3 DEF FreshHeld
  <2>1. CASE y = x
    BY <1>2, <1>12, <2>1
  <2>2. CASE y \in Fresh
    <3>1. \/ \E i \in Fresh' : \E k \in Arity(slots', i) : KidOf(slots', i, k) = y
          \/ \E a \in 1 .. n-1 : \E m \in 1 .. Len(frames[a].made) : frames[a].made[m] = y
      BY <1>1, <2>2
    <3>2. ASSUME NEW a \in 1 .. n-1, NEW m \in 1 .. Len(frames[a].made), frames[a].made[m] = y
          PROVE  \E j \in 1 .. Len(frames'[a].made) : frames'[a].made[j] = y
      BY <1>11, <3>2
    <3>3. QED
      BY <3>1, <3>2
  <2>3. QED
    BY <1>6, <2>1, <2>2
<1>20. Ranked'
  <2>1. PICK c \in Nat : \E r \in [Fresh' -> 0 .. c-1] :
           /\ \A i \in Fresh' : \A k \in Arity(slots', i) : r[KidOf(slots', i, k)] < r[i]
           /\ \A b \in 1 .. n-1 : \A a \in 1 .. b-1 :
                frames[a].idx \in Fresh' => /\ frames[b].idx \in Fresh'
                                            /\ r[frames[b].idx] < r[frames[a].idx]
    BY GrownRanks DEF n
  <2>2. PICK r \in [Fresh' -> 0 .. c-1] :
           /\ \A i \in Fresh' : \A k \in Arity(slots', i) : r[KidOf(slots', i, k)] < r[i]
           /\ \A b \in 1 .. n-1 : \A a \in 1 .. b-1 :
                frames[a].idx \in Fresh' => /\ frames[b].idx \in Fresh'
                                            /\ r[frames[b].idx] < r[frames[a].idx]
    BY <2>1
  <2>3. \A b \in 1 .. n-1 : \A a \in 1 .. b-1 : a \in 1 .. n-1
    BY <1>1
  <2>4. \A b \in 1 .. Len(frames') : \A a \in 1 .. b-1 :
          frames'[a].idx \in Fresh' => /\ frames'[b].idx \in Fresh'
                                       /\ r[frames'[b].idx] < r[frames'[a].idx]
    BY <1>3, <1>9, <2>2, <2>3
  <2>5. QED
    BY <2>2, <2>4 DEF Ranked, KidsLower, FramesLower
<1>21. Copied'
  <2> SUFFICES ASSUME Intact(before, task.root) PROVE Copied'
    <3>1. Intact(before, task.root)' <=> Intact(before, task.root)
      BY <1>3, RootKept
    <3>2. QED
      BY <3>1 DEF Copied
  <2>1. PICK o \in [Fresh' -> Filled(before)] :
           /\ o[x] = Innermost.idx
           /\ \A i \in Fresh' : /\ slots'[i].value.kind = before[o[i]].value.kind
                                /\ slots'[i].value.kind = "Leaf" => slots'[i].value = before[o[i]].value
                                /\ \A k \in Arity(slots', i) : o[KidOf(slots', i, k)] = KidOf(before, o[i], k)
           /\ \A a \in 1 .. n-1 : \A m \in 1 .. Len(frames[a].made) :
                o[frames[a].made[m]] = Kids(frames[a].value)[m]
    BY GrownIsCopy DEF n
  <2>2. \A a \in 1 .. n-1 : frames[a].idx \in Filled(before)
    BY <1>5 DEF CopyInv, Copied, n
  <2>3. \A a \in 1 .. Len(frames') : frames'[a].idx \in Filled(before)'
    <3>1. Filled(before)' = Filled(before)
      OBVIOUS
    <3>2. QED
      BY <1>3, <1>9, <2>2, <3>1
  <2>4. \A i \in Fresh' : /\ Same(i, o[i])'
                          /\ \A k \in Arity(slots', i) : o[KidOf(slots', i, k)] = KidOf(before', o[i], k)
    BY <2>1 DEF Same
  <2>5. ASSUME NEW a \in 1 .. n-1, NEW m \in 1 .. Len(frames'[a].made)
        PROVE  o[frames'[a].made[m]] = Kids(frames'[a].value)[m]
    <3>1. CASE m \in 1 .. Len(frames[a].made) /\ frames'[a].made[m] = frames[a].made[m]
      BY <1>9, <2>1, <3>1
    <3>2. CASE a = n-1 /\ m = l /\ frames'[a].made[m] = x
      <4>1. frames'[a].value = p.value
        BY <1>9, <3>2 DEF p
      <4>2. QED
        BY <1>8, <2>1, <3>2, <4>1 DEF NextKid, l
    <3>3. QED
      BY <1>10, <3>1, <3>2
  <2>6. \E u \in [Fresh -> Filled(before)]' : NodesCopied(u)' /\ FramesCopied(u)'
    <3>1. o \in [Fresh' -> Filled(before')]
      OBVIOUS
    <3>2. NodesCopied(o)'
      BY <2>4 DEF NodesCopied
    <3>3. FramesCopied(o)'
      BY <1>3, <2>5 DEF FramesCopied
    <3>4. QED
      BY <3>1, <3>2, <3>3
  <2>7. QED
    BY <2>3, <2>6 DEF Copied
<1>22. frames' # << >>
  <2>1. Len(frames') # 0
    BY <1>1, <1>3
  <2>2. QED
    BY <2>1
<1>23. QED
  BY <1>1, <1>14, <1>15, <1>16, <1>17, <1>18, <1>19, <1>20, <1>21, <1>22 DEF CopyInv

LEMMA HighestRank ==
  ASSUME NEW S, NEW c \in Nat, NEW r \in [S -> 0 .. c-1], NEW D \in SUBSET S, D # {}
  PROVE  \E y \in D : \A z \in D : ~(r[y] < r[z])
<1> DEFINE R == OpToRel(<, Nat)
           H == {c - r[y] : y \in D}
<1>1. IsWellFoundedOn(R, Nat)
  BY NatLessThanWellFounded, Zenon
<1>2. \A a, b : a \in Nat /\ b \in Nat /\ a < b => <<a, b>> \in R
  BY Zenon DEF OpToRel
<1> HIDE DEF R
<1>3. H \subseteq Nat /\ H # {}
  OBVIOUS
<1> HIDE DEF H
<1>4. PICK h \in H : \A k \in H : <<k, h>> \notin R
  BY <1>1, <1>3, WFMin, Zenon
<1>5. PICK y \in D : h = c - r[y]
  BY DEF H
<1>6. ASSUME NEW z \in D, r[y] < r[z]
      PROVE  FALSE
  <2>1. c - r[z] \in H /\ c - r[z] \in Nat /\ h \in Nat
    BY <1>3 DEF H
  <2>2. c - r[z] < h
    BY <1>5, <1>6
  <2>3. QED
    BY <1>2, <1>4, <2>1, <2>2
<1>7. QED
  BY <1>6

(* The last allocation: the new node is the root of all that is fresh. *)
LEMMA CopySucceeds ==
  ASSUME TreeInv, TreeInv', task.at = "finish", task.op = "copy", Route, Read, CopyInv,
         UNCHANGED before, NEW x, Grown(x), Len(frames) = 1, task' = Answer("Ok"), node' = x
  PROVE  CopiesTrees'
<1> DEFINE s == slots'
           S == Fresh'
<1>1. /\ frames[1] = Innermost
      /\ \A i \in S : \A k \in Arity(s, i) : KidOf(s, i, k) \in Fresh
      /\ HeldByOneNode'
      /\ \A y \in Fresh : \E i \in S : \E k \in Arity(s, i) : KidOf(s, i, k) = y
  <2>1. \A a : ~(a \in 1 .. 1-1)
    OBVIOUS
  <2>2. QED
    BY <2>1, GrownHolds
<1>2. S = Fresh \cup {x} /\ x \notin Fresh /\ x \in Idx /\ S \subseteq Filled(s)
  BY DEF Grown, Fresh
<1>3. task.root = Innermost.idx
  BY <1>1 DEF Route, TreeInv, StackAt
<1>4. s \in [Idx -> Slot]
  BY DEF TreeInv, IInv, SlotsOK
<1>5. S \in SUBSET Idx
  BY <1>2 DEF Filled
<1>6. \A i, j \in S : \A k \in Arity(s, i), l \in Arity(s, j) :
        KidOf(s, i, k) = KidOf(s, j, l) => i = j /\ k = l
  BY <1>1 DEF HeldByOneNode
<1>7. PICK c \in Nat : \E r \in [S -> 0 .. c-1] :
         \A i \in S : \A k \in Arity(s, i) : r[KidOf(s, i, k)] < r[i]
  BY GrownRanks
<1>8. PICK r \in [S -> 0 .. c-1] : \A i \in S : \A k \in Arity(s, i) : r[KidOf(s, i, k)] < r[i]
  BY <1>7
<1>9. task'.at = "done" /\ task'.op = "copy" /\ task'.root = task.root
  BY DEF Answer, TreeInv, TreeTyped, Task
<1>10. Allocated' \ Filled(before)' = S
  BY DEF Allocated, IsOccupied, Filled, Fresh
<1>11. Filled(before)' = Filled(before) /\ before' = before
  OBVIOUS
<1> HIDE DEF s, S
<1>12. S = Below(s, x)
  <2>1. Below(s, x) \subseteq S
    BY <1>1, <1>2, <1>4, <1>5, BelowLeast
  <2>2. ASSUME NEW T \in SUBSET DOMAIN LinksOf(s), {x} \cap Idx \subseteq T, ClosedIn(LinksOf(s), T)
        PROVE  S \subseteq T
    <3> DEFINE D == S \ T
    <3> SUFFICES ASSUME D # {} PROVE FALSE
      OBVIOUS
    <3>1. PICK y \in D : \A z \in D : ~(r[y] < r[z])
      BY HighestRank
    <3>2. y \in Fresh
      BY <1>2, <2>2
    <3>3. PICK i \in S : \E k \in Arity(s, i) : KidOf(s, i, k) = y
      BY <1>1, <3>2
    <3>4. PICK k \in Arity(s, i) : KidOf(s, i, k) = y
      BY <3>3
    <3>5. i \in T
      BY <1>8, <3>1, <3>3, <3>4
    <3>6. y \in LinksOf(s)[i]
      BY <1>2, <1>4, <1>5, <3>4, LinksShape
    <3>7. QED
      BY <2>2, <3>5, <3>6 DEF ClosedIn
  <2>3. S \subseteq DOMAIN LinksOf(s)
    BY <1>5 DEF LinksOf
  <2>4. S \subseteq Below(s, x)
    BY <2>2, <2>3 DEF Below, Reachable
  <2>5. QED
    BY <2>1, <2>4
<1>13. IsTree(s, x)
  <2>1. \A i \in S : \A k \in Arity(s, i) : KidOf(s, i, k) \in Idx \ {x}
    BY <1>1, <1>2, <1>5
  <2>2. x \in Filled(s)
    BY <1>2
  <2>3. QED
    BY <1>2, <1>4, <1>6, <1>12, <2>1, <2>2, MakesTree
<1>14. ASSUME Intact(before, task.root)
       PROVE  \E origin \in [S -> Filled(before)] : \A i \in S : CopyOf(origin, node, i)'
  <2>1. PICK o \in [S -> Filled(before)] :
           /\ o[x] = Innermost.idx
           /\ \A i \in S : /\ s[i].value.kind = before[o[i]].value.kind
                           /\ s[i].value.kind = "Leaf" => s[i].value = before[o[i]].value
                           /\ \A k \in Arity(s, i) : o[KidOf(s, i, k)] = KidOf(before, o[i], k)
    BY <1>14, GrownIsCopy DEF s, S
  <2>2. ASSUME NEW i \in S
        PROVE  CopyOf(o, node, i)'
    <3>1. i \in Filled(s) /\ s[i].value \in Value
      BY <1>2, <1>4, SlotShape DEF Filled
    <3>2. DOMAIN Kids(s[i].value) = Arity(s, i)
      BY <3>1, ValueShape DEF Arity
    <3>3. \A k \in DOMAIN Kids(s[i].value) :
             /\ Kids(s[i].value)[k] \in DOMAIN o
             /\ o[Kids(s[i].value)[k]] = Kids(before[o[i]].value)[k]
      BY <1>1, <1>2, <2>1, <3>2 DEF KidOf
    <3>4. QED
      BY <1>3, <1>9, <2>1, <3>3 DEF CopyOf, s
  <2>3. QED
    BY <2>2
<1>15. Intact(before, task.root)' <=> Intact(before, task.root)
  BY <1>9, RootKept
<1>16. QED
  BY <1>9, <1>10, <1>11, <1>12, <1>13, <1>14, <1>15 DEF CopiesTrees, s
-----------------------------------------------------------------------------
(***************************************************************************)
(* All of a call together.                                                 *)
(***************************************************************************)
Making  == /\ Route /\ Read /\ Led
           /\ task.op = "delete" => DeleteInv
           /\ task.op = "copy"   => CopyInv
WorkInv == TreeInv /\ (Under => Making) /\ DeletesTrees /\ CopiesTrees /\ AbortsOnCycles

LEMMA EmptyCall ==
  ASSUME frames' = << >>, slots' = before', task'.at = "visit", node' = task'.root
  PROVE  Making'
<1>1. Gone' = {} /\ Fresh' = {}
  BY DEF Gone, Fresh
<1>2. Len(frames') = 0 /\ \A a : ~(a \in 1 .. 0)
  OBVIOUS
<1>3. Route' /\ Read' /\ Led'
  BY <1>2 DEF Route, Read, Led
<1>4. DeleteInv'
  <2>1. \A i, k : ~Eaten(i, k)'
    BY <1>1, <1>2 DEF Eaten
  <2>2. QED
    BY <1>1, <1>2, <2>1 DEF DeleteInv, GoneClosed, MadeGone, NoneGone, EatenOnce, GoneEaten, NoneTwice
<1>5. CopyInv'
  <2>1. \E r : r \in [{} -> 0 .. 0-1]
    <3>1. [y \in {} |-> 0] \in [{} -> 0 .. 0-1]
      OBVIOUS
    <3>2. QED
      BY <3>1
  <2>2. Ranked'
    BY <1>1, <1>2, <2>1 DEF Ranked, KidsLower, FramesLower
  <2>3. \E o : o \in [{} -> Filled(before)']
    <3>1. [y \in {} |-> 0] \in [{} -> Filled(before)']
      OBVIOUS
    <3>2. QED
      BY <3>1
  <2>4. Copied'
    BY <1>1, <1>2, <2>3 DEF Copied, NodesCopied, FramesCopied
  <2>5. QED
    BY <1>1, <1>2, <2>2, <2>4
       DEF CopyInv, LiveFrames, FreshClosed, MadeFresh, HeldByOneNode, HeldByOneFrame,
           HeldByOneKind, FreshHeld
<1>6. QED
  BY <1>3, <1>4, <1>5 DEF Making

(* What is old was reached through what is old. *)
LEMMA OldFromOld ==
  ASSUME TreeInv, task.at = "visit", Making, node \in Filled(slots)
  PROVE  /\ node \in Filled(before) => slots[node] = before[node]
         /\ node \in Filled(before) /\ frames # << >> => Innermost.idx \in Filled(before)
<1> DEFINE n == Len(frames)
<1>1. task.op \in {"delete", "copy"}
  BY DEF TreeInv, StackAt, TreeTyped, Task
<1>2. node \in Filled(before) => slots[node] = before[node]
  BY <1>1 DEF TreeInv, Confined
<1>3. ASSUME node \in Filled(before), frames # << >>
      PROVE  Innermost.idx \in Filled(before)
  <2>1. n \in 1 .. n /\ Innermost = frames[n] /\ frames \in Seq(Activation)
    BY <1>3, StackType, EmptySeq DEF Innermost
  <2>2. CASE task.op = "delete"
    BY <2>1, <2>2 DEF TreeInv, DeleteOwned, Owned
  <2>3. CASE task.op = "copy"
    <3> DEFINE j == frames[n].idx
               l == Len(frames[n].made) + 1
    <3>1. j \in Filled(slots) /\ frames[n].value = slots[j].value
      BY <2>1, <2>3 DEF Making, CopyInv, LiveFrames
    <3>2. node = NextKid(frames[n]) /\ Open(frames[n])
      BY <1>3, <2>1 DEF Making, Route, TreeInv, StackAt
    <3>3. l \in Arity(slots, j) /\ node = KidOf(slots, j, l)
      BY <2>1, <3>1, <3>2, NextKidFacts DEF Arity, KidOf, NextKid
    <3>4. j \notin Fresh
      BY <1>3, <2>3, <3>3 DEF Making, CopyInv, FreshClosed, Fresh
    <3>5. QED
      BY <2>1, <3>1, <3>4 DEF Fresh
  <2>4. QED
    BY <1>1, <2>2, <2>3
<1>4. QED
  BY <1>2, <1>3

(* The same node twice on the stack was there when the call began. *)
LEMMA TwiceIsOld ==
  ASSUME TreeInv, task.at = "visit", Making, NEW b \in 1 .. Len(frames), NEW a \in 1 .. b-1,
         frames[a].idx = frames[b].idx
  PROVE  frames[b].idx \in Filled(before)
<1>1. task.op \in {"delete", "copy"}
  BY DEF TreeInv, StackAt, TreeTyped, Task
<1>2. CASE task.op = "delete"
  BY <1>2 DEF TreeInv, DeleteOwned, Owned
<1>3. CASE task.op = "copy"
  <2>1. frames[b].idx \in Filled(slots)
    BY <1>3 DEF Making, CopyInv, LiveFrames
  <2>2. ASSUME frames[b].idx \in Fresh PROVE FALSE
    <3>1. PICK c \in Nat : \E r \in [Fresh -> 0 .. c-1] : KidsLower(r) /\ FramesLower(r)
      BY <1>3 DEF Making, CopyInv, Ranked
    <3>2. PICK r \in [Fresh -> 0 .. c-1] : FramesLower(r)
      BY <3>1
    <3>3. r[frames[b].idx] < r[frames[b].idx]
      BY <2>2, <3>2 DEF FramesLower
    <3>4. r[frames[b].idx] \in 0 .. c-1
      BY <2>2
    <3>5. QED
      BY <3>3, <3>4
  <2>3. QED
    BY <2>1, <2>2 DEF Fresh
<1>4. QED
  BY <1>1, <1>2, <1>3

LEMMA WorkStart ==
  ASSUME WorkInv, TreeInv', NEW op \in {"delete", "copy"}, NEW i \in Handle, Start(op, i)
  PROVE  WorkInv'
<1>1. task'.at = "visit" /\ task'.root = i /\ node' = i /\ before' = slots'
  BY DEF Start, vars
<1>2. frames' = << >>
  BY DEF Start, WorkInv, TreeInv, StackAt
<1>3. Making'
  BY <1>1, <1>2, EmptyCall
<1>4. QED
  BY <1>1, <1>3 DEF WorkInv, Under, DeletesTrees, CopiesTrees, AbortsOnCycles

LEMMA WorkVisit ==
  ASSUME WorkInv, TreeInv', Visit
  PROVE  WorkInv'
<1>1. TreeInv /\ task.at = "visit" /\ Making
  BY DEF Visit, WorkInv, Under
<1>2. UNCHANGED <<slots, before>> /\ task \in Task
  BY <1>1 DEF Visit, Get, Refuse, arenaVars, TreeInv, TreeTyped
<1>3. CASE ~ValidIndex(node) /\ Fail(IndexError(node))
  <2>1. task'.at = "done" /\ task'.op = task.op /\ task'.answer # "Ok"
    BY <1>2, <1>3 DEF Fail, Answer, IndexError, Task
  <2>2. DeletesTrees'
    <3>1. CASE task.op = "delete"
      BY <1>1, <1>2, <1>3, <3>1, DeleteFails DEF Making
    <3>2. CASE task.op # "delete"
      BY <2>1, <3>2 DEF DeletesTrees
    <3>3. QED
      BY <3>1, <3>2
  <2>3. CopiesTrees'
    BY <2>1 DEF CopiesTrees
  <2>4. QED
    BY <2>1, <2>2, <2>3 DEF WorkInv, Under, AbortsOnCycles
<1>4. CASE Len(frames) = MaxDepth /\ Overflow
  <2>1. task'.at = "aborted" /\ task'.root = task.root
    BY <1>2, <1>4 DEF Overflow, At, Task
  <2>2. \A k \in 1 .. Len(frames) : Open(frames[k])
    BY <1>1 DEF TreeInv, StackAt
  <2>3. \E i \in Below(before, task.root) : \E j \in LinksOf(before)[i] : i \in Below(before, j)
    BY <1>1, <1>4, <2>2, TwiceIsOld, FullStackIsCycle DEF Making
  <2>4. AbortsOnCycles'
    BY <1>2, <2>1, <2>3 DEF AbortsOnCycles
  <2>5. QED
    BY <2>1, <2>4 DEF WorkInv, Under, DeletesTrees, CopiesTrees
<1>5. CASE /\ ValidIndex(node) /\ Len(frames) < MaxDepth
           /\ Proceed(Append(frames, Frame(node, slots[node].value)))
  <2>1. task'.at \in {"visit", "finish"} /\ task'.op = task.op
    BY <1>2, <1>5 DEF Proceed, At, Task
  <2>2. Pushed
    BY <1>1, <2>1, PushFacts
  <2>3. Route'
    BY <1>1, <2>2, PushRoute DEF Making
  <2>4. Read' /\ Led'
    <3>1. node \in Filled(slots)
      BY <2>2 DEF Pushed
    <3>2. QED
      BY <1>1, <2>2, <3>1, OldFromOld, PushReads DEF Making
  <2>5. task'.op = "delete" => DeleteInv'
    BY <1>1, <2>1, <2>2, DeletePush DEF Making
  <2>6. task'.op = "copy" => CopyInv'
    BY <1>1, <2>1, <2>2, CopyPush DEF Making
  <2>7. QED
    BY <2>1, <2>3, <2>4, <2>5, <2>6
       DEF WorkInv, Under, Making, DeletesTrees, CopiesTrees, AbortsOnCycles
<1>6. QED
  BY <1>3, <1>4, <1>5 DEF Visit

LEMMA WorkDelete ==
  ASSUME WorkInv, TreeInv', FinishDelete
  PROVE  WorkInv'
<1> DEFINE i == Innermost.idx
<1>1. TreeInv /\ task.at = "finish" /\ task.op = "delete" /\ Free(i) /\ UNCHANGED before
  BY DEF FinishDelete, WorkInv
<1>2. Making /\ Route /\ Read /\ Led /\ DeleteInv
  BY <1>1 DEF WorkInv, Under, Making
<1>3. i \in Filled(slots) /\ i \in Idx
  BY <1>1, <1>2, DeleteFinish
<1>4. ValidIndex(i)
  BY <1>3 DEF ValidIndex, IsOccupied, Filled, Idx
<1>5. Returns(i)
  BY <1>4 DEF FinishDelete
<1>6. Filled(slots)' = Filled(slots) \ {i}
  <2>1. slots' = [slots EXCEPT ![i] = FreeSlot(free_head)] /\ slots \in [Idx -> Slot]
    BY <1>1, <1>4 DEF Free, Refuse, PushSlot, TreeInv, IInv, SlotsOK
  <2>2. FreeSlot(free_head).kind # "Occupied"
    BY DEF FreeSlot
  <2> HIDE DEF i
  <2>3. QED
    BY <1>3, <2>1, <2>2 DEF Filled
<1>7. CASE Len(frames) = 1 /\ frames' = << >> /\ task' = Answer("Ok") /\ node' = i
  <2>1. DeletesTrees'
    BY <1>1, <1>2, <1>6, <1>7, DeleteSucceeds
  <2>2. task'.at = "done" /\ task'.op = "delete"
    BY <1>1, <1>7 DEF Answer, TreeInv, TreeTyped, Task
  <2>3. QED
    BY <2>1, <2>2 DEF WorkInv, Under, CopiesTrees, AbortsOnCycles
<1>8. CASE Popped(i)
  <2>1. task'.at \in {"visit", "finish"} /\ task'.op = "delete"
    BY <1>1, <1>8 DEF Popped
  <2>2. Route'
    BY <1>1, <1>2, <1>8, PopRoute
  <2>3. Read' /\ Led'
    BY <1>1, <1>2, <1>8, PopReads
  <2>4. DeleteInv'
    BY <1>1, <1>2, <1>6, <1>8, DeletePop
  <2>5. QED
    BY <2>1, <2>2, <2>3, <2>4 DEF WorkInv, Under, Making, DeletesTrees, CopiesTrees, AbortsOnCycles
<1>9. QED
  BY <1>1, <1>3, <1>5, <1>7, <1>8, PopFacts

LEMMA WorkCopy ==
  ASSUME WorkInv, TreeInv', FinishCopy
  PROVE  WorkInv'
<1> DEFINE v == Rebuilt(Innermost.value, Innermost.made)
           x == free_head
<1>1. TreeInv /\ task.at = "finish" /\ task.op = "copy" /\ Alloc(v) /\ UNCHANGED before
  BY DEF FinishCopy, WorkInv
<1>2. Making /\ Route /\ Read /\ Led /\ CopyInv
  BY <1>1 DEF WorkInv, Under, Making
<1>3. CASE x = FREE_LIST_END /\ Fail("OutOfMemory")
  <2>1. task'.at = "done" /\ task'.op = "copy" /\ task'.answer # "Ok"
    BY <1>1, <1>3 DEF Fail, Answer, TreeInv, TreeTyped, Task
  <2>2. QED
    BY <2>1 DEF WorkInv, Under, DeletesTrees, CopiesTrees, AbortsOnCycles
<1>4. CASE x # FREE_LIST_END /\ Returns(x)
  <2>1. v \in Value
    BY <1>1, InnermostFacts, RebuiltIsValue DEF Activation
  <2>2. PopSlot(v)
    BY <1>1, <1>4 DEF Alloc
  <2>3. x \in Idx /\ ~IsOccupied(x)
    <3> HIDE DEF v
    <3>1. QED
      BY <1>1, <1>4, <2>1, <2>2, PopKeepsInv DEF TreeInv
  <2>4. Grown(x)
    BY <1>1, <2>2, <2>3, CopyGrows
  <2> HIDE DEF x, v
  <2>5. CASE Len(frames) = 1 /\ frames' = << >> /\ task' = Answer("Ok") /\ node' = x
    <3>1. CopiesTrees'
      BY <1>1, <1>2, <2>4, <2>5, CopySucceeds
    <3>2. task'.at = "done" /\ task'.op = "copy"
      BY <1>1, <2>5 DEF Answer, TreeInv, TreeTyped, Task
    <3>3. QED
      BY <3>1, <3>2 DEF WorkInv, Under, DeletesTrees, AbortsOnCycles
  <2>6. CASE Popped(x)
    <3>1. task'.at \in {"visit", "finish"} /\ task'.op = "copy"
      BY <1>1, <2>6 DEF Popped
    <3>2. Route'
      BY <1>1, <1>2, <2>6, PopRoute
    <3>3. Read' /\ Led'
      BY <1>1, <1>2, <2>6, PopReads
    <3>4. CopyInv'
      BY <1>1, <1>2, <2>4, <2>6, CopyPop
    <3>5. QED
      BY <3>1, <3>2, <3>3, <3>4 DEF WorkInv, Under, Making, DeletesTrees, CopiesTrees, AbortsOnCycles
  <2>7. QED
    BY <1>1, <1>4, <2>3, <2>5, <2>6, PopFacts
<1>5. QED
  BY <1>3, <1>4 DEF FinishCopy

LEMMA WorkStutters ==
  ASSUME WorkInv, TreeInv', UNCHANGED <<vars, treeVars>>
  PROVE  WorkInv'
<1>1. /\ slots' = slots /\ frames' = frames /\ task' = task /\ node' = node /\ before' = before
  BY DEF vars, treeVars
<1>2. Under' = Under /\ Route' = Route /\ Read' = Read /\ Gone' = Gone /\ Fresh' = Fresh
  BY <1>1 DEF Under, Route, Read, Innermost, Gone, Fresh, Filled
<1>3. Led' = Led
  BY <1>1 DEF Led, Below, Reachable, LinksOf, Entries, KidAt, KidsAt, Filled
<1>4. DeleteInv' = DeleteInv
  BY <1>1 DEF DeleteInv, GoneClosed, MadeGone, NoneGone, EatenOnce, GoneEaten, NoneTwice, Eaten,
              Gone, IsTree, Places, Below, Reachable, LinksOf, Entries, KidAt, KidsAt, Filled
<1>5. CopyInv' = CopyInv
  BY <1>1 DEF CopyInv, LiveFrames, FreshClosed, MadeFresh, HeldByOneNode, HeldByOneFrame,
              HeldByOneKind, FreshHeld, Ranked, KidsLower, FramesLower, Copied, NodesCopied,
              FramesCopied, Same, Fresh, Intact, Places, Below, Reachable, LinksOf, Entries,
              KidAt, KidsAt, Filled
<1>6. Making' = Making
  BY <1>1, <1>2, <1>3, <1>4, <1>5 DEF Making
<1>7. DeletesTrees' = DeletesTrees /\ AbortsOnCycles' = AbortsOnCycles
  BY <1>1 DEF DeletesTrees, AbortsOnCycles, Allocated, IsOccupied, IsTree, Places, Below,
              Reachable, LinksOf, Entries, KidAt, KidsAt, Filled
<1>8. CopiesTrees' = CopiesTrees
  BY <1>1 DEF CopiesTrees, CopyOf, Allocated, IsOccupied, Intact, IsTree, Places, Below,
              Reachable, LinksOf, Entries, KidAt, KidsAt, Filled
<1>9. QED
  BY <1>2, <1>6, <1>7, <1>8 DEF WorkInv

LEMMA WorkHolds == TreeSpec => []WorkInv
<1>1. TreeInit => WorkInv
  <2> SUFFICES ASSUME TreeInit PROVE WorkInv
    OBVIOUS
  <2>1. TreeInv /\ task.at = "idle"
    BY InitTreeInv DEF TreeInit, Idle
  <2>2. QED
    BY <2>1 DEF WorkInv, Under, DeletesTrees, CopiesTrees, AbortsOnCycles
<1>2. WorkInv /\ [TreeNext]_<<vars, treeVars>> => WorkInv'
  <2> SUFFICES ASSUME WorkInv, [TreeNext]_<<vars, treeVars>> PROVE WorkInv'
    OBVIOUS
  <2>1. TreeInv'
    BY StepKeeps DEF WorkInv
  <2>2. CASE UNCHANGED <<vars, treeVars>>
    BY <2>1, <2>2, WorkStutters
  <2>3. CASE Aborted
    BY <2>1, <2>3, WorkStutters DEF Aborted
  <2>4. CASE ArenaCall \/ Return
    <3>1. task'.at = "idle"
      BY <2>4 DEF ArenaCall, Return, Idle, treeVars
    <3>2. QED
      BY <2>1, <3>1 DEF WorkInv, Under, DeletesTrees, CopiesTrees, AbortsOnCycles
  <2>5. CASE \E op \in {"delete", "copy"}, i \in Handle : Start(op, i)
    BY <2>1, <2>5, WorkStart
  <2>6. CASE Visit
    BY <2>1, <2>6, WorkVisit
  <2>7. CASE FinishDelete
    BY <2>1, <2>7, WorkDelete
  <2>8. CASE FinishCopy
    BY <2>1, <2>8, WorkCopy
  <2>9. QED
    BY <2>2, <2>3, <2>4, <2>5, <2>6, <2>7, <2>8 DEF TreeNext
<1>3. QED
  BY <1>1, <1>2, PTL DEF TreeSpec

(* delete_recursive succeeds exactly on trees, whatever hangs together in  *)
(* the arena, and frees the whole of them; where it fails the node it was  *)
(* given is still there.                                                   *)
THEOREM DeletionsAreOfTrees == TreeSpec => []DeletesTrees
<1>1. WorkInv => DeletesTrees
  BY DEF WorkInv
<1>2. QED
  BY <1>1, WorkHolds, PTL

(* A copy_deep that succeeds has made a tree of slots that were free, and, *)
(* if no index dangled, one that is the original unfolded.                 *)
THEOREM CopiesAreTrees == TreeSpec => []CopiesTrees
<1>1. WorkInv => CopiesTrees
  BY DEF WorkInv
<1>2. QED
  BY <1>1, WorkHolds, PTL

(* The recursion runs out of a stack deeper than the arena is large only   *)
(* in a structure that leads back to itself, never in one that is shared   *)
(* or that dangles.                                                        *)
THEOREM OnlyCyclesAbort == TreeSpec => []AbortsOnCycles
<1>1. WorkInv => AbortsOnCycles
  BY DEF WorkInv
<1>2. QED
  BY <1>1, WorkHolds, PTL
=============================================================================
