-------------------------- MODULE GriftRootsProofs ------------------------
(***************************************************************************)
(* Proofs about GriftRoots: what Below and Lists do, which is all the      *)
(* arithmetic of pushes and pops comes to; that a collection frees nothing *)
(* an activation reads later; and the inductive invariant that has both.   *)
(***************************************************************************)
EXTENDS GriftRoots, SequenceTheorems, WellFoundedInduction, TLAPS

(* The first of the numbers up to n that is not as claimed. *)
LEMMA FirstWrong ==
  ASSUME NEW n \in Nat, NEW Wrong \in SUBSET (0 .. n), 0 \notin Wrong,
         \A e \in 1 .. n : e-1 \notin Wrong => e \notin Wrong
  PROVE  Wrong = {}
<1> SUFFICES ASSUME Wrong # {} PROVE FALSE
  OBVIOUS
<1> DEFINE R == OpToRel(<, Nat)
<1>1. IsWellFoundedOn(R, Nat)
  BY NatLessThanWellFounded, Zenon
<1>2. \A a, b : a \in Nat /\ b \in Nat /\ a < b => <<a, b>> \in R
  BY Zenon DEF OpToRel
<1> HIDE DEF R
<1>3. PICK m \in Wrong : \A k \in Wrong : <<k, m>> \notin R
  <2>1. Wrong \subseteq Nat
    OBVIOUS
  <2> QED BY <1>1, <2>1, WFMin, Zenon
<1>4. m \in 1 .. n /\ m - 1 \in Nat /\ m \in Nat /\ m - 1 < m
  OBVIOUS
<1>5. m - 1 \in Wrong
  BY <1>4
<1> QED BY <1>2, <1>3, <1>4, <1>5
-----------------------------------------------------------------------------
(* The nodes of the root stack. *)
Nodes(f, h, i, n) == f = [k \in 0 .. n |-> IF k = 0 THEN i ELSE Rest(h, f[k - 1])]

LEMMA NodesExist ==
  ASSUME NEW h, NEW i, NEW n \in Nat
  PROVE  \E f : Nodes(f, h, i, n)
<1> DEFINE Wrong == {k \in 0 .. n : ~\E f : Nodes(f, h, i, k)}
<1>1. 0 \notin Wrong
  <2>1. Nodes([k \in 0 .. 0 |-> i], h, i, 0)
    BY DEF Nodes
  <2> QED BY <2>1
<1>2. ASSUME NEW k \in 1 .. n, k-1 \notin Wrong PROVE k \notin Wrong
  <2>1. PICK f : Nodes(f, h, i, k-1)
    BY <1>2
  <2> DEFINE g == [m \in 0 .. k |-> IF m < k THEN f[m] ELSE Rest(h, f[k-1])]
  <2>2. \A m \in 0 .. k-1 : f[m] = IF m = 0 THEN i ELSE Rest(h, f[m-1])
    BY <2>1 DEF Nodes
  <2>3. \A m \in 0 .. k : g[m] = IF m = 0 THEN i ELSE Rest(h, g[m-1])
    BY <2>2
  <2>4. Nodes(g, h, i, k)
    BY <2>3 DEF Nodes
  <2> HIDE DEF g
  <2> QED BY <2>4
<1> HIDE DEF Wrong
<1>3. Wrong = {}
  BY <1>1, <1>2, FirstWrong DEF Wrong
<1> QED BY <1>3 DEF Wrong

LEMMA NodesUnique ==
  ASSUME NEW h, NEW i, NEW n \in Nat, NEW m \in Nat, NEW f, NEW g,
         Nodes(f, h, i, n), Nodes(g, h, i, m), n <= m
  PROVE  f[n] = g[n]
<1> DEFINE Wrong == {k \in 0 .. n : f[k] # g[k]}
<1>1. \A k \in 0 .. n : f[k] = IF k = 0 THEN i ELSE Rest(h, f[k - 1])
  BY DEF Nodes
<1>2. \A k \in 0 .. n : g[k] = IF k = 0 THEN i ELSE Rest(h, g[k - 1])
  BY DEF Nodes
<1>3. 0 \notin Wrong
  BY <1>1, <1>2
<1>4. ASSUME NEW k \in 1 .. n, k-1 \notin Wrong PROVE k \notin Wrong
  <2>1. k-1 \in 0 .. n /\ k \in 0 .. n /\ k # 0
    OBVIOUS
  <2> QED BY <1>1, <1>2, <1>4, <2>1
<1> HIDE DEF Wrong
<1>5. Wrong = {}
  BY <1>3, <1>4, FirstWrong DEF Wrong
<1> QED BY <1>5 DEF Wrong

LEMMA BelowNodes ==
  ASSUME NEW h, NEW i, NEW n \in Nat
  PROVE  \E f : Nodes(f, h, i, n) /\ Below(h, i, n) = f[n]
<1> DEFINE f == CHOOSE node : Nodes(node, h, i, n)
<1>1. Nodes(f, h, i, n)
  BY NodesExist
<1>2. Below(h, i, n) = f[n]
  BY DEF Below, Nodes
<1> QED BY <1>1, <1>2

(* No pop leaves the node; one more pop goes one node down. *)
LEMMA BelowNone ==
  ASSUME NEW h, NEW i
  PROVE  Below(h, i, 0) = i
<1>1. PICK f : Nodes(f, h, i, 0) /\ Below(h, i, 0) = f[0]
  BY BelowNodes
<1> QED BY <1>1 DEF Nodes

LEMMA BelowMore ==
  ASSUME NEW h, NEW i, NEW n \in Nat
  PROVE  Below(h, i, n + 1) = Rest(h, Below(h, i, n))
<1>1. PICK f : Nodes(f, h, i, n) /\ Below(h, i, n) = f[n]
  BY BelowNodes
<1>2. PICK g : Nodes(g, h, i, n + 1) /\ Below(h, i, n + 1) = g[n + 1]
  BY BelowNodes, n + 1 \in Nat
<1>3. f[n] = g[n]
  BY <1>1, <1>2, NodesUnique, n + 1 \in Nat, n <= n + 1
<1>4. g[n + 1] = Rest(h, g[n])
  <2>1. n + 1 \in 0 .. n + 1 /\ n + 1 # 0 /\ (n + 1) - 1 = n
    OBVIOUS
  <2> QED BY <1>2, <2>1 DEF Nodes
<1> QED BY <1>1, <1>2, <1>3, <1>4

LEMMA BelowAdd ==
  ASSUME NEW h, NEW i, NEW m \in Nat, NEW n \in Nat
  PROVE  Below(h, i, m + n) = Below(h, Below(h, i, m), n)
<1> DEFINE Wrong == {k \in 0 .. n : Below(h, i, m + k) # Below(h, Below(h, i, m), k)}
<1>1. 0 \notin Wrong
  BY BelowNone, m + 0 = m
<1>2. ASSUME NEW k \in 1 .. n, k-1 \notin Wrong PROVE k \notin Wrong
  <2>1. k-1 \in Nat /\ m + (k-1) \in Nat /\ k-1 \in 0 .. n /\ (k-1) + 1 = k
        /\ (m + (k-1)) + 1 = m + k
    OBVIOUS
  <2>2. Below(h, i, m + k) = Rest(h, Below(h, i, m + (k-1)))
    BY <2>1, BelowMore
  <2>3. Below(h, Below(h, i, m), k) = Rest(h, Below(h, Below(h, i, m), k-1))
    BY <2>1, BelowMore
  <2> QED BY <1>2, <2>1, <2>2, <2>3
<1> HIDE DEF Wrong
<1>3. Wrong = {}
  BY <1>1, <1>2, FirstWrong DEF Wrong
<1> QED BY <1>3 DEF Wrong
-----------------------------------------------------------------------------
(* Stretches of the root stack. *)
IsNode(h, S, i, x) == i \in S /\ i \in DOMAIN h /\ h[i].kind = "Cons" /\ h[i].a = x

LEMMA ListsNodes ==
  ASSUME NEW h, NEW S, NEW i, NEW vals, NEW base
  PROVE  Lists(h, S, i, vals, base)
           <=> /\ \A n \in 1 .. Len(vals) : IsNode(h, S, Below(h, i, n - 1), vals[n])
               /\ Below(h, i, Len(vals)) = base
BY DEF Lists, IsNode

LEMMA NodeRest ==
  ASSUME NEW h, NEW S, NEW i, NEW x, IsNode(h, S, i, x)
  PROVE  Rest(h, i) = h[i].d
BY DEF IsNode, Rest

LEMMA ListsNone ==
  ASSUME NEW h, NEW S, NEW i, NEW base
  PROVE  Lists(h, S, i, << >>, base) <=> i = base
<1>1. Len(<< >>) = 0 /\ 1 .. Len(<< >>) = {}
  OBVIOUS
<1> QED BY <1>1, BelowNone, ListsNodes

LEMMA ListsJoin ==
  ASSUME NEW h, NEW S, NEW T, NEW u \in Seq(T), NEW v \in Seq(T), NEW i, NEW b, NEW c,
         Lists(h, S, i, u, b), Lists(h, S, b, v, c)
  PROVE  Lists(h, S, i, u \o v, c)
<1> DEFINE w == u \o v
<1>1. /\ Len(u) \in Nat /\ Len(v) \in Nat /\ Len(w) = Len(u) + Len(v)
      /\ \A n \in 1 .. Len(u) : w[n] = u[n]
      /\ \A n \in Len(u) + 1 .. Len(u) + Len(v) : w[n] = v[n - Len(u)]
  <2>1. Len(u) \in Nat /\ Len(v) \in Nat
    BY LenProperties
  <2> QED BY <2>1, ConcatProperties
<1> HIDE DEF w
<1>2. Below(h, i, Len(u)) = b /\ Below(h, b, Len(v)) = c
  BY ListsNodes
<1>3. Below(h, i, Len(w)) = c
  BY <1>1, <1>2, BelowAdd
<1>4. ASSUME NEW n \in 1 .. Len(w) PROVE IsNode(h, S, Below(h, i, n - 1), w[n])
  <2>1. CASE n \in 1 .. Len(u)
    BY <1>1, <2>1, ListsNodes
  <2>2. CASE n \in Len(u) + 1 .. Len(u) + Len(v)
    <3>1. /\ n - Len(u) \in 1 .. Len(v) /\ (n - Len(u)) - 1 \in Nat
          /\ Len(u) + ((n - Len(u)) - 1) = n - 1
      BY <1>1, <2>2
    <3>2. Below(h, i, n - 1) = Below(h, b, (n - Len(u)) - 1)
      BY <1>1, <1>2, <3>1, BelowAdd
    <3> QED BY <1>1, <2>2, <3>1, <3>2, ListsNodes
  <2> QED BY <1>1, <2>1, <2>2
<1>5. Lists(h, S, i, w, c)
  BY <1>3, <1>4, ListsNodes
<1> QED BY <1>5 DEF w

LEMMA ListsSplit ==
  ASSUME NEW h, NEW S, NEW T, NEW u \in Seq(T), NEW v \in Seq(T), NEW i, NEW c,
         Lists(h, S, i, u \o v, c)
  PROVE  Lists(h, S, Below(h, i, Len(u)), v, c)
<1> DEFINE w == u \o v
<1>1. /\ Len(u) \in Nat /\ Len(v) \in Nat /\ Len(w) = Len(u) + Len(v)
      /\ \A n \in Len(u) + 1 .. Len(u) + Len(v) : w[n] = v[n - Len(u)]
  <2>1. Len(u) \in Nat /\ Len(v) \in Nat
    BY LenProperties
  <2> QED BY <2>1, ConcatProperties
<1>0. Lists(h, S, i, w, c)
  OBVIOUS
<1> HIDE DEF w
<1> DEFINE b == Below(h, i, Len(u))
<1>2. Below(h, b, Len(v)) = c
  <2>1. Below(h, i, Len(w)) = c
    BY <1>0, ListsNodes
  <2>2. Below(h, i, Len(u) + Len(v)) = Below(h, b, Len(v))
    BY <1>1, BelowAdd
  <2> QED BY <1>1, <2>1, <2>2
<1>3. ASSUME NEW n \in 1 .. Len(v) PROVE IsNode(h, S, Below(h, b, n - 1), v[n])
  <2>1. /\ Len(u) + n \in 1 .. Len(w) /\ Len(u) + n \in Len(u) + 1 .. Len(u) + Len(v)
        /\ (Len(u) + n) - Len(u) = n /\ n - 1 \in Nat /\ (Len(u) + n) - 1 = Len(u) + (n - 1)
    BY <1>1
  <2>2. Below(h, b, n - 1) = Below(h, i, (Len(u) + n) - 1)
    BY <1>1, <2>1, BelowAdd
  <2>3. IsNode(h, S, Below(h, i, (Len(u) + n) - 1), w[Len(u) + n])
    BY <1>0, <2>1, ListsNodes
  <2>4. w[Len(u) + n] = v[n]
    BY <1>1, <2>1
  <2> QED BY <2>2, <2>3, <2>4
<1> HIDE DEF b
<1>4. Lists(h, S, b, v, c)
  BY <1>2, <1>3, ListsNodes
<1> QED BY <1>4 DEF b

(* A stretch stays as it is where its nodes do. *)
LEMMA ListsKept ==
  ASSUME NEW h, NEW S, NEW h2, NEW S2, NEW i, NEW vals, NEW base, Len(vals) \in Nat,
         \A x \in S \cap DOMAIN h : x \in S2 /\ x \in DOMAIN h2 /\ h2[x] = h[x],
         Lists(h, S, i, vals, base)
  PROVE  Lists(h2, S2, i, vals, base)
<1> DEFINE Wrong == {k \in 0 .. Len(vals) : Below(h2, i, k) # Below(h, i, k)}
<1>0. \A x, y : IsNode(h, S, x, y) => IsNode(h2, S2, x, y) /\ Rest(h2, x) = Rest(h, x)
  BY DEF IsNode, Rest
<1>1. 0 \notin Wrong
  BY BelowNone
<1>2. ASSUME NEW k \in 1 .. Len(vals), k-1 \notin Wrong PROVE k \notin Wrong
  <2>1. k-1 \in Nat /\ (k-1) + 1 = k /\ k-1 \in 0 .. Len(vals)
    OBVIOUS
  <2>2. IsNode(h, S, Below(h, i, k-1), vals[k])
    BY ListsNodes
  <2>3. Below(h, i, k) = Rest(h, Below(h, i, k-1)) /\ Below(h2, i, k) = Rest(h2, Below(h2, i, k-1))
    BY <2>1, BelowMore
  <2> QED BY <1>0, <1>2, <2>1, <2>2, <2>3
<1> HIDE DEF Wrong
<1>3. Wrong = {}
  BY <1>1, <1>2, FirstWrong DEF Wrong
<1>4. \A k \in 0 .. Len(vals) : Below(h2, i, k) = Below(h, i, k)
  BY <1>3 DEF Wrong
<1>5. ASSUME NEW n \in 1 .. Len(vals) PROVE IsNode(h2, S2, Below(h2, i, n - 1), vals[n])
  <2>1. n - 1 \in 0 .. Len(vals)
    OBVIOUS
  <2> QED BY <1>0, <1>4, <2>1, ListsNodes
<1>6. Below(h2, i, Len(vals)) = base
  BY <1>4, Len(vals) \in 0 .. Len(vals), ListsNodes
<1> QED BY <1>5, <1>6, ListsNodes

(* A set closed under references has all of a stretch with its topmost     *)
(* node, what that lists, and what is below it.                            *)
Within(h, L, i) == i \in DOMAIN h => i \in L
Closed(h, L)    == \A i \in L : References(h[i]) \cap DOMAIN h \subseteq L

LEMMA ListsWithin ==
  ASSUME NEW h, NEW S, NEW L, NEW i, NEW vals, NEW base, Len(vals) \in Nat,
         Closed(h, L), Within(h, L, i), Lists(h, S, i, vals, base)
  PROVE  /\ Lists(h, S \cap L, i, vals, base)
         /\ \A n \in 1 .. Len(vals) : Within(h, L, vals[n])
         /\ Within(h, L, base)
<1> DEFINE Wrong == {k \in 0 .. Len(vals) : ~Within(h, L, Below(h, i, k))}
<1>0. ASSUME NEW x, NEW y, IsNode(h, S, x, y), Within(h, L, x)
      PROVE  IsNode(h, S \cap L, x, y) /\ Within(h, L, y) /\ Within(h, L, Rest(h, x))
  <2>1. References(h[x]) = {h[x].a, h[x].d}
    BY <1>0 DEF IsNode, References
  <2> QED BY <1>0, <2>1 DEF IsNode, Within, Closed, Rest
<1>1. 0 \notin Wrong
  BY BelowNone
<1>2. ASSUME NEW k \in 1 .. Len(vals), k-1 \notin Wrong PROVE k \notin Wrong
  <2>1. k-1 \in Nat /\ (k-1) + 1 = k /\ k-1 \in 0 .. Len(vals)
    OBVIOUS
  <2>2. IsNode(h, S, Below(h, i, k-1), vals[k])
    BY ListsNodes
  <2>3. Below(h, i, k) = Rest(h, Below(h, i, k-1))
    BY <2>1, BelowMore
  <2> QED BY <1>0, <1>2, <2>1, <2>2, <2>3
<1> HIDE DEF Wrong
<1>3. Wrong = {}
  BY <1>1, <1>2, FirstWrong DEF Wrong
<1>4. \A k \in 0 .. Len(vals) : Within(h, L, Below(h, i, k))
  BY <1>3 DEF Wrong
<1>5. ASSUME NEW n \in 1 .. Len(vals)
      PROVE  IsNode(h, S \cap L, Below(h, i, n - 1), vals[n]) /\ Within(h, L, vals[n])
  <2>1. n - 1 \in 0 .. Len(vals)
    OBVIOUS
  <2> QED BY <1>0, <1>4, <2>1, ListsNodes
<1>6. Below(h, i, Len(vals)) = base /\ Len(vals) \in 0 .. Len(vals)
  BY ListsNodes
<1> QED BY <1>4, <1>5, <1>6, ListsNodes
-----------------------------------------------------------------------------
(* What an activation holds. *)
LEMMA HeldLen ==
  ASSUME NEW t
  PROVE  Len(Held(t)) \in Nat /\ DOMAIN Held(t) = 1 .. Len(Held(t))
<1> DEFINE T == {t.env, t.args, t.wait.local, t.wait.cur, t.wait.done}
<1>1. /\ << >> \in Seq(T) /\ <<t.env, t.args>> \in Seq(T) /\ <<t.wait.local>> \in Seq(T)
      /\ <<t.wait.cur, t.env, t.wait.done>> \in Seq(T)
  OBVIOUS
<1> HIDE DEF T
<1>2. \A u, v \in Seq(T) : u \o v \in Seq(T)
  BY ConcatProperties
<1>3. Held(t) \in Seq(T)
  BY <1>1, <1>2 DEF Held
<1> QED BY <1>3, LenProperties

LEMMA HeldArgs ==
  ASSUME NEW t, t.wait.k \notin {"idle", "nested"}
  PROVE  \E n \in 1 .. Len(Held(t)) : Held(t)[n] = t.args
<1> DEFINE T == {t.env, t.args, t.wait.local, t.wait.cur, t.wait.done}
           Ends(s) == s \in Seq(T) /\ Len(s) > 0 /\ s[Len(s)] = t.args
<1>1. /\ <<t.env, t.args>> \in Seq(T) /\ <<t.wait.local>> \in Seq(T)
      /\ <<t.wait.cur, t.env, t.wait.done>> \in Seq(T)
      /\ Len(<<t.env, t.args>>) = 2
  OBVIOUS
<1>2. Ends(<<t.env, t.args>>)
  BY <1>1
<1> HIDE DEF T
<1>3. ASSUME NEW u \in Seq(T), NEW v, Ends(v) PROVE Ends(u \o v)
  <2>1. Len(u) \in Nat /\ Len(v) \in Nat
    BY <1>3, LenProperties
  <2>2. /\ u \o v \in Seq(T) /\ Len(u \o v) = Len(u) + Len(v)
        /\ \A i \in 1 .. Len(u) + Len(v) : (u \o v)[i] = IF i <= Len(u) THEN u[i] ELSE v[i - Len(u)]
    BY <1>3, ConcatProperties
  <2>3. /\ Len(u) + Len(v) \in 1 .. Len(u) + Len(v) /\ ~(Len(u) + Len(v) <= Len(u))
        /\ (Len(u) + Len(v)) - Len(u) = Len(v)
    BY <1>3, <2>1
  <2> QED BY <1>3, <2>1, <2>2, <2>3
<1> HIDE DEF Ends
<1>4. Ends(Held(t))
  BY <1>1, <1>2, <1>3 DEF Held
<1>5. Len(Held(t)) \in 1 .. Len(Held(t)) /\ Held(t)[Len(Held(t))] = t.args
  BY <1>4, HeldLen DEF Ends
<1> QED BY <1>5

LEMMA TwoBelow ==
  ASSUME NEW h, NEW S, NEW i, NEW x, NEW y, NEW base, Lists(h, S, i, <<x, y>>, base)
  PROVE  Below(h, i, 2) = base
<1>1. Len(<<x, y>>) = 2
  OBVIOUS
<1> QED BY <1>1, ListsNodes

LEMMA LetHeld ==
  ASSUME NEW h, NEW S, NEW i, NEW x, NEW y, NEW z, NEW base,
         Lists(h, S, i, <<x>> \o <<y, z>>, base)
  PROVE  Lists(h, S, Below(h, i, 1), <<y, z>>, base) /\ Below(h, i, 3) = base
<1> DEFINE T == {x, y, z}
<1>1. <<x>> \in Seq(T) /\ <<y, z>> \in Seq(T) /\ Len(<<x>>) = 1
  OBVIOUS
<1> HIDE DEF T
<1>2. Lists(h, S, Below(h, i, 1), <<y, z>>, base)
  BY <1>1, ListsSplit
<1>3. Below(h, i, 3) = Below(h, Below(h, i, 1), 2)
  BY BelowAdd, 1 \in Nat, 2 \in Nat, 1 + 2 = 3
<1> QED BY <1>2, <1>3, TwoBelow

LEMMA ArgsHeld ==
  ASSUME NEW h, NEW S, NEW i, NEW x, NEW y, NEW z, NEW T, NEW rest \in Seq(T), NEW base,
         Lists(h, S, i, <<x, y, z>> \o rest, base)
  PROVE  Lists(h, S, Below(h, i, 3), rest, base)
<1> DEFINE U == T \cup {x, y, z}
<1>1. <<x, y, z>> \in Seq(U) /\ rest \in Seq(U) /\ Len(<<x, y, z>>) = 3
  OBVIOUS
<1> HIDE DEF U
<1> QED BY <1>1, ListsSplit

LEMMA InitsHeld ==
  ASSUME NEW h, NEW S, NEW i, NEW x, NEW y, NEW z, NEW local, NEW env, NEW args, NEW base,
         Lists(h, S, i, <<x, y, z>> \o (<<local>> \o <<env, args>>), base)
  PROVE  /\ Lists(h, S, Below(h, i, 3), <<local>> \o <<env, args>>, base)
         /\ Below(h, i, 6) = base
<1> DEFINE T == {local, env, args}
<1>1. <<local>> \in Seq(T) /\ <<env, args>> \in Seq(T)
  OBVIOUS
<1> HIDE DEF T
<1>2. <<local>> \o <<env, args>> \in Seq(T)
  BY <1>1, ConcatProperties
<1>3. Lists(h, S, Below(h, i, 3), <<local>> \o <<env, args>>, base)
  BY <1>2, ArgsHeld
<1>4. 3 + 3 = 6 /\ 3 \in Nat
  OBVIOUS
<1>5. Below(h, i, 6) = Below(h, Below(h, i, 3), 3)
  BY <1>4, BelowAdd
<1> QED BY <1>3, <1>5, LetHeld
-----------------------------------------------------------------------------
(* The inductive invariant: each waiting activation has what it holds on   *)
(* its own stretch of the root stack, down to the head saved at its start, *)
(* and what it keeps can be reached from its arguments through cells that  *)
(* are never written; so too the innermost one, unless it is failing.      *)
Reaches(h, F, i, x) ==
  \A C : i \in C /\ (\A y \in C \cap F : References(h[y]) \subseteq C) => x \in C
Keeps(h, F, t) ==
  /\ t.wait.k \in {"idle", "nested"} => t.wait.kept = {}
  /\ \A x \in t.wait.kept : Reaches(h, F, t.args, x)
Good(h, F, t, top) == Lists(h, F, top, Held(t), t.saved) /\ Keeps(h, F, t)

IsStack == \E T : stack \in Seq(T)
CallersGood(h, F) == \A j \in 1 .. Depth - 1 : Good(h, F, stack[j], stack[j + 1].saved)
RootsInv ==
  /\ IsStack
  /\ CallersGood(heap, Unwritten)
  /\ Depth > 0 /\ out.k # "error" => Good(heap, Unwritten, Top, head)
  /\ Depth > 0 /\ out = Nothing => Top.wait = Idle

(* The stack as a sequence: what Callers is, and what it becomes with one  *)
(* or two activations more.                                                *)
LEMMA StackFacts ==
  ASSUME IsStack, Depth > 0
  PROVE  /\ Depth \in Nat /\ Callers \in Seq({stack[j] : j \in 1 .. Depth})
         /\ Len(Callers) = Depth - 1 /\ \A j \in 1 .. Depth - 1 : Callers[j] = stack[j]
<1>1. Depth \in Nat
  BY LenProperties DEF IsStack, Depth
<1> DEFINE T == {stack[j] : j \in 1 .. Depth}
<1>2. \A j \in 1 .. Depth - 1 : stack[j] \in T
  BY <1>1
<1> HIDE DEF T
<1>3. /\ Callers \in Seq(T)
      /\ Len(Callers) = IF 1 <= Depth - 1 THEN (Depth - 1) - 1 + 1 ELSE 0
      /\ \A j \in 1 .. (Depth - 1) - 1 + 1 : Callers[j] = stack[1 + j - 1]
  BY <1>1, <1>2, SubSeqProperties, 1 \in Int, Depth - 1 \in Int DEF Callers
<1>4. Len(Callers) = Depth - 1
  BY <1>1, <1>3
<1>5. \A j \in 1 .. Depth - 1 : Callers[j] = stack[j]
  BY <1>1, <1>3
<1> QED BY <1>1, <1>3, <1>4, <1>5 DEF T

LEMMA OneMore ==
  ASSUME IsStack, Depth > 0, NEW t
  PROVE  LET s == Callers \o <<t>> IN
         /\ \E T : s \in Seq(T)
         /\ Len(s) = Depth /\ s[Depth] = t
         /\ \A j \in 1 .. Depth - 1 : s[j] = stack[j]
<1> DEFINE T == {stack[j] : j \in 1 .. Depth} \cup {t}
           s == Callers \o <<t>>
<1>1. Callers \in Seq(T) /\ <<t>> \in Seq(T) /\ Len(<<t>>) = 1 /\ <<t>>[1] = t
  BY StackFacts
<1>2. Depth \in Nat /\ Len(Callers) = Depth - 1 /\ \A j \in 1 .. Depth - 1 : Callers[j] = stack[j]
  BY StackFacts
<1> HIDE DEF T
<1>3. s \in Seq(T) /\ Len(s) = (Depth - 1) + 1
      /\ \A j \in 1 .. (Depth - 1) + 1 : s[j] = IF j <= Depth - 1 THEN Callers[j] ELSE <<t>>[j - (Depth - 1)]
  BY <1>1, <1>2, ConcatProperties
<1>4. Len(s) = Depth /\ s[Depth] = t
  BY <1>1, <1>2, <1>3
<1>5. \A j \in 1 .. Depth - 1 : s[j] = stack[j]
  BY <1>2, <1>3
<1> QED BY <1>3, <1>4, <1>5

TwoOnTop(s, t, u) ==
  /\ \E T : s \in Seq(T)
  /\ Len(s) = Depth + 1 /\ s[Depth] = t /\ s[Depth + 1] = u
  /\ \A j \in 1 .. Depth - 1 : s[j] = stack[j]

LEMMA TwoMore ==
  ASSUME IsStack, Depth > 0, NEW t, NEW u
  PROVE  TwoOnTop(Callers \o <<t, u>>, t, u)
<1> DEFINE T == {stack[j] : j \in 1 .. Depth} \cup {t, u}
           s == Callers \o <<t, u>>
<1>1. Callers \in Seq(T) /\ <<t, u>> \in Seq(T) /\ Len(<<t, u>>) = 2
      /\ <<t, u>>[1] = t /\ <<t, u>>[2] = u
  BY StackFacts
<1>2. Depth \in Nat /\ Len(Callers) = Depth - 1 /\ \A j \in 1 .. Depth - 1 : Callers[j] = stack[j]
  BY StackFacts
<1> HIDE DEF T
<1>3. s \in Seq(T) /\ Len(s) = (Depth - 1) + 2
      /\ \A j \in 1 .. (Depth - 1) + 2 : s[j] = IF j <= Depth - 1 THEN Callers[j] ELSE <<t, u>>[j - (Depth - 1)]
  BY <1>1, <1>2, ConcatProperties
<1>4. Len(s) = Depth + 1 /\ s[Depth] = t /\ s[Depth + 1] = u
  <2>1. Depth - (Depth - 1) = 1 /\ (Depth + 1) - (Depth - 1) = 2 /\ (Depth - 1) + 2 = Depth + 1
    BY <1>2
  <2> QED BY <1>1, <1>2, <1>3, <2>1
<1>5. \A j \in 1 .. Depth - 1 : s[j] = stack[j]
  BY <1>2, <1>3
<1> QED BY <1>3, <1>4, <1>5 DEF TwoOnTop
-----------------------------------------------------------------------------
(* How the heap changes. *)
LEMMA ReachesKept ==
  ASSUME NEW h, NEW F, NEW h2, NEW F2, NEW i, NEW x, NEW G,
         \A y \in F \cap G : y \in F2 /\ h2[y] = h[y],
         i \in G, \A y \in F \cap G : References(h[y]) \subseteq G,
         Reaches(h, F, i, x)
  PROVE  Reaches(h2, F2, i, x) /\ x \in G
<1>1. x \in G
  BY DEF Reaches
<1>2. ASSUME NEW C, i \in C, \A y \in C \cap F2 : References(h2[y]) \subseteq C PROVE x \in C
  <2>1. \A y \in (C \cap G) \cap F : References(h[y]) \subseteq C \cap G
    BY <1>2
  <2> QED BY <1>2, <2>1 DEF Reaches
<1> QED BY <1>1, <1>2 DEF Reaches

LEMMA GoodCarried ==
  ASSUME Extends, NEW t, NEW top, Good(heap, Unwritten, t, top)
  PROVE  Good(heap', Unwritten', t, top)
<1>1. \A y \in Unwritten : y \in Unwritten' /\ y \in DOMAIN heap' /\ heap'[y] = heap[y]
  BY DEF Extends, Unwritten, New
<1>2. Lists(heap', Unwritten', top, Held(t), t.saved)
  BY <1>1, HeldLen, ListsKept DEF Good
<1>3. ASSUME NEW x \in t.wait.kept PROVE Reaches(heap', Unwritten', t.args, x)
  <2> DEFINE U == UNION {References(heap[y]) : y \in Unwritten}
             G == U \cup {t.args}
  <2>1. t.args \in G /\ \A y \in Unwritten \cap G : References(heap[y]) \subseteq G
    <3>1. ASSUME NEW y \in Unwritten, NEW z \in References(heap[y]) PROVE z \in U
      OBVIOUS
    <3> HIDE DEF U
    <3> QED BY <3>1
  <2>2. Reaches(heap, Unwritten, t.args, x)
    BY DEF Good, Keeps
  <2>3. \A y \in Unwritten \cap G : y \in Unwritten' /\ heap'[y] = heap[y]
    BY <1>1
  <2> HIDE DEF G
  <2> QED BY <2>1, <2>2, <2>3, ReachesKept
<1> QED BY <1>2, <1>3 DEF Good, Keeps

Live == {i \in DOMAIN heap : i \in DOMAIN heap' /\ heap'[i] = heap[i]}

(* What a collection has of an activation whose topmost node it reaches. *)
LEMMA GoodSpared ==
  ASSUME NEW roots, Collects(roots), NEW t, NEW top, Good(heap, Unwritten, t, top),
         Within(heap, Live, top)
  PROVE  /\ Good(heap', Unwritten', t, top)
         /\ Within(heap, Live, t.saved)
         /\ \A x \in Rooted(t) : Within(heap, Live, x)
<1>1. Closed(heap, Live)
  BY DEF Collects, Live, Closed
<1>2. \A y \in Unwritten \cap Live : y \in Unwritten' /\ y \in DOMAIN heap' /\ heap'[y] = heap[y]
  BY DEF Collects, Live, Unwritten
<1>3. /\ Lists(heap, Unwritten \cap Live, top, Held(t), t.saved)
      /\ \A n \in 1 .. Len(Held(t)) : Within(heap, Live, Held(t)[n])
      /\ Within(heap, Live, t.saved)
  BY <1>1, HeldLen, ListsWithin DEF Good
<1>4. Lists(heap', Unwritten', top, Held(t), t.saved)
  <2>1. \A x \in (Unwritten \cap Live) \cap DOMAIN heap :
          x \in Unwritten' /\ x \in DOMAIN heap' /\ heap'[x] = heap[x]
    BY <1>2
  <2> QED BY <1>3, <2>1, HeldLen, ListsKept
<1>5. t.wait.kept # {} => Within(heap, Live, t.args)
  BY <1>3, HeldArgs DEF Good, Keeps
<1>6. ASSUME NEW x \in t.wait.kept
      PROVE  Reaches(heap', Unwritten', t.args, x) /\ Within(heap, Live, x)
  <2> DEFINE G == {t.args, x} \cup UNION {References(heap[y]) : y \in DOMAIN heap}
             W == {y \in G : Within(heap, Live, y)}
  <2>1. t.args \in W
    BY <1>5
  <2>2. \A y \in Unwritten \cap W : y \in Live
    BY DEF Within, Unwritten
  <2>3. \A y \in Unwritten \cap W : References(heap[y]) \subseteq W
    BY <1>1, <2>2 DEF Closed, Within, Live
  <2>4. \A y \in Unwritten \cap W : y \in Unwritten' /\ heap'[y] = heap[y]
    BY <1>2, <2>2
  <2>5. Reaches(heap, Unwritten, t.args, x)
    BY DEF Good, Keeps
  <2> HIDE DEF W
  <2>6. Reaches(heap', Unwritten', t.args, x) /\ x \in W
    BY <2>1, <2>3, <2>4, <2>5, ReachesKept
  <2> QED BY <2>6 DEF W
<1>7. Good(heap', Unwritten', t, top)
  BY <1>4, <1>6 DEF Good, Keeps
<1>8. \A x \in Rooted(t) : Within(heap, Live, x)
  BY <1>3, <1>6, HeldLen DEF Rooted
<1> QED BY <1>3, <1>7, <1>8

(* So it spares what all the callers hold and keep, from the innermost of  *)
(* them outwards.                                                          *)
LEMMA CallersSpared ==
  ASSUME RootsInv, Depth > 0, NEW roots, Collects(roots), Within(heap, Live, Top.saved)
  PROVE  /\ CallersGood(heap', Unwritten')
         /\ \A j \in 1 .. Depth - 1 : \A x \in Rooted(stack[j]) : Within(heap, Live, x)
<1>1. Depth \in Nat
  BY StackFacts DEF RootsInv
<1> DEFINE Wrong == {k \in 0 .. Depth - 1 : ~Within(heap, Live, stack[Depth - k].saved)}
<1>2. ASSUME NEW j \in 1 .. Depth - 1, Within(heap, Live, stack[j + 1].saved)
      PROVE  /\ Good(heap', Unwritten', stack[j], stack[j + 1].saved)
             /\ Within(heap, Live, stack[j].saved)
             /\ \A x \in Rooted(stack[j]) : Within(heap, Live, x)
  <2>1. Good(heap, Unwritten, stack[j], stack[j + 1].saved)
    BY DEF RootsInv, CallersGood
  <2> QED BY <1>2, <2>1, GoodSpared
<1>3. 0 \notin Wrong
  BY <1>1 DEF Top
<1>4. ASSUME NEW k \in 1 .. Depth - 1, k-1 \notin Wrong PROVE k \notin Wrong
  <2>1. Depth - k \in 1 .. Depth - 1 /\ (Depth - k) + 1 = Depth - (k-1) /\ k-1 \in 0 .. Depth - 1
    BY <1>1
  <2> QED BY <1>2, <1>4, <2>1
<1> HIDE DEF Wrong
<1>5. Wrong = {}
  BY <1>1, <1>3, <1>4, FirstWrong, Depth - 1 \in Nat, Wrong \in SUBSET (0 .. Depth - 1) DEF Wrong
<1>6. ASSUME NEW j \in 1 .. Depth - 1 PROVE Within(heap, Live, stack[j + 1].saved)
  <2>1. Depth - (j + 1) \in 0 .. Depth - 1 /\ Depth - (Depth - (j + 1)) = j + 1
    BY <1>1
  <2> QED BY <1>5, <2>1 DEF Wrong
<1> QED BY <1>2, <1>6 DEF CallersGood

LEMMA CallersCarried ==
  ASSUME RootsInv, Extends
  PROVE  IsStack /\ CallersGood(heap', Unwritten')
BY GoodCarried DEF RootsInv, CallersGood
-----------------------------------------------------------------------------
(* How a step ends, once the heap has changed in one of these ways. *)
Bare(t) == t.wait = Idle

LEMMA BareGood ==
  ASSUME NEW h, NEW F, NEW t, Bare(t)
  PROVE  Good(h, F, t, t.saved)
<1>1. Held(t) = << >> /\ t.wait.kept = {}
  BY DEF Bare, Idle, Held
<1> QED BY <1>1, ListsNone DEF Good, Keeps

LEMMA AfterReturn ==
  ASSUME IsStack, Depth > 0, CallersGood(heap', Unwritten'), stack' = Callers,
         out'.k = "error" \/ (out'.k = "value" /\ head' = Top.saved)
  PROVE  RootsInv'
<1>1. /\ Depth \in Nat /\ Callers \in Seq({stack[j] : j \in 1 .. Depth})
      /\ Len(Callers) = Depth - 1 /\ \A j \in 1 .. Depth - 1 : Callers[j] = stack[j]
  BY StackFacts
<1>2. IsStack' /\ Depth' = Depth - 1 /\ \A j \in 1 .. Depth - 1 : stack'[j] = stack[j]
  BY <1>1 DEF IsStack, Depth
<1>3. CallersGood(heap, Unwritten)'
  <2>1. \A j \in 1 .. (Depth - 1) - 1 : j \in 1 .. Depth - 1 /\ j + 1 \in 1 .. Depth - 1
    BY <1>1
  <2> QED BY <1>2, <2>1 DEF CallersGood
<1>4. ASSUME Depth' > 0, out'.k # "error" PROVE Good(heap, Unwritten, Top, head)'
  <2>1. Depth - 1 \in 1 .. Depth - 1 /\ (Depth - 1) + 1 = Depth
    BY <1>1, <1>2, <1>4
  <2>2. Top' = stack[Depth - 1] /\ head' = stack[Depth].saved
    BY <1>2, <1>4, <2>1 DEF Top
  <2> QED BY <2>1, <2>2 DEF CallersGood
<1>5. out' # Nothing
  BY DEF Nothing
<1> QED BY <1>2, <1>3, <1>4, <1>5 DEF RootsInv

LEMMA AfterTop ==
  ASSUME IsStack, Depth > 0, CallersGood(heap', Unwritten'), NEW t, t.saved = Top.saved,
         stack' = Callers \o <<t>>,
         out'.k = "error" \/ (Bare(t) /\ head' = t.saved)
  PROVE  RootsInv'
<1>1. /\ \E T : stack' \in Seq(T)
      /\ Len(stack') = Depth /\ stack'[Depth] = t
      /\ \A j \in 1 .. Depth - 1 : stack'[j] = stack[j]
  BY OneMore
<1>2. Depth \in Nat
  BY StackFacts
<1>3. IsStack' /\ Depth' = Depth /\ Top' = t
  BY <1>1 DEF IsStack, Depth, Top
<1>4. CallersGood(heap, Unwritten)'
  <2>1. ASSUME NEW j \in 1 .. Depth - 1
        PROVE  stack'[j] = stack[j] /\ stack'[j + 1].saved = stack[j + 1].saved
    <3>1. CASE j + 1 = Depth
      BY <1>1, <3>1 DEF Top
    <3>2. CASE j + 1 \in 1 .. Depth - 1
      BY <1>1, <3>2
    <3>3. j + 1 = Depth \/ j + 1 \in 1 .. Depth - 1
      BY <1>2
    <3> QED BY <3>1, <3>2, <3>3
  <2> QED BY <1>3, <2>1 DEF CallersGood
<1>5. out'.k # "error" => Good(heap, Unwritten, Top, head)'
  BY <1>3, BareGood
<1>6. out' = Nothing => Top'.wait = Idle
  BY <1>3 DEF Nothing, Bare
<1> QED BY <1>3, <1>4, <1>5, <1>6 DEF RootsInv

LEMMA AfterCall ==
  ASSUME IsStack, Depth > 0, CallersGood(heap', Unwritten'), NEW t, NEW u, t.saved = Top.saved,
         Good(heap', Unwritten', t, head'), u.saved = head', Bare(u),
         stack' = Callers \o <<t, u>>
  PROVE  RootsInv'
<1>1. /\ \E T : stack' \in Seq(T)
      /\ Len(stack') = Depth + 1 /\ stack'[Depth] = t /\ stack'[Depth + 1] = u
      /\ \A j \in 1 .. Depth - 1 : stack'[j] = stack[j]
  <2>1. TwoOnTop(Callers \o <<t, u>>, t, u)
    BY TwoMore
  <2> QED BY <2>1 DEF TwoOnTop
<1>2. Depth \in Nat
  BY StackFacts
<1>3. IsStack' /\ Depth' = Depth + 1 /\ Top' = u
  BY <1>1 DEF IsStack, Depth, Top
<1>4. CallersGood(heap, Unwritten)'
  <2>1. ASSUME NEW j \in 1 .. Depth - 1
        PROVE  stack'[j] = stack[j] /\ stack'[j + 1].saved = stack[j + 1].saved
    <3>1. CASE j + 1 = Depth
      BY <1>1, <3>1 DEF Top
    <3>2. CASE j + 1 \in 1 .. Depth - 1
      BY <1>1, <3>2
    <3>3. j + 1 = Depth \/ j + 1 \in 1 .. Depth - 1
      BY <1>2
    <3> QED BY <3>1, <3>2, <3>3
  <2>2. (Depth + 1) - 1 = Depth /\ \A j \in 1 .. Depth : j \in 1 .. Depth - 1 \/ j = Depth
    BY <1>2
  <2> QED BY <1>1, <1>3, <2>1, <2>2 DEF CallersGood
<1>5. Good(heap, Unwritten, Top, head)'
  BY <1>3, BareGood
<1> QED BY <1>3, <1>4, <1>5 DEF RootsInv, Bare

LEMMA ReturnStep ==
  ASSUME RootsInv, Depth > 0, Extends, Returns, head' = Top.saved
  PROVE  RootsInv'
BY CallersCarried, AfterReturn DEF Returns

LEMMA TailStep ==
  ASSUME RootsInv, Depth > 0, Extends, TailCalls, head' = Top.saved
  PROVE  RootsInv'
<1>1. Bare(Entered) /\ Entered.saved = head'
  BY DEF Bare, Entered, Activation
<1> QED BY <1>1, CallersCarried, AfterTop DEF TailCalls

LEMMA LinkedReaches ==
  ASSUME NEW h, NEW F, NEW i, NEW S, \A y \in S : Reaches(h, F, i, y)
  PROVE  \A x \in Linked(h, F, S) : Reaches(h, F, i, x)
<1> SUFFICES ASSUME NEW y \in S \cap F, NEW x \in References(h[y]) PROVE Reaches(h, F, i, x)
  BY DEF Linked
<1> SUFFICES ASSUME NEW C, i \in C, \A z \in C \cap F : References(h[z]) \subseteq C PROVE x \in C
  BY DEF Reaches
<1>1. y \in C
  BY DEF Reaches
<1> QED BY <1>1

LEMMA NearReaches ==
  ASSUME NEW h, NEW F, NEW i, NEW S, \A y \in S : Reaches(h, F, i, y)
  PROVE  \A x \in Near(h, F, S) : Reaches(h, F, i, x)
BY LinkedReaches DEF Near

(* A step of an activation that then waits, what it has pushed by then     *)
(* being given.                                                            *)
LEMMA CallStep ==
  ASSUME RootsInv, Depth > 0, out.k # "error", Extends, NEW k, NEW a, CallsWith(k, a),
         a = Top.args \/ Top.wait.kept = {},
         k \notin {"idle", "nested"} \/ Waiting.kept = {},
         Lists(heap', Unwritten', head',
               Held(Activation(Top.expr, Top.env, a, Top.saved, Waiting)), Top.saved)
  PROVE  RootsInv'
<1> DEFINE t == Activation(Top.expr, Top.env, a, Top.saved, Waiting)
<1>1. t.saved = Top.saved /\ t.args = a /\ t.wait = Waiting
  BY DEF Activation
<1>2. Bare(Entered) /\ Entered.saved = head'
  BY DEF Bare, Entered, Activation
<1>3. Waiting.k = k /\ stack' = Callers \o <<t, Entered>>
      /\ Waiting.kept \subseteq Near(heap', Unwritten', {a} \cup Top.wait.kept)
  BY DEF CallsWith
<1>4. \A x \in Waiting.kept : Reaches(heap', Unwritten', a, x)
  <2>1. Good(heap', Unwritten', Top, head)
    BY GoodCarried DEF RootsInv
  <2>2. \A y \in {a} \cup Top.wait.kept : Reaches(heap', Unwritten', a, y)
    BY <2>1 DEF Good, Keeps, Reaches
  <2> QED BY <1>3, <2>2, NearReaches
<1>5. Good(heap', Unwritten', t, head')
  BY <1>1, <1>3, <1>4 DEF Good, Keeps
<1> HIDE DEF t
<1> QED BY <1>1, <1>2, <1>3, <1>5, CallersCarried, AfterCall
-----------------------------------------------------------------------------
(* What the innermost activation has on the root stack, and pops.          *)
LEMMA TopHolds ==
  ASSUME RootsInv, Depth > 0, out.k # "error"
  PROVE  Lists(heap, Unwritten, head, Held(Top), Top.saved)
BY DEF RootsInv, Good

LEMMA RunningHolds ==
  ASSUME RootsInv, Running
  PROVE  Depth > 0 /\ out.k # "error" /\ head = Top.saved /\ Top.wait.kept = {}
<1>1. Depth > 0 /\ out.k # "error" /\ Top.wait = Idle
  BY DEF RootsInv, Running, Nothing
<1>2. Held(Top) = << >> /\ Top.wait.kept = {}
  BY <1>1 DEF Held, Idle
<1> QED BY <1>1, <1>2, TopHolds, ListsNone

LEMMA NestedHolds ==
  ASSUME RootsInv, Awaiting("nested")
  PROVE  Depth > 0 /\ out.k # "error" /\ head = Top.saved
<1>1. Held(Top) = << >>
  BY DEF Held, Awaiting
<1> QED BY <1>1, TopHolds, ListsNone DEF Awaiting

LEMMA OperativeHolds ==
  ASSUME RootsInv, Awaiting("combiner") \/ Awaiting("operative")
  PROVE  /\ Depth > 0 /\ out.k # "error"
         /\ Lists(heap, Unwritten, head, <<Top.env, Top.args>>, Top.saved)
         /\ Below(heap, head, 2) = Top.saved
<1>1. Depth > 0 /\ out.k # "error" /\ Held(Top) = <<Top.env, Top.args>>
  BY DEF Held, Awaiting
<1> QED BY <1>1, TopHolds, TwoBelow

LEMMA LetHolds ==
  ASSUME RootsInv, Awaiting("let")
  PROVE  /\ Depth > 0 /\ out.k # "error"
         /\ Lists(heap, Unwritten, head, <<Top.wait.local>> \o <<Top.env, Top.args>>, Top.saved)
         /\ Below(heap, head, 3) = Top.saved
<1>1. Depth > 0 /\ out.k # "error" /\ Held(Top) = <<Top.wait.local>> \o <<Top.env, Top.args>>
  BY DEF Held, Awaiting
<1> QED BY <1>1, TopHolds, LetHeld

LEMMA ArgsHolds ==
  ASSUME RootsInv, Awaiting("args")
  PROVE  /\ Depth > 0 /\ out.k # "error"
         /\ Lists(heap, Unwritten, Below(heap, head, 3), <<Top.env, Top.args>>, Top.saved)
         /\ Below(heap, head, 5) = Top.saved
<1>1. /\ Depth > 0 /\ out.k # "error"
      /\ Held(Top) = <<Top.wait.cur, Top.env, Top.wait.done>> \o <<Top.env, Top.args>>
  BY DEF Held, Awaiting
<1>2. <<Top.env, Top.args>> \in Seq({Top.env, Top.args})
  OBVIOUS
<1>3. Lists(heap, Unwritten, Below(heap, head, 3), <<Top.env, Top.args>>, Top.saved)
  BY <1>1, <1>2, TopHolds, ArgsHeld
<1>4. Below(heap, head, 5) = Below(heap, Below(heap, head, 3), 2)
  BY BelowAdd, 3 \in Nat, 2 \in Nat, 3 + 2 = 5
<1> QED BY <1>1, <1>3, <1>4, TwoBelow

LEMMA InitsHold ==
  ASSUME RootsInv, Awaiting("named let")
  PROVE  /\ Depth > 0 /\ out.k # "error"
         /\ Lists(heap, Unwritten, Below(heap, head, 3),
                  <<Top.wait.local>> \o <<Top.env, Top.args>>, Top.saved)
         /\ Below(heap, head, 6) = Top.saved
<1>1. /\ Depth > 0 /\ out.k # "error"
      /\ Held(Top) = <<Top.wait.cur, Top.env, Top.wait.done>>
                      \o (<<Top.wait.local>> \o <<Top.env, Top.args>>)
  BY DEF Held, Awaiting
<1> QED BY <1>1, TopHolds, InitsHeld
-----------------------------------------------------------------------------
(* Pushing. *)
LEMMA ListsCarried ==
  ASSUME Extends, NEW i, NEW vals, Len(vals) \in Nat, NEW base,
         Lists(heap, Unwritten, i, vals, base)
  PROVE  Lists(heap', Unwritten', i, vals, base)
<1>1. \A y \in Unwritten \cap DOMAIN heap : y \in Unwritten' /\ y \in DOMAIN heap' /\ heap'[y] = heap[y]
  BY DEF Extends, Unwritten, New
<1> QED BY <1>1, ListsKept

LEMMA PushedIsListed ==
  ASSUME NEW vals, Len(vals) \in Nat, NEW base, Pushed(vals, base)
  PROVE  Lists(heap', Unwritten', head', vals, base)
<1>1. \A y \in (New \ mutable') \cap DOMAIN heap' : y \in Unwritten'
  BY DEF Unwritten
<1> QED BY <1>1, ListsKept DEF Pushed

LEMMA PushedOnto ==
  ASSUME Extends, NEW T, NEW u \in Seq(T), NEW v \in Seq(T), NEW b, NEW c,
         Pushed(u, b), Lists(heap, Unwritten, b, v, c)
  PROVE  Lists(heap', Unwritten', head', u \o v, c)
<1>1. Len(u) \in Nat /\ Len(v) \in Nat
  BY LenProperties
<1>2. Lists(heap', Unwritten', head', u, b)
  BY <1>1, PushedIsListed
<1>3. Lists(heap', Unwritten', b, v, c)
  BY <1>1, ListsCarried
<1> QED BY <1>2, <1>3, ListsJoin
-----------------------------------------------------------------------------
(* The invariant, step by step. *)
LEMMA EvalCombinationInv ==
  ASSUME RootsInv, EvalCombination
  PROVE  RootsInv'
<1> DEFINE a == stack'[Depth].args
<1>1. /\ Running /\ Extends /\ CallsWith("combiner", a) /\ Pushed(<<Top.env, a>>, head)
      /\ Waiting.k = "combiner"
  BY DEF EvalCombination, CallsWith
<1> HIDE DEF a
<1>2. Depth > 0 /\ out.k # "error" /\ head = Top.saved /\ Top.wait.kept = {}
  BY <1>1, RunningHolds
<1>3. Held(Activation(Top.expr, Top.env, a, Top.saved, Waiting)) = <<Top.env, a>>
  BY <1>1 DEF Held, Activation
<1>4. Len(<<Top.env, a>>) \in Nat
  OBVIOUS
<1>5. Lists(heap', Unwritten', head', <<Top.env, a>>, Top.saved)
  BY <1>1, <1>2, <1>4, PushedIsListed
<1> QED BY <1>1, <1>2, <1>3, <1>5, CallStep

(* Arguments pushed on what the activation holds already. *)
LEMMA ArgumentPushed ==
  ASSUME RootsInv, Depth > 0, out.k # "error", Extends, Calls("args"), NEW base,
         Pushed(Argument, base), Lists(heap, Unwritten, base, <<Top.env, Top.args>>, Top.saved)
  PROVE  RootsInv'
<1>1. CallsWith("args", Top.args) /\ Waiting.k = "args"
  BY DEF Calls, CallsWith
<1>2. Held(Activation(Top.expr, Top.env, Top.args, Top.saved, Waiting))
        = Argument \o <<Top.env, Top.args>>
  BY <1>1 DEF Held, Activation, Argument
<1> DEFINE T == {Waiting.cur, Top.env, Waiting.done, Top.args}
<1>3. Argument \in Seq(T) /\ <<Top.env, Top.args>> \in Seq(T)
  BY DEF Argument
<1> HIDE DEF T
<1>4. Lists(heap', Unwritten', head', Argument \o <<Top.env, Top.args>>, Top.saved)
  BY <1>3, PushedOnto
<1> QED BY <1>1, <1>2, <1>4, CallStep

(* A collection asked for by the program, its caller's head being restored *)
(* before.                                                                 *)
LEMMA CollectStep ==
  ASSUME RootsInv, Depth > 0, Collects({head'}), Returns, head' = Top.saved
  PROVE  RootsInv'
<1>1. Within(heap, Live, Top.saved)
  BY DEF Collects, Within, Live
<1> QED BY <1>1, CallersSpared, AfterReturn DEF RootsInv, Returns

LEMMA EvalArgsInv ==
  ASSUME RootsInv, Depth > 0, out.k # "error", NEW n, EvalArgs(n),
         Lists(heap, Unwritten, Below(heap, head, n), <<Top.env, Top.args>>, Top.saved),
         Below(heap, head, n + 2) = Top.saved
  PROVE  RootsInv'
<1>1. CASE Extends /\ Calls("args") /\ Pushed(Argument, Below(heap, head, n))
  BY <1>1, ArgumentPushed
<1>2. CASE Extends /\ Pop(n + 2) /\ Returns
  BY <1>2, ReturnStep DEF Pop
<1>3. CASE Extends /\ Pop(n + 2) /\ TailCalls
  BY <1>3, TailStep DEF Pop
<1>4. CASE Extends /\ Pop(n + 2) /\ Calls("nested") /\ Waiting.kept = {}
  <2>1. CallsWith("nested", Top.args) /\ Waiting.k = "nested" /\ head' = Top.saved
    BY <1>4 DEF Calls, CallsWith, Pop
  <2>2. Held(Activation(Top.expr, Top.env, Top.args, Top.saved, Waiting)) = << >>
    BY <2>1 DEF Held, Activation
  <2>3. Lists(heap', Unwritten', head', << >>, Top.saved)
    BY <2>1, ListsNone
  <2> QED BY <1>4, <2>1, <2>2, <2>3, CallStep
<1>5. CASE Collects({head'}) /\ Pop(n + 2) /\ Returns
  BY <1>5, CollectStep DEF Pop
<1> QED BY <1>1, <1>2, <1>3, <1>4, <1>5 DEF EvalArgs

LEMMA ApplyApplicativeInv ==
  ASSUME RootsInv, ApplyApplicative
  PROVE  RootsInv'
<1>1. Below(heap, head, 0) = head /\ 0 + 2 = 2
  BY BelowNone
<1> QED BY <1>1, OperativeHolds, EvalArgsInv DEF ApplyApplicative

LEMMA ArgEvaluatedInv ==
  ASSUME RootsInv, ArgEvaluated
  PROVE  RootsInv'
<1>1. 3 + 2 = 5
  OBVIOUS
<1> QED BY <1>1, ArgsHolds, EvalArgsInv DEF ArgEvaluated

LEMMA OperativeInv ==
  ASSUME RootsInv, Operative
  PROVE  RootsInv'
<1>1. /\ Depth > 0 /\ out.k # "error" /\ Extends
      /\ Lists(heap, Unwritten, head, <<Top.env, Top.args>>, Top.saved)
      /\ Below(heap, head, 2) = Top.saved
  BY OperativeHolds DEF Operative
<1>2. CASE Calls("operative") /\ head' = head
  <2>1. CallsWith("operative", Top.args) /\ Waiting.k = "operative"
    BY <1>2 DEF Calls, CallsWith
  <2>2. Held(Activation(Top.expr, Top.env, Top.args, Top.saved, Waiting)) = <<Top.env, Top.args>>
    BY <2>1 DEF Held, Activation
  <2>3. Len(<<Top.env, Top.args>>) \in Nat
    OBVIOUS
  <2>4. Lists(heap', Unwritten', head', <<Top.env, Top.args>>, Top.saved)
    BY <1>1, <1>2, <2>3, ListsCarried
  <2> QED BY <1>1, <2>1, <2>2, <2>4, CallStep
<1>3. CASE Pop(2) /\ Returns
  BY <1>1, <1>3, ReturnStep DEF Pop
<1>4. CASE Pop(2) /\ TailCalls
  BY <1>1, <1>4, TailStep DEF Pop
<1> QED BY <1>2, <1>3, <1>4 DEF Operative

LEMMA OpLetInv ==
  ASSUME RootsInv, OpLet
  PROVE  RootsInv'
<1>1. /\ Depth > 0 /\ out.k # "error" /\ Extends
      /\ Lists(heap, Unwritten, head, <<Top.env, Top.args>>, Top.saved)
      /\ Below(heap, head, 2) = Top.saved
  BY OperativeHolds DEF OpLet
<1>2. CASE Calls("let") /\ Pushed(<<Waiting.local>>, head)
  <2>1. CallsWith("let", Top.args) /\ Waiting.k = "let"
    BY <1>2 DEF Calls, CallsWith
  <2>2. Held(Activation(Top.expr, Top.env, Top.args, Top.saved, Waiting))
          = <<Waiting.local>> \o <<Top.env, Top.args>>
    BY <2>1 DEF Held, Activation
  <2> DEFINE T == {Waiting.local, Top.env, Top.args}
  <2>3. <<Waiting.local>> \in Seq(T) /\ <<Top.env, Top.args>> \in Seq(T)
    OBVIOUS
  <2> HIDE DEF T
  <2>4. Lists(heap', Unwritten', head', <<Waiting.local>> \o <<Top.env, Top.args>>, Top.saved)
    BY <1>1, <1>2, <2>3, PushedOnto
  <2> QED BY <1>1, <2>1, <2>2, <2>4, CallStep
<1>3. CASE Pop(2) /\ TailCalls
  BY <1>1, <1>3, TailStep DEF Pop
<1> QED BY <1>2, <1>3 DEF OpLet

LEMMA LetEvaluatedInv ==
  ASSUME RootsInv, LetEvaluated
  PROVE  RootsInv'
<1>1. /\ Depth > 0 /\ out.k # "error" /\ Extends
      /\ Lists(heap, Unwritten, head, <<Top.wait.local>> \o <<Top.env, Top.args>>, Top.saved)
      /\ Below(heap, head, 1 + 2) = Top.saved
  <2>1. 1 + 2 = 3
    OBVIOUS
  <2> QED BY <2>1, LetHolds DEF LetEvaluated
<1>2. CASE Calls("let") /\ Waiting.local = Top.wait.local /\ head' = head
  <2>1. CallsWith("let", Top.args) /\ Waiting.k = "let"
    BY <1>2 DEF Calls, CallsWith
  <2>2. Held(Activation(Top.expr, Top.env, Top.args, Top.saved, Waiting))
          = <<Top.wait.local>> \o <<Top.env, Top.args>>
    BY <1>2, <2>1 DEF Held, Activation
  <2>3. Len(<<Top.wait.local>> \o <<Top.env, Top.args>>) \in Nat
    BY <2>2, HeldLen
  <2>4. Lists(heap', Unwritten', head', <<Top.wait.local>> \o <<Top.env, Top.args>>, Top.saved)
    BY <1>1, <1>2, <2>3, ListsCarried
  <2> QED BY <1>1, <2>1, <2>2, <2>4, CallStep
<1>3. CASE Pop(1 + 2) /\ TailCalls
  BY <1>1, <1>3, TailStep DEF Pop
<1> QED BY <1>2, <1>3 DEF LetEvaluated

LEMMA OpNamedLetInv ==
  ASSUME RootsInv, OpNamedLet
  PROVE  RootsInv'
<1>1. /\ Depth > 0 /\ out.k # "error" /\ Extends
      /\ Lists(heap, Unwritten, head, <<Top.env, Top.args>>, Top.saved)
      /\ Below(heap, head, 2) = Top.saved
  BY OperativeHolds DEF OpNamedLet
<1>2. CASE Calls("named let") /\ Pushed(Argument \o <<Waiting.local>>, head)
  <2>1. CallsWith("named let", Top.args) /\ Waiting.k = "named let"
    BY <1>2 DEF Calls, CallsWith
  <2>2. Held(Activation(Top.expr, Top.env, Top.args, Top.saved, Waiting))
          = Argument \o (<<Waiting.local>> \o <<Top.env, Top.args>>)
    BY <2>1 DEF Held, Activation, Argument
  <2> DEFINE T == {Waiting.cur, Top.env, Waiting.done, Waiting.local, Top.args}
  <2>3. Argument \in Seq(T) /\ <<Waiting.local>> \in Seq(T) /\ <<Top.env, Top.args>> \in Seq(T)
    BY DEF Argument
  <2> HIDE DEF T
  <2>4. Argument \o <<Waiting.local>> \in Seq(T)
    BY <2>3, ConcatProperties
  <2>5. Lists(heap', Unwritten', head', (Argument \o <<Waiting.local>>) \o <<Top.env, Top.args>>,
              Top.saved)
    BY <1>1, <1>2, <2>3, <2>4, PushedOnto
  <2>6. (Argument \o <<Waiting.local>>) \o <<Top.env, Top.args>>
          = Argument \o (<<Waiting.local>> \o <<Top.env, Top.args>>)
    BY <2>3, ConcatAssociative
  <2> QED BY <1>1, <2>1, <2>2, <2>5, <2>6, CallStep
<1>3. CASE Pop(2) /\ TailCalls
  BY <1>1, <1>3, TailStep DEF Pop
<1> QED BY <1>2, <1>3 DEF OpNamedLet

LEMMA InitEvaluatedInv ==
  ASSUME RootsInv, InitEvaluated
  PROVE  RootsInv'
<1> DEFINE rest == <<Top.wait.local>> \o <<Top.env, Top.args>>
<1>1. /\ Depth > 0 /\ out.k # "error" /\ Extends
      /\ Lists(heap, Unwritten, Below(heap, head, 3), rest, Top.saved)
      /\ Below(heap, head, 3 + 1 + 2) = Top.saved
  <2>1. 3 + 1 + 2 = 6
    OBVIOUS
  <2> QED BY <2>1, InitsHold DEF InitEvaluated
<1>2. CASE Calls("named let") /\ Waiting.local = Top.wait.local
           /\ Pushed(Argument, Below(heap, head, 3))
  <2>1. CallsWith("named let", Top.args) /\ Waiting.k = "named let"
    BY <1>2 DEF Calls, CallsWith
  <2>2. Held(Activation(Top.expr, Top.env, Top.args, Top.saved, Waiting)) = Argument \o rest
    BY <1>2, <2>1 DEF Held, Activation, Argument
  <2> DEFINE T == {Waiting.cur, Top.env, Waiting.done, Top.wait.local, Top.args}
  <2>3. Argument \in Seq(T) /\ <<Top.wait.local>> \in Seq(T) /\ <<Top.env, Top.args>> \in Seq(T)
    BY DEF Argument
  <2> HIDE DEF T
  <2>4. rest \in Seq(T)
    BY <2>3, ConcatProperties
  <2> HIDE DEF rest
  <2>5. Lists(heap', Unwritten', head', Argument \o rest, Top.saved)
    BY <1>1, <1>2, <2>3, <2>4, PushedOnto
  <2> QED BY <1>1, <2>1, <2>2, <2>5, CallStep
<1>3. CASE Pop(3 + 1 + 2) /\ TailCalls
  BY <1>1, <1>3, TailStep DEF Pop
<1> QED BY <1>2, <1>3 DEF InitEvaluated

LEMMA NoStackInv ==
  ASSUME stack' = << >>
  PROVE  RootsInv'
<1>1. << >> \in Seq({}) /\ Len(<< >>) = 0
  OBVIOUS
<1>2. IsStack' /\ Depth' = 0
  BY <1>1 DEF IsStack, Depth
<1> QED BY <1>2 DEF RootsInv, CallersGood

LEMMA AfterError ==
  ASSUME RootsInv, Depth > 0, Extends, NEW t, t.saved = Top.saved,
         stack' = Callers \o <<t>>, out'.k = "error"
  PROVE  RootsInv'
<1>1. IsStack /\ CallersGood(heap', Unwritten')
  BY CallersCarried
<1>2. out'.k = "error" \/ (Bare(t) /\ head' = t.saved)
  OBVIOUS
<1> QED BY <1>1, <1>2, AfterTop

LEMMA RaiseInv ==
  ASSUME RootsInv, Raise
  PROVE  RootsInv'
<1>1. Depth > 0 /\ Extends /\ out'.k = "error"
  BY DEF Raise
<1>2. CASE stack' = Callers \o <<Activation(Top.expr, NextTop.env, Top.args, Top.saved, NextTop.wait)>>
  <2> DEFINE t == Activation(Top.expr, NextTop.env, Top.args, Top.saved, NextTop.wait)
  <2>1. t.saved = Top.saved
    BY DEF Activation
  <2> HIDE DEF t
  <2>2. stack' = Callers \o <<t>>
    BY <1>2 DEF t
  <2> QED BY <1>1, <2>1, <2>2, AfterError
<1>3. CASE stack' = << >>
  BY <1>3, NoStackInv
<1> QED BY <1>2, <1>3 DEF Raise

LEMMA SameHeap ==
  ASSUME heap' = heap, mutable' \subseteq mutable
  PROVE  Extends
BY DEF Extends, New

LEMMA UnwindInv ==
  ASSUME RootsInv, Unwind
  PROVE  RootsInv'
<1> DEFINE t == Activation(Top.expr, Top.env, Top.args, Top.saved, Idle)
<1>1. t.saved = Top.saved
  BY DEF Activation
<1>2. Depth > 0 /\ Extends /\ out'.k = "error" /\ stack' = Callers \o <<t>>
  BY SameHeap DEF Unwind
<1> HIDE DEF t
<1> QED BY <1>1, <1>2, AfterError

LEMMA RestoredReached ==
  ASSUME RootsInv, HandleOutOfMemory
  PROVE  Depth > 0 /\ Collects({head', Top.expr, Top.env}) /\ Within(heap, Live, Top.saved)
<1>1. Depth > 0 /\ head' = Top.saved /\ Collects({head', Top.expr, Top.env})
  BY DEF HandleOutOfMemory
<1>2. Within(heap, Live, head')
  BY <1>1 DEF Collects, Within, Live
<1> QED BY <1>1, <1>2

LEMMA HandleOutOfMemoryInv ==
  ASSUME RootsInv, HandleOutOfMemory
  PROVE  RootsInv'
<1>1. Depth > 0 /\ CallersGood(heap', Unwritten') /\ IsStack
  BY RestoredReached, CallersSpared DEF RootsInv
<1>2. CASE stack' = Callers /\ UNCHANGED out
  <2>1. out'.k = "error"
    BY <1>2 DEF HandleOutOfMemory
  <2>2. out'.k = "error" \/ (out'.k = "value" /\ head' = Top.saved)
    BY <2>1
  <2> QED BY <1>1, <1>2, <2>2, AfterReturn
<1>3. CASE out' = Nothing /\ UNCHANGED stack
  <2>1. Top' = Top /\ Depth' = Depth /\ IsStack' /\ Top.wait = Idle /\ head' = Top.saved
    BY <1>1, <1>3 DEF HandleOutOfMemory, Top, Depth, IsStack
  <2>2. Good(heap', Unwritten', Top, head')
    BY <2>1, BareGood DEF Bare
  <2>3. CallersGood(heap, Unwritten)'
    BY <1>1, <1>3, <2>1 DEF CallersGood
  <2> QED BY <2>1, <2>2, <2>3 DEF RootsInv
<1> QED BY <1>2, <1>3 DEF HandleOutOfMemory

LEMMA PropagateErrorInv ==
  ASSUME RootsInv, PropagateError
  PROVE  RootsInv'
<1>1. Depth > 0 /\ Extends /\ out'.k = "error" /\ stack' = Callers
  BY SameHeap DEF PropagateError
<1> QED BY <1>1, CallersCarried, AfterReturn

LEMMA ReadInputInv ==
  ASSUME RootsInv, ReadInput
  PROVE  RootsInv'
<1>1. Depth = 0 /\ IsStack
  BY DEF ReadInput, RootsInv
<1>2. CASE stack' = <<Entered>>
  <2>1. Bare(Entered) /\ Entered.saved = head'
    BY DEF Bare, Entered, Activation
  <2> HIDE DEF Entered
  <2>2. <<Entered>> \in Seq({Entered}) /\ Len(<<Entered>>) = 1 /\ <<Entered>>[1] = Entered
    OBVIOUS
  <2>3. IsStack' /\ Depth' = 1 /\ Top' = Entered
    BY <1>2, <2>2 DEF IsStack, Depth, Top
  <2>4. Good(heap, Unwritten, Top, head)'
    BY <2>1, <2>3, BareGood
  <2> QED BY <2>1, <2>3, <2>4 DEF RootsInv, CallersGood, Bare
<1>3. CASE UNCHANGED stack
  <2>1. Depth' = 0 /\ IsStack'
    BY <1>1, <1>3 DEF Depth, IsStack
  <2> QED BY <2>1 DEF RootsInv, CallersGood
<1> QED BY <1>2, <1>3 DEF ReadInput

LEMMA AnswerInv ==
  ASSUME RootsInv, Answer
  PROVE  RootsInv'
<1>1. Depth' = 0 /\ IsStack'
  BY DEF Answer, RootsInv, Depth, IsStack
<1> QED BY <1>1 DEF RootsInv, CallersGood
-----------------------------------------------------------------------------
(* No step of another activation takes what a caller has rooted. *)
LEMMA ExtensionSpares ==
  ASSUME Extends, NEW S
  PROVE  Survive(S)
BY DEF Extends, Survive

LEMMA CollectionSpares ==
  ASSUME RootsInv, Depth > 0, NEW roots, Collects(roots), Within(heap, Live, Top.saved),
         NEW j \in 1 .. Depth - 1
  PROVE  Survive(Rooted(stack[j]))
<1>1. \A x \in Rooted(stack[j]) : Within(heap, Live, x)
  BY CallersSpared
<1> QED BY <1>1 DEF Survive, Within, Live

LEMMA CollectedArguments ==
  ASSUME RootsInv, Depth > 0, NEW n, Below(heap, head, n + 2) = Top.saved, EvalArgs(n),
         NEW j \in 1 .. Depth - 1
  PROVE  Survive(Rooted(stack[j]))
<1>1. CASE Extends
  BY <1>1, ExtensionSpares
<1>2. CASE Collects({head'}) /\ Pop(n + 2)
  <2>1. head' = Top.saved
    BY <1>2 DEF Pop
  <2>2. Within(heap, Live, Top.saved)
    BY <1>2, <2>1 DEF Collects, Within, Live
  <2> QED BY <1>2, <2>2, CollectionSpares
<1> QED BY <1>1, <1>2 DEF EvalArgs

LEMMA StepSpares ==
  ASSUME RootsInv, RootsNext, NEW j \in 1 .. Depth - 1
  PROVE  Survive(Rooted(stack[j]))
<1>1. CASE Extends
  BY <1>1, ExtensionSpares
<1>2. CASE ApplyApplicative
  <2>1. Below(heap, head, 0 + 2) = Top.saved /\ Depth > 0 /\ EvalArgs(0)
    <3>1. 0 + 2 = 2
      OBVIOUS
    <3> QED BY <1>2, <3>1, OperativeHolds DEF ApplyApplicative
  <2> QED BY <2>1, CollectedArguments
<1>3. CASE ArgEvaluated
  <2>1. Below(heap, head, 3 + 2) = Top.saved /\ Depth > 0 /\ EvalArgs(3)
    <3>1. 3 + 2 = 5
      OBVIOUS
    <3> QED BY <1>3, <3>1, ArgsHolds DEF ArgEvaluated
  <2> QED BY <2>1, CollectedArguments
<1>4. CASE HandleOutOfMemory
  BY <1>4, RestoredReached, CollectionSpares
<1>5. CASE Unwind \/ PropagateError \/ Answer
  <2>1. heap' = heap /\ mutable' \subseteq mutable
    BY <1>5 DEF Unwind, PropagateError, Answer
  <2> QED BY <2>1, SameHeap, ExtensionSpares
<1>6. Extends \/ ApplyApplicative \/ ArgEvaluated \/ HandleOutOfMemory
      \/ (Unwind \/ PropagateError \/ Answer)
  BY DEF RootsNext, EvalAtom, EvalCombination, ApplyOperative, NestedEvaluated, Operative, OpLet,
         LetEvaluated, OpNamedLet, InitEvaluated, Raise, ReadInput
<1> QED BY <1>1, <1>2, <1>3, <1>4, <1>5, <1>6
-----------------------------------------------------------------------------
LEMMA InitInv == RootsInit => RootsInv
<1> SUFFICES ASSUME RootsInit PROVE RootsInv
  OBVIOUS
<1>1. << >> \in Seq({}) /\ Len(<< >>) = 0
  OBVIOUS
<1>2. IsStack /\ Depth = 0
  BY <1>1 DEF RootsInit, IsStack, Depth
<1> QED BY <1>2 DEF RootsInv, CallersGood

LEMMA NextInv == RootsInv /\ [RootsNext]_rootsvars => RootsInv'
<1> SUFFICES ASSUME RootsInv, [RootsNext]_rootsvars PROVE RootsInv'
  OBVIOUS
<1>1. CASE EvalAtom
  BY <1>1, RunningHolds, ReturnStep DEF EvalAtom
<1>2. CASE EvalCombination
  BY <1>2, EvalCombinationInv
<1>3. CASE ApplyOperative
  BY <1>3, OperativeHolds, TailStep DEF ApplyOperative, Pop
<1>4. CASE ApplyApplicative
  BY <1>4, ApplyApplicativeInv
<1>5. CASE ArgEvaluated
  BY <1>5, ArgEvaluatedInv
<1>6. CASE NestedEvaluated
  BY <1>6, NestedHolds, ReturnStep DEF NestedEvaluated
<1>7. CASE Operative
  BY <1>7, OperativeInv
<1>8. CASE OpLet
  BY <1>8, OpLetInv
<1>9. CASE LetEvaluated
  BY <1>9, LetEvaluatedInv
<1>10. CASE OpNamedLet
  BY <1>10, OpNamedLetInv
<1>11. CASE InitEvaluated
  BY <1>11, InitEvaluatedInv
<1>12. CASE Raise
  BY <1>12, RaiseInv
<1>13. CASE Unwind
  BY <1>13, UnwindInv
<1>14. CASE HandleOutOfMemory
  BY <1>14, HandleOutOfMemoryInv
<1>15. CASE PropagateError
  BY <1>15, PropagateErrorInv
<1>16. CASE ReadInput
  BY <1>16, ReadInputInv
<1>17. CASE Answer
  BY <1>17, AnswerInv
<1>18. CASE UNCHANGED rootsvars
  <2>1. UNCHANGED <<heap, head, mutable, stack, out>>
    BY <1>18 DEF rootsvars
  <2>2. Depth' = Depth /\ Top' = Top /\ Unwritten' = Unwritten /\ IsStack' = IsStack
    BY <2>1 DEF Depth, Top, Unwritten, IsStack
  <2> QED BY <2>1, <2>2 DEF RootsInv, CallersGood
<1> QED BY <1>1, <1>2, <1>3, <1>4, <1>5, <1>6, <1>7, <1>8, <1>9, <1>10, <1>11, <1>12, <1>13,
           <1>14, <1>15, <1>16, <1>17, <1>18 DEF RootsNext

LEMMA InvHolds == RootsSpec => []RootsInv
BY InitInv, NextInv, PTL DEF RootsSpec

LEMMA InvDiscipline == RootsInv => RootDiscipline
<1> SUFFICES ASSUME RootsInv, NEW j \in DOMAIN stack, ~(j = Depth /\ out.k = "error")
             PROVE  Lists(heap, Unwritten, Above(j), Held(stack[j]), stack[j].saved)
  BY DEF RootDiscipline
<1>1. Depth \in Nat /\ DOMAIN stack = 1 .. Depth
  BY LenProperties DEF RootsInv, IsStack, Depth
<1>2. CASE j = Depth
  BY <1>1, <1>2, TopHolds DEF Above, Top
<1>3. CASE j # Depth
  <2>1. j \in 1 .. Depth - 1
    BY <1>1, <1>3
  <2> QED BY <1>3, <2>1 DEF Above, RootsInv, CallersGood, Good
<1> QED BY <1>2, <1>3

(* Whatever is evaluated, collected, refused and retried, every activation *)
(* has on the root stack exactly what eval.rs has pushed for it by then.   *)
THEOREM RootsBalance == RootsSpec => []RootDiscipline
BY InvHolds, InvDiscipline, PTL

(* Whatever is evaluated, collected, refused and retried, no step takes    *)
(* from a waiting activation what it has rooted and will read, or rewrites *)
(* it, environments apart.                                                 *)
THEOREM RootedDataSurvives == RootsSpec => RootedSurvives
<1>1. RootsInv /\ [RootsNext]_rootsvars
        => [\A j \in 1 .. Depth - 1 : j <= Len(stack') => Survive(Rooted(stack[j]))]_rootsvars
  BY StepSpares
<1> QED BY <1>1, InvHolds, PTL DEF RootsSpec, RootedSurvives
=============================================================================
