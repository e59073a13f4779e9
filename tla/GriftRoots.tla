----------------------------- MODULE GriftRoots ---------------------------
(***************************************************************************)
(* What the evaluator owes the collector: the discipline of the root       *)
(* stack.  This machine has the heap, the root stack in it and the nested  *)
(* calls of eval_expr, and makes the pushes and pops of eval.rs, counted   *)
(* as there.  It leaves open what is evaluated, which cells a step makes   *)
(* and which of those that may be rewritten it rewrites, and what garbage  *)
(* a collection takes.  What a step leaves open is read off the state      *)
(* after it.                                                               *)
(***************************************************************************)
EXTENDS GriftCells, Integers, Sequences

VARIABLES heap,      \* the occupied cells, GC_ROOTS apart
          head,      \* gc_roots_head: the topmost node of the root stack
          mutable,   \* the cells that may be rewritten after the step that made
                     \* them: environments, bindings, argument lists not yet turned
          stack,     \* activations of eval_expr
          out        \* what the call that ended last returned, if not yet taken

rootsvars == <<heap, head, mutable, stack, out>>

Nothing == [k |-> "none", v |-> "nil"]

(* An activation waits in w for a nested call.  Besides its arguments and  *)
(* environment it then needs the local environment of a let, the rest of   *)
(* the arguments (cur) and the values of those before (done), and parts of *)
(* its arguments that it keeps in variables (kept).                        *)
Idle == [k |-> "idle", local |-> "nil", cur |-> "nil", done |-> "nil", kept |-> {}]
Activation(e, v, a, i, w) == [expr |-> e, env |-> v, args |-> a, saved |-> i, wait |-> w]

Depth   == Len(stack)
Top     == stack[Depth]
Callers == SubSeq(stack, 1, Depth - 1)

(* What the code has pushed for an activation by the time it waits,        *)
(* topmost first.                                                          *)
Held(t) ==
  LET w == t.wait IN
  CASE w.k \in {"idle", "nested"} -> << >>
    [] w.k = "let"       -> <<w.local>> \o <<t.env, t.args>>
    [] w.k = "args"      -> <<w.cur, t.env, w.done>> \o <<t.env, t.args>>
    [] w.k = "named let" -> <<w.cur, t.env, w.done>> \o (<<w.local>> \o <<t.env, t.args>>)
    [] OTHER             -> <<t.env, t.args>>

(* What it will read when the call returns. *)
Rooted(t) == {Held(t)[n] : n \in DOMAIN Held(t)} \cup t.wait.kept
-----------------------------------------------------------------------------
(* The root stack in the heap h: the node below i, if i is a node; what n  *)
(* pops make of the topmost node i; and whether the nodes from i down to   *)
(* "base" hold vals and are among S.                                       *)
Rest(h, i) == IF i \in DOMAIN h /\ h[i].kind = "Cons" THEN h[i].d ELSE i
Below(h, i, n) ==
  LET node[k \in 0 .. n] == IF k = 0 THEN i ELSE Rest(h, node[k - 1])
  IN  node[n]
Lists(h, S, i, vals, base) ==
  /\ \A n \in 1 .. Len(vals) : LET node == Below(h, i, n - 1) IN
       node \in S /\ node \in DOMAIN h /\ h[node].kind = "Cons" /\ h[node].a = vals[n]
  /\ Below(h, i, Len(vals)) = base

New == DOMAIN heap' \ DOMAIN heap
Pop(n)             == head' = Below(heap, head, n)
Pushed(vals, base) == Lists(heap', New \ mutable', head', vals, base)

(* A step allocates and rewrites, but frees nothing; or a collection frees *)
(* what it does not reach from the roots.                                  *)
Extends ==
  /\ DOMAIN heap \subseteq DOMAIN heap'
  /\ \A i \in DOMAIN heap \ mutable : heap'[i] = heap[i]
  /\ mutable' \subseteq mutable \cup New

Collects(roots) ==
  LET live == {i \in DOMAIN heap : i \in DOMAIN heap' /\ heap'[i] = heap[i]}
  IN  /\ (roots \cup {"global"}) \cap DOMAIN heap \subseteq live
      /\ \A i \in live : References(heap[i]) \cap DOMAIN heap \subseteq live
      /\ mutable' \subseteq mutable \cup (DOMAIN heap' \ live)

(* The indices at most three links from those of S in the heap h, all in   *)
(* cells of F.                                                             *)
Linked(h, F, S) == S \cup UNION {References(h[i]) : i \in S \cap F}
Near(h, F, S)   == Linked(h, F, Linked(h, F, Linked(h, F, S)))
Unwritten       == DOMAIN heap \ mutable    \* cells never written again
-----------------------------------------------------------------------------
(* How a step of the innermost activation ends: it waits for a call of     *)
(* eval_expr, returns, or goes on with another expression, at the head of  *)
(* the loop.                                                               *)
NextTop == stack'[Len(stack')]
Waiting == stack'[Depth].wait
Entered == Activation(NextTop.expr, NextTop.env, "nil", head', Idle)

CallsWith(k, a) ==
  /\ Len(stack') = Depth + 1
  /\ Waiting.k = k
  /\ Waiting.kept \subseteq Near(heap', Unwritten', {a} \cup Top.wait.kept)
  /\ stack' = Callers \o <<Activation(Top.expr, Top.env, a, Top.saved, Waiting), Entered>>
  /\ out' = Nothing
Calls(k)  == CallsWith(k, Top.args)
Returns   == stack' = Callers /\ out'.k = "value"
TailCalls == Len(stack') = Depth /\ stack' = Callers \o <<Entered>> /\ out' = Nothing

Running     == Depth > 0 /\ out = Nothing
Awaiting(k) == Depth > 0 /\ out.k = "value" /\ Top.wait.k = k

(* eval_step, up to the evaluation of the combiner. *)
EvalAtom == Running /\ Extends /\ head' = head /\ Returns

EvalCombination ==
  /\ Running
  /\ Extends
  /\ CallsWith("combiner", stack'[Depth].args)
  /\ Pushed(<<Top.env, stack'[Depth].args>>, head)

ApplyOperative == Awaiting("combiner") /\ Extends /\ Pop(2) /\ TailCalls

(* eval_args, n of whose roots have to be popped.  It pushes three for the *)
(* next argument, or is done: then eval_step pushes the list of the values *)
(* and pops that and its own two.  The builtin gc-collect may be what is   *)
(* applied.                                                                *)
Argument == <<Waiting.cur, Top.env, Waiting.done>>
EvalArgs(n) ==
  \/ Extends /\ Calls("args") /\ Pushed(Argument, Below(heap, head, n))
  \/ Extends /\ Pop(n + 2) /\ (Returns \/ TailCalls \/ (Calls("nested") /\ Waiting.kept = {}))
  \/ Collects({head'}) /\ Pop(n + 2) /\ Returns

ApplyApplicative == Awaiting("combiner") /\ EvalArgs(0)
ArgEvaluated     == Awaiting("args") /\ EvalArgs(3)
NestedEvaluated  == Awaiting("nested") /\ Extends /\ head' = head /\ Returns
-----------------------------------------------------------------------------
(* The builtin operatives.  Those but let push nothing; eval_step pops its *)
(* two roots when they end.                                                *)
Operative ==
  /\ Awaiting("combiner") \/ Awaiting("operative")
  /\ Extends
  /\ \/ Calls("operative") /\ head' = head
     \/ Pop(2) /\ (Returns \/ TailCalls)

(* Regular let holds the local environment while it evaluates the values   *)
(* to be bound.                                                            *)
OpLet ==
  /\ Awaiting("combiner")
  /\ Extends
  /\ \/ Calls("let") /\ Pushed(<<Waiting.local>>, head)
     \/ Pop(2) /\ TailCalls

LetEvaluated ==
  /\ Awaiting("let")
  /\ Extends
  /\ \/ Calls("let") /\ Waiting.local = Top.wait.local /\ head' = head
     \/ Pop(1 + 2) /\ TailCalls

(* Named let pushes the local environment and has eval_args evaluate the   *)
(* initial values, whose list it pushes too, and pops with the             *)
(* environment.                                                            *)
OpNamedLet ==
  /\ Awaiting("combiner")
  /\ Extends
  /\ \/ Calls("named let") /\ Pushed(Argument \o <<Waiting.local>>, head)
     \/ Pop(2) /\ TailCalls

InitEvaluated ==
  /\ Awaiting("named let")
  /\ Extends
  /\ \/ /\ Calls("named let")
        /\ Waiting.local = Top.wait.local
        /\ Pushed(Argument, Below(heap, head, 3))
     \/ Pop(3 + 1 + 2) /\ TailCalls
-----------------------------------------------------------------------------
(* Errors.  A step can fail anywhere, between any two pushes and pops, and *)
(* leaves the root stack as it is by then; let may have gone over to the   *)
(* local environment already.  A panic ends the session.                   *)
Raise ==
  /\ Depth > 0 /\ out.k # "error"
  /\ Extends
  /\ out'.k = "error"
  /\ \/ /\ Len(stack') = Depth
        /\ NextTop.env # Top.env => Top.wait.k \in {"combiner", "let"}
        /\ stack' = Callers \o <<Activation(Top.expr, NextTop.env, Top.args, Top.saved,
                                            NextTop.wait)>>
     \/ stack' = << >>

(* The error leaves the function that waited for the call; eval_step pops  *)
(* its two roots on the way, if the function is a builtin operative.       *)
Unwind ==
  /\ Depth > 0 /\ out.k = "error"
  /\ Top.wait # Idle
  /\ head' = head \/ Pop(2)
  /\ mutable' \subseteq mutable
  /\ stack' = Callers \o <<Activation(Top.expr, Top.env, Top.args, Top.saved, Idle)>>
  /\ UNCHANGED <<heap, out>>

(* eval_expr on OutOfMemory: the root stack is restored, the heap          *)
(* collected, and the step tried again unless that freed nothing.          *)
HandleOutOfMemory ==
  /\ Depth > 0 /\ out = [k |-> "error", v |-> "OutOfMemory"]
  /\ Top.wait = Idle
  /\ head' = Top.saved
  /\ Collects({head', Top.expr, Top.env})
  /\ DOMAIN heap' \subseteq DOMAIN heap
  /\ IF DOMAIN heap' = DOMAIN heap
     THEN stack' = Callers /\ UNCHANGED out
     ELSE out' = Nothing /\ UNCHANGED stack

PropagateError ==
  /\ Depth > 0 /\ out.k = "error" /\ out.v # "OutOfMemory"
  /\ Top.wait = Idle
  /\ mutable' \subseteq mutable
  /\ stack' = Callers
  /\ UNCHANGED <<heap, head, out>>

(* eval_to_index, whose parser may fail. *)
ReadInput ==
  /\ Depth = 0 /\ out = Nothing
  /\ Extends
  /\ head' = head
  /\ \/ Len(stack') = 1 /\ stack' = <<Entered>> /\ UNCHANGED out
     \/ out'.k = "error" /\ UNCHANGED stack

Answer ==
  /\ Depth = 0 /\ out # Nothing
  /\ out' = Nothing
  /\ UNCHANGED <<heap, head, mutable, stack>>

RootsInit ==
  /\ heap = [i \in {"global"} |-> Environ("nil", "global-parents")]
  /\ head = "nil"
  /\ mutable = {"global"}
  /\ stack = << >>
  /\ out = Nothing

RootsNext ==
  \/ EvalAtom \/ EvalCombination \/ ApplyOperative \/ ApplyApplicative \/ ArgEvaluated
  \/ NestedEvaluated \/ Operative \/ OpLet \/ LetEvaluated \/ OpNamedLet \/ InitEvaluated
  \/ Raise \/ Unwind \/ HandleOutOfMemory \/ PropagateError \/ ReadInput \/ Answer

RootsSpec == RootsInit /\ [][RootsNext]_rootsvars
-----------------------------------------------------------------------------
(* Every activation has on the root stack exactly what the code has pushed *)
(* by then, in nodes that nothing else writes, its callee having popped    *)
(* what it pushed, also when the callee ran out of memory halfway and was  *)
(* retried: eval.rs counts its pushes and pops by hand.  Only an           *)
(* activation that is failing itself may have more or less.                *)
Above(j) == IF j = Depth THEN head ELSE stack[j + 1].saved
RootDiscipline ==
  \A j \in DOMAIN stack :
    \/ j = Depth /\ out.k = "error"
    \/ Lists(heap, Unwritten, Above(j), Held(stack[j]), stack[j].saved)

(* No collection, at whatever depth of the evaluation it happens, takes    *)
(* from a waiting activation what it has rooted and will read, and no step *)
(* of another activation rewrites that, environments apart.                *)
Survive(S) == \A i \in S \cap DOMAIN heap :
                i \in DOMAIN heap' /\ (i \in mutable \/ heap'[i] = heap[i])
RootedSurvives ==
  [][\A j \in 1 .. Depth - 1 : j <= Len(stack') => Survive(Rooted(stack[j]))]_rootsvars
=============================================================================
