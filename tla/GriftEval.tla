----------------------------- MODULE GriftEval ----------------------------
(***************************************************************************)
(* The evaluator of grift: eval_expr, its trampoline eval_step, and the    *)
(* functions of eval.rs that wait for a recursive eval_expr.  The Rust     *)
(* call stack is "stack", one activation record per eval_expr in progress, *)
(* innermost last; the local variables an activation holds across the call *)
(* it waits for are in its "wait".  Between two such calls the code runs   *)
(* as one step; collections happen only in HandleOutOfMemory and in the    *)
(* gc-collect builtin.                                                     *)
(***************************************************************************)
EXTENDS GriftBuiltins

CONSTANTS Sessions,    \* sequences of inputs, each a syntax tree
          Capacities,  \* numbers of slots left to a session
          Files,       \* the files that can be opened, by name (see ParseAll)
          MaxStreams   \* how many files can be open at once

VARIABLES mem,    \* the occupied slots
          free,   \* the free list
          open,   \* the number of files open
          session, pos,   \* the inputs, and which of them is in progress
          stack,  \* activations of eval_expr
          out,    \* what the call that ended last returned, if not yet taken
          turn    \* changes with every step; no part of the program (see FairSpec)

vars == <<mem, free, open, session, pos, stack, out, turn>>
input == <<session, pos>>

Nothing  == [k |-> "none", v |-> "nil"]
Value(i) == [k |-> "value", v |-> i]
Error(e) == [k |-> "error", v |-> e]

Now == [mem |-> mem, free |-> free, open |-> open, rest |-> Unoccupied,
        val |-> "nil", env |-> "nil", err |-> "ok"]

(* "saved" is saved_gc_roots, read at the head of the loop; "args" is the  *)
(* cdr of the combination being evaluated.                                 *)
Idle        == [k |-> "idle"]
InOperative == [k |-> "operative"]
Activation(m, e, v) == [expr |-> e, env |-> v, args |-> "nil", saved |-> RootsHead(m),
                        wait |-> Idle]

Depth == Len(stack)
Top   == stack[Depth]

Init == /\ \E c \in Capacities : free = SubSeq(Slots, 1, c)
        /\ mem = FreshMem
        /\ open = 0
        /\ session \in Sessions
        /\ pos = 1
        /\ stack = << >>
        /\ out = Nothing
        /\ turn = FALSE
-----------------------------------------------------------------------------
Tick == turn' = ~turn

(* How a step of the innermost activation ends: with "stk" and "o", or, if *)
(* m erred, by an error that finds the activation waiting in w.  A panic   *)
(* is no error of the program's: it ends the session.  What is             *)
(* returned, or evaluated next in the environment v, is m.val.             *)
Move(m, w, stk, o) ==
  /\ mem' = m.mem /\ free' = m.free /\ open' = m.open
  /\ UNCHANGED input /\ Tick
  /\ IF m.err = "panic" THEN stack' = << >> /\ out' = Error("panic")
     ELSE IF Failed(m) THEN /\ stack' = [stack EXCEPT ![Depth].wait = w]
                            /\ out' = Error(m.err)
     ELSE stack' = stk /\ out' = o

Call(m, w, v)     == Move(m, w, Append([stack EXCEPT ![Depth].wait = w],
                                       Activation(m, m.val, v)), Nothing)
Return(m, w)      == Move(m, w, Front(stack), Value(m.val))
TailCall(m, w, v) == Move(m, w, Append(Front(stack), Activation(m, m.val, v)), Nothing)
Enter(m, w)       == TailCall(PopRoots(m, 2), w, m.env)

Running     == Depth > 0 /\ out = Nothing
Awaiting(k) == Depth > 0 /\ out.k = "value" /\ Top.wait.k = k

(* eval_step, up to the evaluation of the combiner. *)
EvalSymbol ==
  /\ Running
  /\ Kind(Now, Top.expr) = "Symbol"
  /\ Return(Lookup(Now, Top.env, Top.expr), Idle)

EvalSelf ==
  /\ Running
  /\ Kind(Now, Top.expr) \notin {"Symbol", "Cons"}
  /\ Return(Get(Now, Top.expr), Idle)

EvalCombination ==
  /\ Running
  /\ Kind(Now, Top.expr) = "Cons"
  /\ LET c == At(Now, Top.expr)
         m == PushRoot(PushRoot(Now, c.d), Top.env)
         w == [k |-> "combiner"]
         s == [stack EXCEPT ![Depth].args = c.d, ![Depth].wait = w]
     IN  Move(m, Idle, Append(s, Activation(m, c.a, Top.env)), Nothing)

(* The errors of a combiner that has been evaluated: a builtin that is not *)
(* operative is refused by apply_operative_builtin.                        *)
NotCallable ==
  /\ Awaiting("combiner")
  /\ \/ Kind(Now, out.v) \notin {"Builtin", "Operative", "Applicative"}
     \/ Kind(Now, out.v) = "Builtin" /\ At(Now, out.v).a \notin Operatives
  /\ Return(Fail(PopRoots(Get(Now, out.v), 2), "NotCallable"), Idle)

ApplyOperative ==
  /\ Awaiting("combiner")
  /\ Kind(Now, out.v) = "Operative"
  /\ Enter(InvokeOperative(Now, out.v, Top.args, Top.env), Idle)
-----------------------------------------------------------------------------
(* Applicatives: eval_args, then the inner combiner. *)
RECURSIVE Innermost(_, _)
Innermost(m, i) == IF Kind(m, i) = "Applicative" THEN Innermost(m, At(m, i).a) ELSE i

(* The environment argument of eval and apply, or the global one. *)
OrGlobal(rest) == IF rest.val = "nil" THEN Give(rest, "global") ELSE CarOf(rest)

(* apply_combiner goes through wrappers down to the innermost combiner.    *)
(* What it comes to is a value, or an expression (val) to be evaluated in  *)
(* an environment (env).                                                   *)
RECURSIVE ApplyCombiner(_, _, _, _)
ApplyCombiner(m, combiner, args, env) ==
  LET c == Innermost(m, combiner)
      value(x)      == [m |-> x, evaluate |-> FALSE]
      evaluate(x)   == [m |-> x, evaluate |-> TRUE]
      x   == Car(m, args)
      y   == Cdr(x, args)
      z   == CarOf(y)
      eval_in(r)   == evaluate(InEnv(r, x.val, r.val))
      apply_in(r)  == ApplyCombiner(r, x.val, z.val, r.val)
  IN  CASE Failed(m) -> value(m)
        [] Kind(m, c) = "Operative" -> evaluate(InvokeOperative(m, c, args, env))
        [] c = BuiltinOf("eval")  -> eval_in(OrGlobal(y))
        [] c = BuiltinOf("apply") -> apply_in(OrGlobal(Cdr(z, y.val)))
        [] Kind(m, c) = "Builtin" /\ At(m, c).a \in Applicatives \ {"eval", "apply"} ->
             value(ApplyPure(m, At(m, c).a, args))
        [] OTHER -> value(Fail(Get(m, c), "NotCallable"))

(* Where eval_step continues its loop with the body of an operative,       *)
(* apply_combiner and the builtin eval start a nested evaluation.          *)
Nested == [k |-> "nested"]
Conclude(a, tail) ==
  IF ~a.evaluate THEN Return(a.m, Idle)
  ELSE IF tail   THEN TailCall(a.m, Idle, a.m.env)
  ELSE Call(a.m, Nested, a.m.env)
ApplyInner(m, inner, evaled) ==
  LET r == PopRoots(Get(PushRoot(m, evaled), inner), 3)
  IN  Conclude(ApplyCombiner(r, inner, evaled, Top.env), Kind(m, inner) = "Operative")

(* A mutant of EnterNamedLet: the local environment stays on the root stack. *)
EnterNamedLetPopsOne(m, w, evaled) ==
  LET func   == Lambda(WrapBegin(PushRoot(m, evaled), w.body), w.params, w.local)
      d      == PopRoots(EnvDefine(func, w.local, w.name, func.val), 1)
      run(o) == InvokeOperative(o, o.val, evaled, w.local)
  IN  Enter(run(Unwrap(d, func.val)), InOperative)

(* The rest of a named let, once its initial values are evaluated. *)
EnterNamedLet(m, w, evaled) ==
  LET func   == Lambda(WrapBegin(PushRoot(m, evaled), w.body), w.params, w.local)
      d      == PopRoots(EnvDefine(func, w.local, w.name, func.val), 2)
      run(o) == InvokeOperative(o, o.val, evaled, w.local)
  IN  Enter(run(Unwrap(d, func.val)), InOperative)

(* eval_args: the arguments in order, consed up in reverse and turned      *)
(* round at the end.  Three roots are pushed for each.                     *)
ArgsDone(d, then) == IF then.k = "apply" THEN ApplyInner(d, then.inner, d.val)
                                         ELSE EnterNamedLet(d, then, d.val)

EvalArgs(m, cur, done, then) ==
  LET h == Car(m, cur)
      r == PushRoot(PushRoot(PushRoot(h, done), Top.env), cur)
  IN  IF cur # "nil" \/ Failed(m)
      THEN Call(Give(r, h.val), [k |-> "args", cur |-> cur, done |-> done, then |-> then], Top.env)
      ELSE ArgsDone(ReverseChain(m, done), then)

ApplyApplicative ==
  /\ Awaiting("combiner")
  /\ Kind(Now, out.v) = "Applicative"
  /\ EvalArgs(Now, Top.args, "nil", [k |-> "apply", inner |-> At(Now, out.v).a])

(* A mutant of it: one root too few is popped. *)
ArgEvaluatedPopsTwo ==
  /\ Awaiting("args")
  /\ LET w == Top.wait
         next(c) == EvalArgs(Cdr(c, w.cur), At(c, w.cur).d, c.val, w.then)
     IN  next(NewCons(PopRoots(Now, 2), out.v, w.done))

ArgEvaluated ==
  /\ Awaiting("args")
  /\ LET w == Top.wait
         next(c) == EvalArgs(Cdr(c, w.cur), At(c, w.cur).d, c.val, w.then)
     IN  next(NewCons(PopRoots(Now, 3), out.v, w.done))

NestedEvaluated == Awaiting("nested") /\ Return(Give(Now, out.v), Idle)
-----------------------------------------------------------------------------
(* The builtin operatives.  eval_step pops its two roots when one of them  *)
(* ends, in error or not (Unwind pops them after an error).                *)
Applying(name) == Awaiting("combiner") /\ out.v = BuiltinOf(name)
Finish(m)         == Return(PopRoots(m, 2), InOperative)
FinishTail(m, v)  == TailCall(PopRoots(m, 2), InOperative, v)

OpQuote == Applying("quote") /\ Finish(Car(Now, Top.args))

OpCurrentEnv == Applying("current-environment") /\ Finish(Give(Now, Top.env))

OpIf == /\ Applying("if")
        /\ LET rest == Cdr(Now, Top.args)
           IN  Call(Car(rest, Top.args), [k |-> "if", rest |-> rest.val], Top.env)

IfTested ==
  /\ Awaiting("if")
  /\ LET rest == Top.wait.rest
         b == Expect(Now, out.v, {"Boolean"})
         e == Cdr(b, rest)
     IN  FinishTail(IF out.v = "#t" THEN Car(b, rest)
                    ELSE IF e.val = "nil" THEN e ELSE CarOf(e), Top.env)

(* A mutant of BeginFrom: the cursor is not moved on. *)
BeginStuck(cur) ==
  LET next == Cdr(Now, cur)
      e    == Car(next, cur)
  IN  IF cur = "nil" THEN FinishTail(Give(Now, "nil"), Top.env)
      ELSE IF next.val = "nil" THEN FinishTail(e, Top.env)
      ELSE Call(e, [k |-> "begin", next |-> cur], Top.env)

BeginFrom(cur) ==
  LET next == Cdr(Now, cur)
      e    == Car(next, cur)
  IN  IF cur = "nil" THEN FinishTail(Give(Now, "nil"), Top.env)
      ELSE IF next.val = "nil" THEN FinishTail(e, Top.env)
      ELSE Call(e, [k |-> "begin", next |-> next.val], Top.env)

OpBegin        == Applying("begin") /\ BeginFrom(Top.args)
BeginEvaluated == Awaiting("begin") /\ BeginFrom(Top.wait.next)

(* cond stops at the first clause whose test is true, or is the symbol     *)
(* "else".                                                                 *)
CondFrom(m, cur) ==
  LET clause == Car(m, cur)
      test   == CarOf(clause)
      body   == Cdr(test, clause.val)
  IN  IF cur = "nil" /\ ~Failed(m) THEN FinishTail(Give(m, "nil"), Top.env)
      ELSE IF test.val = "else" THEN FinishTail(WrapBeginOf(body), Top.env)
      ELSE Call(Give(body, test.val), [k |-> "cond", cur |-> cur, body |-> body.val], Top.env)

OpCond == Applying("cond") /\ CondFrom(Now, Top.args)

CondTested ==
  /\ Awaiting("cond")
  /\ LET b    == Expect(Now, out.v, {"Boolean"})
         next == Cdr(b, Top.wait.cur)
     IN  IF out.v = "#t" THEN FinishTail(WrapBegin(b, Top.wait.body), Top.env)
         ELSE CondFrom(next, next.val)

(* and, or: the operands from left to right, until one is not "goes_on".   *)
ShortCircuitFrom(m, cur, goes_on) ==
  LET next == Cdr(m, cur)
  IN  IF cur = "nil" /\ ~Failed(m) THEN FinishTail(Give(m, goes_on), Top.env)
      ELSE Call(Car(next, cur), [k |-> "and or", next |-> next.val, goes_on |-> goes_on], Top.env)

OpShortCircuit ==
  \E op \in {"and", "or"} :
    /\ Applying(op)
    /\ LET second == Cdr(Now, Top.args)
           m == IF Top.args = "nil" THEN Fail(Now, "InvalidArgument")
                ELSE IF second.val = "nil" THEN Fail(second, "InvalidArgument")
                ELSE second
       IN  ShortCircuitFrom(m, Top.args, IF op = "and" THEN "#t" ELSE "#f")

ShortCircuitTested ==
  /\ Awaiting("and or")
  /\ LET w == Top.wait
         b == Expect(Now, out.v, {"Boolean"})
     IN  IF out.v = w.goes_on THEN ShortCircuitFrom(Now, w.next, w.goes_on)
         ELSE FinishTail(Give(b, out.v), Top.env)

(* (define! (fn name params...) body...) *)
DefineFunction(cdr) ==
  LET name   == Car(Now, cdr)
      params == Cdr(name, cdr)
      func   == Lambda(WrapBeginOf(Cdr(params, Top.args)), params.val, Top.env)
  IN  Finish(Give(EnvDefine(func, Top.env, name.val, func.val), "#inert"))

OpDefine ==
  /\ Applying("define!")
  /\ LET d == Car(Now, Top.args)
         p == ValidatePtree(Get(d, d.val), d.val)
     IN  IF ~Failed(d) /\ Kind(Now, d.val) = "Cons" /\ At(Now, d.val).a = "fn"
         THEN DefineFunction(At(Now, d.val).d)
         ELSE Call(Cadr(p, Top.args), [k |-> "define", definiend |-> d.val], Top.env)

DefineEvaluated ==
  /\ Awaiting("define")
  /\ Finish(Give(MatchPtree(Now, Top.wait.definiend, out.v, Top.env), "#inert"))

OpSet ==
  /\ Applying("set!")
  /\ LET e    == Car(Now, Top.args)
         rest == Cdr(e, Top.args)
         d    == CarOf(rest)
         v    == Cadr(d, rest.val)
     IN  Call(Give(v, e.val), [k |-> "set env", definiend |-> d.val, value |-> v.val], Top.env)

SetEnvEvaluated ==
  /\ Awaiting("set env")
  /\ Call(Give(Expect(Now, out.v, {"Environment"}), Top.wait.value),
          [k |-> "set", definiend |-> Top.wait.definiend, target |-> out.v], Top.env)

SetEvaluated ==
  /\ Awaiting("set")
  /\ LET w == Top.wait
         m == EnvSet(Expect(Now, w.definiend, {"Symbol"}), w.target, w.definiend, out.v)
     IN  Finish(Give(m, "#inert"))

OpLambda ==
  /\ Applying("lambda")
  /\ LET params == Car(Now, Top.args)
     IN  Finish(Lambda(WrapBeginOf(Cdr(params, Top.args)), params.val, Top.env))

OpVau ==
  /\ Applying("vau")
  /\ LET params == Car(Now, Top.args)
         ep     == Cadr(params, Top.args)
         body   == WrapBeginOf(CdrOf(Cdr(ep, Top.args)))
         named(seen) == LET x == Expect(seen, ep.val, {"Ignore", "Symbol"})
                        IN  IF ListContains(x, x.val, ep.val) THEN Fail(x, "InvalidArgument") ELSE x
     IN  Finish(Vau(named(ValidatePtree(body, params.val)), params.val,
                    IF ep.val = "#ignore" THEN "nil" ELSE ep.val, body.val, Top.env))

(* Regular let: the values are evaluated one by one in the outer           *)
(* environment and bound at once in the local one.  The outer environment  *)
(* is replaced before the body is built.                                   *)
LetFrom(m, cur, local, bodies) ==
  LET b == Car(m, cur)
      s == CarOf(b)
      body == WrapBegin(PopRoots(m, 1), bodies)
  IN  IF cur # "nil" \/ Failed(m)
      THEN Call(Cadr(s, b.val), [k |-> "let", cur |-> cur, name |-> s.val, local |-> local,
                                 bodies |-> bodies], Top.env)
      ELSE IF Failed(body)
      THEN /\ mem' = body.mem /\ free' = body.free
           /\ UNCHANGED <<input, open>> /\ Tick
           /\ stack' = [stack EXCEPT ![Depth].env = local, ![Depth].wait = InOperative]
           /\ out' = Error(body.err)
      ELSE FinishTail(body, local)

OpLet ==
  /\ Applying("let")
  /\ LET first  == Car(Now, Top.args)
         tail   == Cdr(first, Top.args)
         child  == MakeChildEnv(Get(tail, first.val), Top.env)
     IN  /\ Kind(Now, first.val) # "Symbol"
         /\ LetFrom(PushRoot(child, child.val), first.val, child.val, tail.val)

LetEvaluated ==
  /\ Awaiting("let")
  /\ LET w == Top.wait
         d == EnvDefine(Now, w.local, w.name, out.v)
     IN  LetFrom(Cdr(d, w.cur), At(d, w.cur).d, w.local, w.bodies)

(* Named let: lists of the parameters and of the initial values are made,  *)
(* and the initial values evaluated in the outer environment.              *)
OpNamedLet ==
  /\ Applying("let")
  /\ LET name     == Car(Now, Top.args)
         rest     == Cdr(name, Top.args)
         bindings == CarOf(rest)
         bodies   == Cdr(bindings, rest.val)
         params   == MapList(bodies, bindings.val, "car")
         inits    == MapList(params, bindings.val, "cadr")
         then(child) == [k |-> "named let", name |-> name.val, params |-> params.val,
                         local |-> child.val, body |-> bodies.val]
         eval(child) == EvalArgs(PushRoot(child, child.val), inits.val, "nil", then(child))
     IN  /\ Kind(Now, name.val) = "Symbol"
         /\ eval(MakeChildEnv(inits, Top.env))

(* load: all of the file is parsed, and the file closed, before the first  *)
(* of its expressions is evaluated.                                        *)
LoadFrom(m, cur, result) ==
  IF cur = "nil" /\ ~Failed(m) THEN Finish(Give(m, result))
  ELSE Call(Car(m, cur), [k |-> "load", cur |-> cur], Top.env)

OpLoad ==
  /\ Applying("load")
  /\ Call(Car(Now, Top.args), [k |-> "load path"], Top.env)

LoadPathEvaluated ==
  /\ Awaiting("load path")
  /\ LET path   == StringChain(Now, out.v)
         name   == Characters(Now, out.v)
         opened == IF Failed(path) THEN path
                   ELSE IF name \notin DOMAIN Files \/ open = MaxStreams THEN Fail(path, "IoError")
                   ELSE [path EXCEPT !.open = @ + 1]
         list   == IF Failed(opened) THEN opened ELSE ParseAll(opened, Files[name])
         closed == IF Failed(list) THEN list ELSE [list EXCEPT !.open = @ - 1]
     IN  LoadFrom(closed, closed.val, "#inert")

LoadEvaluated ==
  /\ Awaiting("load")
  /\ LET n == Cdr(Now, Top.wait.cur) IN LoadFrom(n, n.val, out.v)
-----------------------------------------------------------------------------
(* An error leaves the function that waited for the call.  Only eval_step  *)
(* around a builtin operative pops its roots on the way.                   *)
WithinOperative(w) ==
  \/ w.k \in {"operative", "if", "begin", "cond", "and or", "define", "set env", "set", "let",
              "load path", "load"}
  \/ w.k = "args" /\ w.then.k = "named let"

Unwind ==
  /\ Depth > 0
  /\ out.k = "error"
  /\ Top.wait # Idle
  /\ mem' = IF WithinOperative(Top.wait) THEN PopRoots(Now, 2).mem ELSE mem
  /\ stack' = [stack EXCEPT ![Depth].wait = Idle]
  /\ UNCHANGED <<free, open, input, out>> /\ Tick

(* eval_expr on an error of eval_step: after OutOfMemory the root stack is *)
(* restored and the heap collected; if that freed anything the step is     *)
(* tried again.                                                            *)
(* A mutant of it: the root stack is emptied, not restored. *)
HandleDropsRoots ==
  /\ Depth > 0
  /\ out = Error("OutOfMemory")
  /\ Top.wait = Idle
  /\ LET m == Collect(SetRootsHead(Now, "nil"), {Top.expr, Top.env})
     IN  /\ mem' = m.mem /\ free' = m.free
         /\ IF m.free # free
            THEN out' = Nothing /\ UNCHANGED stack
            ELSE stack' = Front(stack) /\ UNCHANGED out
  /\ UNCHANGED <<input, open>> /\ Tick

HandleOutOfMemory ==
  /\ Depth > 0
  /\ out = Error("OutOfMemory")
  /\ Top.wait = Idle
  /\ LET m == Collect(SetRootsHead(Now, Top.saved), {Top.expr, Top.env})
     IN  /\ mem' = m.mem /\ free' = m.free
         /\ IF m.free # free
            THEN out' = Nothing /\ UNCHANGED stack
            ELSE stack' = Front(stack) /\ UNCHANGED out
  /\ UNCHANGED <<input, open>> /\ Tick

PropagateError ==
  /\ Depth > 0
  /\ out.k = "error" /\ out.v # "OutOfMemory"
  /\ Top.wait = Idle
  /\ stack' = Front(stack)
  /\ UNCHANGED <<mem, free, open, input, out>> /\ Tick

(* eval_to_index, once per input: parse, evaluate in the global            *)
(* environment, answer.  The parser runs outside the retry loop.           *)
ReadInput ==
  /\ Depth = 0 /\ out = Nothing
  /\ pos <= Len(session)
  /\ LET m == Parse(Now, session[pos])
     IN  /\ mem' = m.mem /\ free' = m.free
         /\ IF Failed(m) THEN out' = Error(m.err) /\ UNCHANGED stack
            ELSE stack' = <<Activation(m, m.val, "global")>> /\ UNCHANGED out
  /\ UNCHANGED <<input, open>> /\ Tick

Answer ==
  /\ Depth = 0 /\ out \notin {Nothing, Error("panic")}
  /\ pos' = pos + 1
  /\ out' = Nothing
  /\ UNCHANGED <<mem, free, open, session, stack>> /\ Tick

EvalOperative ==
  \/ OpQuote \/ OpCurrentEnv \/ OpIf \/ OpBegin \/ OpCond \/ OpShortCircuit
  \/ OpDefine \/ OpSet \/ OpLambda \/ OpVau \/ OpLet \/ OpNamedLet \/ OpLoad
Resume ==
  \/ IfTested \/ BeginEvaluated \/ CondTested \/ ShortCircuitTested \/ DefineEvaluated
  \/ SetEnvEvaluated \/ SetEvaluated \/ LetEvaluated \/ LoadPathEvaluated \/ LoadEvaluated
  \/ ArgEvaluated \/ NestedEvaluated

Finished == /\ Depth = 0
            /\ \/ /\ out = Nothing
                  /\ pos > Len(session)
               \/ out = Error("panic")
Rest     == Finished /\ UNCHANGED vars    \* so that stopping anywhere else is a deadlock

Next ==
  \/ ReadInput \/ Answer
  \/ EvalSymbol \/ EvalSelf \/ EvalCombination
  \/ NotCallable \/ ApplyOperative \/ ApplyApplicative
  \/ EvalOperative \/ Resume
  \/ Unwind \/ HandleOutOfMemory \/ PropagateError
  \/ Rest

Spec == Init /\ [][Next]_vars

(* The interpreter is a sequential program: it runs until the session is   *)
(* over.  Every step but Rest changes turn, so that fairness of turn is    *)
(* fairness of those steps, and its ENABLED does not have TLC work out a   *)
(* whole step; that one of them is enabled is what the deadlock check of   *)
(* the runs establishes.                                                   *)
FairSpec == Spec /\ WF_turn(~Finished /\ turn' = ~turn)
-----------------------------------------------------------------------------
(* The cells in use and the free list are disjoint sets of slots, and the  *)
(* free list has no slot twice: no slot is handed out while it is in use.  *)
EvalTypeOK ==
  /\ DOMAIN mem \subseteq ToSet(Slots) \cup {"global", "gc_roots"}
  /\ ToSet(free) \subseteq ToSet(Slots) \ DOMAIN mem
  /\ \A i, j \in DOMAIN free : free[i] = free[j] => i = j

(* What each waiting activation has on the root stack, and keeps in        *)
(* variables of what it can reach from there, as GriftRoots has it.        *)
KeptIn(w) ==
  CASE w.k = "if"      -> {w.rest}
    [] w.k \in {"begin", "and or"} -> {w.next}
    [] w.k = "cond"    -> {w.cur, w.body}
    [] w.k = "set env" -> {w.definiend, w.value}
    [] w.k \in {"define", "set"} -> {w.definiend}
    [] w.k = "let"     -> {w.cur, w.name, w.bodies}
    [] w.k = "args" /\ w.then.k = "named let" -> {w.then.body}
    [] OTHER           -> {}
RootsWait(w) ==
  LET wait(k, local, cur, done) ==
        [k |-> k, local |-> local, cur |-> cur, done |-> done, kept |-> KeptIn(w)]
  IN  CASE w.k \in {"idle", "nested", "combiner"} -> wait(w.k, "nil", "nil", "nil")
        [] w.k = "let"  -> wait("let", w.local, "nil", "nil")
        [] w.k = "args" -> IF w.then.k = "apply" THEN wait("args", "nil", w.cur, w.done)
                           ELSE wait("named let", w.then.local, w.cur, w.done)
        [] OTHER        -> wait("operative", "nil", "nil", "nil")

(* The cells that may be rewritten: environments, the lists and pairs of   *)
(* their bindings, and the lists of arguments under construction.          *)
RECURSIVE Spine(_)
Spine(i) == IF Kind(Now, i) # "Cons" THEN {} ELSE {i} \cup Spine(At(Now, i).d)
Mutable ==
  LET envs     == {i \in DOMAIN mem : mem[i].kind = "Environment"}
      frames   == UNION {Spine(mem[i].a) : i \in envs}
      building == {j \in DOMAIN stack : /\ stack[j].wait.k = "args"
                                        /\ ~(j = Depth /\ out.k = "error")}
  IN  envs \cup frames \cup {mem[i].a : i \in frames}
      \cup UNION {Spine(stack[j].wait.done) : j \in building}

Roots == INSTANCE GriftRoots WITH
           heap    <- Restrict(mem, DOMAIN mem \ {"gc_roots"}),
           head    <- RootsHead(Now),
           mutable <- Mutable,
           stack   <- [j \in DOMAIN stack |-> [stack[j] EXCEPT !.wait = RootsWait(@)]]

(* The evaluator keeps the discipline of the root stack: it pushes and     *)
(* pops what that machine does, in every function that evaluates.          *)
ImplementsRoots == Roots!RootsSpec

(* Every activation has on the root stack exactly what the code has pushed *)
(* by then, its callee having popped what it pushed, also when the callee  *)
(* ran out of memory halfway and was retried: eval.rs counts its pushes    *)
(* and pops by hand.                                                       *)
RootDiscipline == Roots!RootDiscipline

(* No collection, at whatever depth of the evaluation it happens, takes    *)
(* from a waiting activation what it has rooted and will read, and none of *)
(* that is rewritten, environments apart.                                  *)
RootedSurvives == Roots!RootedSurvives

(* What fails is tried again as it was: a step that ends in an error       *)
(* leaves the environment of its activation alone (eval.rs:307; op_let     *)
(* assigns env before the body is built, eval.rs:780).                     *)
FailingStepKeepsEnv ==
  [][Depth > 0 /\ out.k # "error" /\ out'.k = "error" /\ Len(stack') = Depth
       => stack'[Depth].env = Top.env]_vars

(* What a waiting activation merely keeps in a variable. *)
Unrooted(t) ==
  LET w == t.wait IN
  CASE w.k = "set"  -> {w.target}
    [] w.k = "load" -> {w.cur}
    [] w.k = "args" -> IF w.then.k = "named let" THEN {w.then.params} ELSE {w.then.inner}
    [] OTHER        -> {}

KeptBy(S) == \A i \in S : i \in DOMAIN mem => i \in DOMAIN mem'

(* INTERNALS.md, invariant 4: any index live across a recursive eval is on *)
(* the root stack.  So no collection takes it.                             *)
RootsSpanEval ==
  [][\A j \in 1 .. Depth - 1 : j <= Len(stack') => KeptBy(Unrooted(stack[j]))]_vars

(* Printing a value, for comparison with what GriftSemantics defines. *)
Semantics == INSTANCE GriftSemantics

RECURSIVE Printed(_)
Printed(i) ==
  LET c == At(Now, i) IN
  CASE c.kind = "Cons" -> Semantics!PairOf(Printed(c.a), Printed(c.d))
    [] c.kind = "CharPair" -> Semantics!CharOf(c.a, Printed(c.d))
    [] c.kind = "Number" -> Semantics!Atom(c.a)
    [] c.kind \in {"Operative", "Applicative"} -> Semantics!Atom("closure")
    [] OTHER -> Semantics!Atom(i)

IsDefine(t) == t.k = "list" /\ t.l # << >> /\ t.l[1].k = "sym" /\ t.l[1].s = "define!"
RECURSIVE Defined(_)
Defined(n) ==    \* the global environment after the first n inputs
  IF n = 0 THEN << >>
  ELSE LET t == session[n] IN
       IF ~IsDefine(t) THEN Defined(n - 1)
       ELSE IF t.l[2].k = "sym"
       THEN t.l[2].s :> Semantics!ValueIn(t.l[3], Defined(n - 1)) @@ Defined(n - 1)
       ELSE LET names == Semantics!NamesIn(t.l[2])
            IN  names[2] :> Semantics!Recursive(names[2],
                               Semantics!Closure(SubSeq(names, 3, Len(names)),
                                                 SubSeq(t.l, 3, Len(t.l)), Defined(n - 1)))
                @@ Defined(n - 1)
Expected == IF IsDefine(session[pos]) THEN Semantics!Atom("#inert")
            ELSE Semantics!Shown(Semantics!ValueIn(session[pos], Defined(pos - 1)))

(* Every answer is the value that LANGUAGE.md gives the expression, or the *)
(* error it gives it, whatever was collected while it was computed: no     *)
(* integer wraps, no error is answered that the expression does not have,  *)
(* and a panic is never right.  Only OutOfMemory may come instead, or the  *)
(* lack of what an input that ran out of memory should have defined.       *)
Answered == IF out.k = "value" THEN Printed(out.v) ELSE Semantics!Bad(out.v)

(* LANGUAGE.md:348: all arithmetic is checked, and what does not fit is    *)
(* the error ArithmeticOverflow, of which the program hears (eval.rs:970   *)
(* divides unchecked).                                                     *)
ArithmeticIsChecked == out # Error("panic")

(* The interpreter answers every input: each evaluation returns, with a    *)
(* value or an error, and does not run on without end.                     *)
Ends == []<>Finished

(* Between two inputs nothing is left on the root stack. *)
NothingRootedAtRest == Depth = 0 => RootsHead(Now) = "nil"

(* No file stays open after the load that opened it. *)
LoadCloses == Depth = 0 => open = 0

(* Out of memory is answered only when there is no garbage to reclaim. *)
OutOfMemoryMeansFull ==
  Depth = 0 /\ out = Error("OutOfMemory") => Live(Now, {}) = DOMAIN mem
=============================================================================
