------------------------------ MODULE GriftEnv ------------------------------
(***************************************************************************)
(* Environments: frames of bindings with a list of parents, and the code   *)
(* that makes them, binds in them, writes to them and looks names up.      *)
(* They are the only thing in the language that can be written to.  A step *)
(* is what happens up to the next allocation or write, each of which may   *)
(* find the arena full; "room" counts the cells left, and what a call has  *)
(* allocated and dropped comes back with the next collection.              *)
(*                                                                         *)
(* The program can name the environment it runs in                         *)
(* (current-environment), those it has made and those it was passed.       *)
(***************************************************************************)
EXTENDS Integers, Sequences, FiniteSets

CONSTANTS Name,       \* symbols
          Builtins,   \* those the ground environment binds
          Data,       \* source text, once it is read, and all its parts; in it
          Trees,      \* the parameter trees, well formed or not,
          TreeDepth,  \* their depth at most, and
          Objects,    \* the objects of the program
          EnvParams,  \* last parameters of its operatives
          Cells,      \* cells beyond those of the fixed slots and the builtins
          MaxEnvs     \* environments at a time

Nil         == [kind |-> "Nil"]
Ignore      == [kind |-> "Ignore"]
Builtin     == [kind |-> "Builtin"]
Number(k)   == [kind |-> "Number", value |-> k]
Symbol(n)   == [kind |-> "Symbol", name |-> n]
Pair(a, b)  == [kind |-> "Pair", car |-> a, cdr |-> b]
Env(e)      == [kind |-> "Environment", env |-> e]

None == "#ignore"     \* no name for the environment of the caller

ASSUME EnvAssumption ==
  /\ Builtins \subseteq Name
  /\ None \notin Name
  /\ EnvParams \subseteq Name \cup {None}
  /\ Cells \in Nat
  /\ MaxEnvs \in Nat \ {0, 1}
  /\ TreeDepth \in Nat
  /\ Trees \cup Objects \cup {Nil} \subseteq Data
  /\ \A d \in Data : /\ d.kind \notin {"Environment", "Builtin"}
                     /\ d.kind = "Symbol" => d.name \in Name /\ d = Symbol(d.name)
                     /\ d.kind = "Pair" => d.car \in Data /\ d.cdr \in Data

VARIABLES envs,    \* the environments: their parents and their frame
          held,    \* those the program can name
          room,    \* free cells
          job,     \* the operation in progress, or the last one
          before   \* envs and room when it began (observation only)

envVars == <<envs, held, room, job, before>>

EnvId  == 1 .. MaxEnvs
GROUND == 1
GLOBAL == 2
Given  == Objects \cup {Env(e) : e \in held}   \* what an expression may evaluate to

NoJob == [at |-> "idle", op |-> "none", env |-> GLOBAL, name |-> None, ptree |-> Nil,
          obj |-> Nil, todo |-> << >>, seen |-> {}, cur |-> GLOBAL, caller |-> GLOBAL,
          stack |-> << >>, answer |-> "Ok"]

EnvInit ==
  /\ envs = << [parents |-> << >>, frame |-> [n \in Builtins |-> Builtin]],
               [parents |-> <<GROUND>>, frame |-> [n \in {} |-> Nil]] >>
  /\ held = {GLOBAL}
  /\ room = Cells
  /\ job = NoJob
  /\ before = [envs |-> envs, room |-> room]
-----------------------------------------------------------------------------
Bound(e) == DOMAIN envs[e].frame
NewEnv   == Len(envs) + 1

Begin(j) == /\ job.at = "idle"
            /\ job' = j
            /\ before' = [envs |-> envs, room |-> room]

Finish(answer) == job' = [job EXCEPT !.at = "idle", !.answer = answer, !.todo = << >>,
                                    !.seen = {}, !.stack = << >>]

(* A call that fails drops the environment it has made for its body. *)
Fail(e) ==
  /\ Finish(e)
  /\ envs' = IF job.at = "match" /\ job.op # "define" THEN SubSeq(envs, 1, Len(envs) - 1) ELSE envs
  /\ UNCHANGED held

AffordFree(k) ==      \* mutant: allocates without looking
  room' = room - k

(* k allocations in a row; those before one that fails are garbage. *)
Afford(k) == room >= k /\ room' = room - k
Short(k)  == room < k  /\ room' = 0

BindsOnce(e, n, v) == \* mutant: a binding the frame has already is kept
  /\ IF n \in Bound(e) THEN UNCHANGED room ELSE Afford(2)
  /\ envs' = [envs EXCEPT ![e].frame =
                [m \in DOMAIN @ \cup {n} |-> IF m = n /\ n \notin DOMAIN @ THEN v ELSE @[m]]]

(* env_define: overwrites the binding of n in the frame of e, or adds one. *)
Binds(e, n, v) ==
  /\ IF n \in Bound(e) THEN UNCHANGED room ELSE Afford(2)
  /\ envs' = [envs EXCEPT ![e].frame =
                [m \in DOMAIN @ \cup {n} |-> IF m = n THEN v ELSE @[m]]]
CannotBind(e, n) == n \notin Bound(e) /\ Short(2)
-----------------------------------------------------------------------------
(* make-environment: copies the list of parents and takes one cell more.   *)
MakeEnvironment(ps) ==
  /\ Begin([NoJob EXCEPT !.op = "make", !.answer = IF room > Len(ps) THEN "Ok" ELSE "OutOfMemory"])
  /\ \/ /\ NewEnv \in EnvId
        /\ Afford(Len(ps) + 1)
        /\ envs' = Append(envs, [parents |-> ps, frame |-> [n \in {} |-> Nil]])
        /\ held' = held \cup {NewEnv}
     \/ Short(Len(ps) + 1) /\ UNCHANGED <<envs, held>>

(* define! in e, once the expression has the value v.  A definiend headed  *)
(* by the symbol fn is the shorthand for a function and no parameter tree: *)
(* what it binds is not looked at here.                                    *)
IsShorthand(p) == p.kind = "Pair" /\ p.car = Symbol("fn")

BeginDefine(e, p, v) ==
  /\ ~IsShorthand(p)
  /\ Begin([NoJob EXCEPT !.at = "validate", !.op = "define", !.env = e, !.ptree = p,
                         !.obj = v, !.todo = <<p>>])
  /\ UNCHANGED <<envs, held, room>>

(* An operative that closes over c is called from e with the operands v.   *)
(* vau has checked its parameters, lambda takes them as they are.          *)
BeginVau(c, e, p, n, v) ==
  /\ NewEnv \in EnvId
  /\ Begin([NoJob EXCEPT !.at = "validate", !.op = "vau", !.cur = c, !.caller = e,
                         !.ptree = p, !.name = n, !.obj = v, !.todo = <<p>>])
  /\ UNCHANGED <<envs, held, room>>

BeginLambda(c, p, v) ==
  /\ NewEnv \in EnvId
  /\ Begin([NoJob EXCEPT !.at = "enter", !.op = "lambda", !.cur = c,
                         !.ptree = p, !.obj = v])
  /\ UNCHANGED <<envs, held, room>>

(* validate_ptree: a cell for each pair on the way (visited) and for each  *)
(* symbol seen.  Pairs are immutable, so that no pair is met again below   *)
(* itself.                                                                 *)
Validate ==
  LET p == Head(job.todo)  rest == Tail(job.todo)
  IN  /\ job.at = "validate"
      /\ job.todo # << >>
      /\ UNCHANGED before
      /\ \/ /\ p \in {Nil, Ignore}
            /\ job' = [job EXCEPT !.todo = rest]
            /\ UNCHANGED <<envs, held, room>>
         \/ /\ p.kind = "Symbol"
            /\ p.name \in job.seen
            /\ Fail("InvalidArgument") /\ UNCHANGED room
         \/ /\ p.kind = "Symbol"
            /\ p.name \notin job.seen
            /\ \/ /\ Afford(1)
                  /\ job' = [job EXCEPT !.todo = rest, !.seen = @ \cup {p.name}]
                  /\ UNCHANGED <<envs, held>>
               \/ Short(1) /\ Fail("OutOfMemory")
         \/ /\ p.kind = "Pair"
            /\ \/ /\ Afford(1)
                  /\ job' = [job EXCEPT !.todo = <<p.car, p.cdr>> \o rest]
                  /\ UNCHANGED <<envs, held>>
               \/ Short(1) /\ Fail("OutOfMemory")
         \/ /\ p.kind \notin {"Nil", "Ignore", "Symbol", "Pair"}
            /\ Fail("TypeError") /\ UNCHANGED room

Validated ==
  /\ job.at = "validate"
  /\ job.todo = << >>
  /\ UNCHANGED <<room, before>>
  /\ \/ /\ job.op = "define"
        /\ job' = [job EXCEPT !.at = "match", !.todo = << <<job.ptree, job.obj>> >>]
        /\ UNCHANGED <<envs, held>>
     \/ /\ job.op = "vau"
        /\ IF job.name \in job.seen
           THEN Fail("InvalidArgument")
           ELSE job' = [job EXCEPT !.at = "enter"] /\ UNCHANGED <<envs, held>>

(* invoke_operative: a child of the environment closed over. *)
Enter ==
  /\ job.at = "enter"
  /\ UNCHANGED <<held, before>>
  /\ \/ /\ Afford(2)
        /\ envs' = Append(envs, [parents |-> <<job.cur>>, frame |-> [n \in {} |-> Nil]])
        /\ job' = [job EXCEPT !.at = "match", !.env = NewEnv,
                              !.todo = << <<job.ptree, job.obj>> >>]
     \/ Short(2) /\ Finish("OutOfMemory") /\ UNCHANGED envs

(* match_ptree: the symbols are bound one after the other, from the left;  *)
(* those already bound stay when a later part does not match.              *)
Match ==
  LET p == Head(job.todo)[1]  o == Head(job.todo)[2]  rest == Tail(job.todo)
      Next(todo) == job' = [job EXCEPT !.todo = todo]
  IN  /\ job.at = "match"
      /\ job.todo # << >>
      /\ UNCHANGED before
      /\ \/ /\ p = Ignore \/ (p = Nil /\ o = Nil)
            /\ Next(rest) /\ UNCHANGED <<envs, held, room>>
         \/ /\ p.kind = "Symbol"
            /\ \/ Binds(job.env, p.name, o) /\ Next(rest) /\ UNCHANGED held
               \/ CannotBind(job.env, p.name) /\ Fail("OutOfMemory")
         \/ /\ p.kind = "Pair" /\ o.kind = "Pair"
            /\ Next(<< <<p.car, o.car>>, <<p.cdr, o.cdr>> >> \o rest)
            /\ UNCHANGED <<envs, held, room>>
         \/ /\ \/ p = Nil /\ o # Nil
               \/ p.kind = "Pair" /\ o.kind # "Pair"
               \/ p.kind \notin {"Nil", "Ignore", "Symbol", "Pair"}
            /\ Fail("TypeError") /\ UNCHANGED room

(* An operative also binds the environment of its caller.                  *)
Matched ==
  /\ job.at = "match"
  /\ job.todo = << >>
  /\ UNCHANGED before
  /\ \/ /\ job.op = "define"
        /\ Finish("Ok") /\ UNCHANGED <<envs, held, room>>
     \/ /\ job.op # "define"
        /\ \/ job.name = None /\ UNCHANGED <<envs, room>>
           \/ job.name # None /\ Binds(job.env, job.name, Env(job.caller))
        /\ Finish("Ok") /\ held' = held \cup {job.env}
     \/ /\ job.name # None
        /\ CannotBind(job.env, job.name) /\ Fail("OutOfMemory")
-----------------------------------------------------------------------------
SetWalks(t, n, v) ==  \* mutant: the binding may be found in a parent
  /\ t.kind = "Environment"
  /\ \E e \in {t.env} \cup {envs[t.env].parents[k] : k \in DOMAIN envs[t.env].parents} :
       /\ n \in Bound(e)
       /\ Begin([NoJob EXCEPT !.op = "set", !.env = t.env, !.name = n, !.obj = v])
       /\ envs' = [envs EXCEPT ![e].frame[n] = v]
  /\ UNCHANGED <<held, room>>

(* set!: t is what the first operand evaluated to.  Only a debug assertion *)
(* keeps it from being the ground environment.  A definiend that is no     *)
(* symbol answers TypeError too and changes as little.                     *)
Set(t, n, v) ==
  LET Answers(x) == Begin([NoJob EXCEPT !.op = "set", !.env = IF x = "TypeError" THEN GLOBAL ELSE t.env,
                                        !.name = n, !.obj = v, !.answer = x])
  IN  /\ \/ t.kind # "Environment" /\ Answers("TypeError") /\ UNCHANGED envs
         \/ /\ t.kind = "Environment" /\ n \notin Bound(t.env)
            /\ Answers("UnboundVariable") /\ UNCHANGED envs
         \/ /\ t.kind = "Environment" /\ n \in Bound(t.env)
            /\ Answers("Ok")
            /\ envs' = [envs EXCEPT ![t.env].frame[n] = v]
      /\ UNCHANGED <<held, room>>
-----------------------------------------------------------------------------
BeginLookup(e, n) ==
  /\ Begin([NoJob EXCEPT !.at = "chain", !.op = "lookup", !.env = e, !.name = n, !.cur = e])
  /\ UNCHANGED <<envs, held, room>>

Found(e) == job' = [job EXCEPT !.at = "idle", !.obj = envs[e].frame[job.name], !.stack = << >>]
Search(stack) == job' = [job EXCEPT !.at = "dfs", !.stack = stack]
Activation(parents, visited) == [left |-> parents, visited |-> visited]

ChainSearches ==      \* mutant: the search with a visited list from the start
  LET e == job.cur
  IN  /\ job.at = "chain"
      /\ \/ job.name \in Bound(e) /\ Found(e)
         \/ /\ job.name \notin Bound(e)
            /\ Search(<<Activation(envs[e].parents, {})>>)
      /\ UNCHANGED <<envs, held, room, before>>

(* env_lookup: up the chain as long as there is one parent.                *)
Chain ==
  LET e == job.cur  parents == envs[e].parents
  IN  /\ job.at = "chain"
      /\ \/ job.name \in Bound(e) /\ Found(e)
         \/ job.name \notin Bound(e) /\ parents = << >> /\ Finish("UnboundVariable")
         \/ /\ job.name \notin Bound(e) /\ Len(parents) = 1
            /\ job' = [job EXCEPT !.cur = parents[1]]
         \/ /\ job.name \notin Bound(e) /\ Len(parents) > 1
            /\ Search(<<Activation(parents, {})>>)
      /\ UNCHANGED <<envs, held, room, before>>

GiveUp ==             \* mutant: what one parent cannot find is unbound
  /\ job.at = "dfs"
  /\ job.stack[Len(job.stack)].left = << >>
  /\ Finish("UnboundVariable")
  /\ UNCHANGED <<envs, held, room, before>>

(* env_lookup_dfs_parents has no parent left: the activation around it     *)
(* goes on with its own.                                                   *)
Return ==
  /\ job.at = "dfs"
  /\ job.stack[Len(job.stack)].left = << >>
  /\ IF Len(job.stack) = 1
     THEN Finish("UnboundVariable")
     ELSE Search(SubSeq(job.stack, 1, Len(job.stack) - 1))
  /\ UNCHANGED <<envs, held, room, before>>

(* env_lookup_dfs of the next parent: a cell for its entry in the visited  *)
(* list of the path that leads to it.  Parents are older than their        *)
(* children, so that no path meets an environment of its list again.       *)
Descend ==
  LET top  == job.stack[Len(job.stack)]
      e    == Head(top.left)
      rest == Append(SubSeq(job.stack, 1, Len(job.stack) - 1),
                     Activation(Tail(top.left), top.visited))
  IN  /\ job.at = "dfs"
      /\ top.left # << >>
      /\ \/ e \in top.visited /\ Search(rest) /\ UNCHANGED room
         \/ e \notin top.visited /\ job.name \in Bound(e) /\ Found(e) /\ UNCHANGED room
         \/ /\ e \notin top.visited /\ job.name \notin Bound(e)
            /\ \/ /\ Afford(1)
                  /\ Search(Append(rest, Activation(envs[e].parents, top.visited \cup {e})))
               \/ Short(1) /\ Finish("OutOfMemory")
      /\ UNCHANGED <<envs, held, before>>
-----------------------------------------------------------------------------
(* Cells in use: an environment, its list of parents, a binding and its    *)
(* place in the frame's list.  The fixed slots and the ground frame are    *)
(* not counted.                                                            *)
Used == LET upTo[e \in 0 .. Len(envs)] ==
              IF e < GLOBAL THEN 0
              ELSE upTo[e-1] + 2 * Cardinality(Bound(e))
                             + IF e = GLOBAL THEN 0 ELSE 1 + Len(envs[e].parents)
        IN  upTo[Len(envs)]

(* A collection between two operations; all environments are in use.       *)
Collect == /\ job.at = "idle"
           /\ room' = Cells - Used
           /\ job' = NoJob
           /\ UNCHANGED <<envs, held, before>>

Parents == UNION {[1 .. k -> held] : k \in 0 .. 2}

(* The operands of an operative are source text, the arguments of a lambda *)
(* values.                                                                 *)
EnvNext ==
  \/ \E ps \in Parents : MakeEnvironment(ps)
  \/ \E e \in held, p \in Trees :
       \/ \E v \in Given : BeginDefine(e, p, v) \/ BeginLambda(e, p, v)
       \/ \E c \in held, n \in EnvParams, v \in Objects : BeginVau(c, e, p, n, v)
  \/ \E t \in Given, n \in Name, v \in Given : Set(t, n, v)
  \/ \E e \in held, n \in Name : BeginLookup(e, n)
  \/ Validate \/ Validated \/ Enter \/ Match \/ Matched
  \/ Chain \/ Return \/ Descend \/ Collect

EnvSpec == EnvInit /\ [][EnvNext]_envVars
-----------------------------------------------------------------------------
EnvTypeOK ==
  /\ Len(envs) \in EnvId
  /\ \A e \in DOMAIN envs : /\ envs[e].parents \in Seq(1 .. e-1)
                            /\ Bound(e) \subseteq Name
  /\ held \subseteq DOMAIN envs
  /\ room \in 0 .. Cells - Used
  /\ job.at \in {"idle", "validate", "enter", "match", "chain", "dfs"}

(* The builtins cannot be redefined, although only debug assertions look:  *)
(* no operation ever hands out the ground environment, it is the value of  *)
(* no name, nothing is evaluated in it, and its frame stays as it was.     *)
(* Docs: LANGUAGE.md:130, ARCHITECTURE.md:185.  Code: make_child_env takes *)
(* what is closed over, current-environment answers the frame it is        *)
(* evaluated in, env_set does not look at parents (eval.rs:548, 595).      *)
GroundSealed ==
  /\ GROUND \notin held
  /\ job.env # GROUND /\ job.caller # GROUND
  /\ \A e \in DOMAIN envs : \A n \in Bound(e) : envs[e].frame[n] # Env(GROUND)
  /\ envs[GROUND] = [parents |-> << >>, frame |-> [n \in Builtins |-> Builtin]]

(* A path names the parent to take at each environment; the environment it *)
(* leads to from e, or 0.                                                  *)
Paths == UNION {[1 .. k -> 1 .. 2] : k \in 0 .. Len(envs)}
EndOf(e, path) ==
  LET end[k \in 0 .. Len(path)] ==
        IF k = 0 THEN e
        ELSE IF end[k-1] # 0 /\ path[k] \in DOMAIN envs[end[k-1]].parents
             THEN envs[end[k-1]].parents[path[k]] ELSE 0
  IN  end[Len(path)]

(* Depth first, parents from left to right: an environment before what is  *)
(* above it, the first parent with all above it before the second.         *)
Precedes(p, q) ==
  \E k \in 0 .. Len(p) :
    /\ k <= Len(q) /\ \A i \in 1 .. k : p[i] = q[i]
    /\ k = Len(p) \/ (k < Len(q) /\ p[k+1] < q[k+1])

(* Looking a name up finds the binding that is first in this order,        *)
(* however its environment is shared, and reports it unbound only when no  *)
(* environment above binds it.  It costs no memory as far as there is one  *)
(* parent, and from there on a cell for each way that leads to an          *)
(* environment searched in vain; so it may run out of memory although the  *)
(* name is bound.  Docs: ARCHITECTURE.md:175.  Code: lisp.rs:693-781.      *)
LookupRight ==
  job.at = "idle" /\ job.op = "lookup" =>
    LET paths   == {p \in Paths : EndOf(job.env, p) # 0}
        binding == {p \in paths : job.name \in Bound(EndOf(job.env, p))}
        shared  == {p \in paths : \E k \in 0 .. Len(p) - 1 :
                                    Len(envs[EndOf(job.env, SubSeq(p, 1, k))].parents) > 1}
        first   == CHOOSE p \in binding : \A q \in binding : Precedes(p, q)
        vain    == IF binding = {} THEN shared
                   ELSE {p \in shared : p # first /\ Precedes(p, first)}
        paid    == before.room - room
    IN  \/ /\ job.answer = "Ok"
           /\ binding # {}
           /\ job.obj = envs[EndOf(job.env, first)].frame[job.name]
           /\ paid = Cardinality(vain)
        \/ job.answer = "UnboundVariable" /\ binding = {} /\ paid = Cardinality(vain)
        \/ job.answer = "OutOfMemory" /\ room = 0 /\ paid < Cardinality(vain)

(* The part of a tree at a path of cars and cdrs, or Builtin.              *)
Part(d, path) ==
  LET part[k \in 0 .. Len(path)] ==
        IF k = 0 THEN d
        ELSE IF part[k-1].kind # "Pair" THEN Builtin
             ELSE IF path[k] = "car" THEN part[k-1].car ELSE part[k-1].cdr
  IN  part[Len(path)]
Turns == UNION {[1 .. k -> {"car", "cdr"}] : k \in 0 .. TreeDepth}

ASSUME DepthAssumption ==
  \A p \in Trees : \A t \in Turns : Len(t) = TreeDepth => Part(p, t).kind # "Pair"

(* A definition, or a call, binds every symbol of the parameter tree to    *)
(* the part of the object at its place, an operative also its last         *)
(* parameter to the caller's environment, and nothing else in any          *)
(* environment changes.  One that fails has bound some of them and no      *)
(* other, and a call that fails leaves no environment.  Only a lambda,     *)
(* whose parameters nobody validates, can have a symbol at two places; it  *)
(* denotes one of the parts.  The fn shorthand is no tree and not looked   *)
(* at.  Docs: LANGUAGE.md:121-154.  Code:                                  *)
(* eval.rs:428-472, 540-572, 843-884.                                      *)
DefineMatches ==
  job.at = "idle" /\ job.op \in {"define", "vau", "lambda"} =>
    LET places(n) == {t \in Turns : Part(job.ptree, t) = Symbol(n)}
        parts(n)  == {Part(job.obj, t) : t \in places(n)}
        calls     == job.op # "define"
        old(n)    == IF calls \/ n \notin DOMAIN before.envs[job.env].frame THEN {}
                     ELSE {before.envs[job.env].frame[n]}
        new(n)    == IF n \in Bound(job.env) THEN {envs[job.env].frame[n]} ELSE {}
    IN  /\ \A e \in DOMAIN before.envs : calls \/ e # job.env => envs[e] = before.envs[e]
        /\ job.answer = "Ok" =>
             \A n \in Name :
               IF calls /\ n = job.name
               THEN new(n) = {Env(job.caller)} /\ places(n) = {}
               ELSE IF places(n) = {} THEN new(n) = old(n)
               ELSE /\ new(n) # {} /\ new(n) \subseteq parts(n)
                    /\ job.op # "lambda" => Cardinality(places(n)) = 1
        /\ job.answer # "Ok" /\ ~calls =>
             \A n \in Name : new(n) = old(n) \/ new(n) \subseteq parts(n)
        /\ calls => /\ Len(envs) = Len(before.envs) + IF job.answer = "Ok" THEN 1 ELSE 0
                    /\ job.answer = "Ok" => /\ job.env = Len(envs)
                                            /\ envs[job.env].parents = <<job.cur>>
=============================================================================
