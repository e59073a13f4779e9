--------------------------- MODULE GriftEnvProofs ---------------------------
(***************************************************************************)
(* Environments under whatever the program defines, calls, sets and looks  *)
(* up, with any names, any source text, any number of environments and     *)
(* any number of cells, and however operations fail half way: the ground   *)
(* environment is sealed, every step leaves a state of the right type that *)
(* counts its cells right, a definition that succeeds has bound exactly    *)
(* the names of its parameter tree, each to its part of the operand, and a *)
(* lookup finds the binding that comes first, whatever graph the           *)
(* environments make.                                                      *)
(***************************************************************************)
EXTENDS GriftEnv, SequenceTheorems, FiniteSetTheorems, WellFoundedInduction, TLAPS

USE EnvAssumption

(* The environments the program may come by, and the values that may be    *)
(* bound: never the ground environment.                                    *)
Usable      == Nat \ {0, GROUND}
Val         == Data \cup {Builtin} \cup {Env(e) : e \in Usable}
Frame       == UNION {[D -> Val] : D \in SUBSET Name}
Environment == [parents : Seq(Nat), frame : Frame]
Ground      == [parents |-> << >>, frame |-> [n \in Builtins |-> Builtin]]

EnvsOK(s) == s \in Seq(Environment) /\ Len(s) >= GLOBAL /\ s[GROUND] = Ground

Binding == {"validate", "enter", "match"}
JobShape(j) == j = [at |-> j.at, op |-> j.op, env |-> j.env, name |-> j.name,
                    ptree |-> j.ptree, obj |-> j.obj, todo |-> j.todo, seen |-> j.seen,
                    cur |-> j.cur, caller |-> j.caller, stack |-> j.stack, answer |-> j.answer]
JobOK(j) ==
  /\ JobShape(j)
  /\ j.env \in Usable /\ j.caller \in Usable
  /\ j.ptree \in Data
  /\ j.name \in Name \cup {None}
  /\ j.at \in Binding => j.obj \in Val /\ j.cur \in Nat
  /\ j.at = "validate" => j.todo \in Seq(Data)
  /\ j.at = "match" => j.todo \in Seq(Data \X Val)

(* A call that is matching its operands has made an environment for its    *)
(* body, which is what it drops when it fails.                             *)
BodyMade == job.at = "match" /\ job.op # "define" => Len(envs) > GLOBAL

SealInv == EnvsOK(envs) /\ held \subseteq Usable /\ JobOK(job) /\ BodyMade
-----------------------------------------------------------------------------
LEMMA NoJobOK == JobOK(NoJob) /\ NoJob.at = "idle"
BY DEF NoJob, JobOK, JobShape, Binding, Usable, GROUND, GLOBAL

(* What a job that ends leaves behind.                                     *)
LEMMA FinishOK ==
  ASSUME JobOK(job), NEW x, Finish(x)
  PROVE  JobOK(job') /\ job'.at = "idle"
BY DEF Finish, JobOK, JobShape, Binding

LEMMA GivenVal ==
  ASSUME held \subseteq Usable
  PROVE  /\ Given \subseteq Val
         /\ \A t \in Given : t.kind = "Environment" => t.env \in Usable
<1>1. \A d \in Objects : d \in Val /\ d.kind # "Environment"
  BY DEF Val
<1>2. \A e \in held : Env(e) \in Val /\ Env(e).kind = "Environment" /\ Env(e).env = e
  BY DEF Val, Env
<1> QED BY <1>1, <1>2 DEF Given

LEMMA ValNotGround == \A v \in Val : v # Env(GROUND)
<1>1. Env(GROUND) \notin Data /\ Env(GROUND) # Builtin
  BY DEF Env, Builtin
<1>2. \A e \in Usable : Env(e) # Env(GROUND)
  <2>1. \A e : Env(e).env = e
    BY DEF Env
  <2> QED BY <2>1 DEF Usable
<1> QED BY <1>1, <1>2 DEF Val

LEMMA FrameBinds ==
  ASSUME NEW f \in Frame, NEW n \in Name, NEW v \in Val
  PROVE  [m \in DOMAIN f \cup {n} |-> IF m = n THEN v ELSE f[m]] \in Frame
<1>1. PICK D \in SUBSET Name : f \in [D -> Val]
  BY DEF Frame
<1>2. [m \in D \cup {n} |-> IF m = n THEN v ELSE f[m]] \in [D \cup {n} -> Val]
  BY <1>1
<1>3. DOMAIN f = D /\ D \cup {n} \in SUBSET Name
  BY <1>1
<1> QED BY <1>2, <1>3 DEF Frame

(* Writing a frame other than the ground frame.                            *)
LEMMA WriteFrame ==
  ASSUME NEW s, EnvsOK(s), NEW e \in Usable \cap DOMAIN s, NEW f \in Frame
  PROVE  /\ EnvsOK([s EXCEPT ![e].frame = f])
         /\ Len([s EXCEPT ![e].frame = f]) = Len(s)
<1> DEFINE x == [s[e] EXCEPT !.frame = f]
           g == [s EXCEPT ![e] = x]
<1>1. s \in Seq(Environment) /\ e \in 1 .. Len(s) /\ e # GROUND
  BY DEF EnvsOK, Usable
<1>2. x \in Environment
  <2>1. s[e] \in Environment
    BY <1>1
  <2> QED BY <2>1 DEF Environment
<1> HIDE DEF x
<1>3. g \in Seq(Environment) /\ Len(g) = Len(s) /\ g[GROUND] = s[GROUND]
  BY <1>1, <1>2, ExceptSeq DEF EnvsOK, GROUND, GLOBAL
<1>4. [s EXCEPT ![e].frame = f] = g
  BY DEF x
<1> QED BY <1>3, <1>4 DEF EnvsOK

LEMMA BindsOK ==
  ASSUME EnvsOK(envs), NEW e \in Usable, NEW n \in Name, NEW v \in Val, Binds(e, n, v)
  PROVE  EnvsOK(envs') /\ Len(envs') = Len(envs)
<1> DEFINE f == [m \in DOMAIN envs[e].frame \cup {n} |-> IF m = n THEN v ELSE envs[e].frame[m]]
<1>1. envs' = [envs EXCEPT ![e].frame = f]
  BY DEF Binds
<1>2. CASE e \in DOMAIN envs
  <2>1. envs[e].frame \in Frame
    <3>1. envs \in Seq(Environment) /\ e \in 1 .. Len(envs)
      BY <1>2 DEF EnvsOK
    <3>2. envs[e] \in Environment
      BY <3>1
    <3> QED BY <3>2 DEF Environment
  <2>2. f \in Frame
    BY <2>1, FrameBinds
  <2>3. e \in Usable \cap DOMAIN envs
    BY <1>2
  <2> HIDE DEF f
  <2> QED BY <1>1, <2>2, <2>3, WriteFrame
<1>3. CASE e \notin DOMAIN envs
  <2> HIDE DEF f
  <2>1. PICK n2 \in Nat : envs \in [1 .. n2 -> Environment]
    BY SeqDef DEF EnvsOK
  <2>2. e \notin 1 .. n2
    BY <1>3, <2>1
  <2>3. envs' = envs
    BY <1>1, <2>1, <2>2
  <2> QED BY <2>3
<1> QED BY <1>2, <1>3

LEMMA ExtendOK ==
  ASSUME EnvsOK(envs), NEW ps \in Seq(Nat)
  PROVE  LET x == Append(envs, [parents |-> ps, frame |-> [n \in {} |-> Nil]])
         IN  EnvsOK(x) /\ Len(x) = Len(envs) + 1
<1>1. [n \in {} |-> Nil] \in Frame
  <2>1. [n \in {} |-> Nil] \in [{} -> Val]
    OBVIOUS
  <2> QED BY <2>1 DEF Frame
<1>2. [parents |-> ps, frame |-> [n \in {} |-> Nil]] \in Environment
  BY <1>1 DEF Environment
<1> QED BY <1>2 DEF EnvsOK, GROUND, GLOBAL

LEMMA FailOK ==
  ASSUME SealInv, NEW x, Fail(x)
  PROVE  SealInv'
<1>1. JobOK(job') /\ job'.at = "idle"
  BY FinishOK DEF Fail, SealInv
<1>2. CASE job.at = "match" /\ job.op # "define"
  <2>1. envs' = SubSeq(envs, 1, Len(envs) - 1) /\ Len(envs) > GLOBAL
    BY <1>2 DEF Fail, SealInv, BodyMade
  <2>2. EnvsOK(envs')
    BY <2>1 DEF SealInv, EnvsOK, GROUND, GLOBAL
  <2> QED BY <1>1, <2>2 DEF SealInv, BodyMade, Fail
<1>3. CASE ~(job.at = "match" /\ job.op # "define")
  BY <1>1, <1>3 DEF SealInv, BodyMade, Fail
<1> QED BY <1>2, <1>3
-----------------------------------------------------------------------------
LEMMA InitOK == EnvInit => SealInv
<1> SUFFICES ASSUME EnvInit PROVE SealInv
  OBVIOUS
<1> DEFINE g == [parents |-> <<GROUND>>, frame |-> [n \in {} |-> Nil]]
<1>1. Ground \in Environment
  <2>1. [n \in Builtins |-> Builtin] \in [Builtins -> Val]
    BY DEF Val
  <2>2. [n \in Builtins |-> Builtin] \in Frame
    BY <2>1 DEF Frame
  <2> QED BY <2>2 DEF Ground, Environment
<1>2. g \in Environment
  <2>1. [n \in {} |-> Nil] \in [{} -> Val]
    OBVIOUS
  <2>2. [n \in {} |-> Nil] \in Frame
    BY <2>1 DEF Frame
  <2> QED BY <2>2 DEF Environment, GROUND
<1>3. envs = <<Ground, g>>
  BY DEF EnvInit, Ground
<1> HIDE DEF g
<1>4. EnvsOK(envs)
  BY <1>1, <1>2, <1>3 DEF EnvsOK, GROUND, GLOBAL
<1> QED BY <1>4, NoJobOK DEF EnvInit, SealInv, BodyMade, Usable, GROUND, GLOBAL

LEMMA MakeOK ==
  ASSUME SealInv, NEW ps \in Parents, MakeEnvironment(ps)
  PROVE  SealInv'
<1>1. job'.at = "idle" /\ JobOK(job')
  BY NoJobOK DEF MakeEnvironment, Begin, NoJob, JobOK, JobShape, Binding
<1>2. ps \in Seq(Nat)
  <2>1. PICK k \in 0 .. 2 : ps \in [1 .. k -> held]
    BY DEF Parents
  <2>2. ps \in [1 .. k -> Nat] /\ k \in Nat
    BY <2>1 DEF SealInv, Usable
  <2> QED BY <2>2, SeqDef
<1>3. CASE UNCHANGED <<envs, held>>
  BY <1>1, <1>3 DEF SealInv, BodyMade
<1>4. CASE /\ envs' = Append(envs, [parents |-> ps, frame |-> [n \in {} |-> Nil]])
           /\ held' = held \cup {NewEnv}
  <2>1. EnvsOK(envs')
    BY <1>2, <1>4, ExtendOK DEF SealInv
  <2>2. NewEnv \in Usable
    BY DEF SealInv, EnvsOK, NewEnv, Usable, GROUND, GLOBAL
  <2> QED BY <1>1, <1>4, <2>1, <2>2 DEF SealInv, BodyMade
<1> QED BY <1>3, <1>4 DEF MakeEnvironment

LEMMA DefineOK ==
  ASSUME SealInv, NEW e \in held, NEW p \in Trees, NEW v \in Given, BeginDefine(e, p, v)
  PROVE  SealInv'
<1>1. e \in Usable /\ p \in Data /\ v \in Val
  BY GivenVal DEF SealInv
<1>2. job' = [at |-> "validate", op |-> "define", env |-> e, name |-> None, ptree |-> p,
              obj |-> v, todo |-> <<p>>, seen |-> {}, cur |-> GLOBAL, caller |-> GLOBAL,
              stack |-> << >>, answer |-> "Ok"]
  BY DEF BeginDefine, Begin, NoJob
<1>3. <<p>> \in Seq(Data)
  BY <1>1
<1>4. JobOK(job') /\ job'.at = "validate"
  BY <1>1, <1>2, <1>3 DEF JobOK, JobShape, Binding, Usable, GROUND, GLOBAL
<1> QED BY <1>4 DEF BeginDefine, SealInv, BodyMade

LEMMA LambdaOK ==
  ASSUME SealInv, NEW c \in held, NEW p \in Trees, NEW v \in Given, BeginLambda(c, p, v)
  PROVE  SealInv'
<1>1. c \in Usable /\ p \in Data /\ v \in Val
  BY GivenVal DEF SealInv
<1>2. job' = [at |-> "enter", op |-> "lambda", env |-> GLOBAL, name |-> None, ptree |-> p,
              obj |-> v, todo |-> << >>, seen |-> {}, cur |-> c, caller |-> GLOBAL,
              stack |-> << >>, answer |-> "Ok"]
  BY DEF BeginLambda, Begin, NoJob
<1>3. JobOK(job') /\ job'.at = "enter"
  BY <1>1, <1>2 DEF JobOK, JobShape, Binding, Usable, GROUND, GLOBAL
<1> QED BY <1>3 DEF BeginLambda, SealInv, BodyMade

LEMMA VauOK ==
  ASSUME SealInv, NEW c \in held, NEW e \in held, NEW p \in Trees, NEW n \in EnvParams,
         NEW v \in Objects, BeginVau(c, e, p, n, v)
  PROVE  SealInv'
<1>1. c \in Usable /\ e \in Usable /\ p \in Data /\ v \in Val /\ n \in Name \cup {None}
  BY DEF SealInv, Val
<1>2. job' = [at |-> "validate", op |-> "vau", env |-> GLOBAL, name |-> n, ptree |-> p,
              obj |-> v, todo |-> <<p>>, seen |-> {}, cur |-> c, caller |-> e,
              stack |-> << >>, answer |-> "Ok"]
  BY DEF BeginVau, Begin, NoJob
<1>3. <<p>> \in Seq(Data)
  BY <1>1
<1>4. JobOK(job') /\ job'.at = "validate"
  BY <1>1, <1>2, <1>3 DEF JobOK, JobShape, Binding, Usable, GROUND, GLOBAL
<1> QED BY <1>4 DEF BeginVau, SealInv, BodyMade

LEMMA SetOK ==
  ASSUME SealInv, NEW t \in Given, NEW n \in Name, NEW v \in Given, Set(t, n, v)
  PROVE  SealInv'
<1>1. v \in Val /\ (t.kind = "Environment" => t.env \in Usable)
  BY GivenVal DEF SealInv
<1>2. JobOK(job') /\ job'.at = "idle" /\ held' = held
  <2> DEFINE Answered(x, e) ==
        [at |-> "idle", op |-> "set", env |-> e, name |-> n, ptree |-> Nil,
         obj |-> v, todo |-> << >>, seen |-> {}, cur |-> GLOBAL, caller |-> GLOBAL,
         stack |-> << >>, answer |-> x]
  <2>1. \A x, e : e \in Usable => JobOK(Answered(x, e)) /\ Answered(x, e).at = "idle"
    BY <1>1 DEF JobOK, JobShape, Binding, Usable, GROUND, GLOBAL
  <2>2. CASE t.kind # "Environment"
    <3>1. job' = Answered("TypeError", GLOBAL)
      BY <2>2 DEF Set, Begin, NoJob
    <3>2. GLOBAL \in Usable
      BY DEF Usable, GROUND, GLOBAL
    <3> HIDE DEF Answered
    <3> QED BY <2>1, <3>1, <3>2 DEF Set
  <2>3. CASE t.kind = "Environment"
    <3>1. job' = Answered("Ok", t.env) \/ job' = Answered("UnboundVariable", t.env)
      <4>1. ASSUME NEW x, NEW e, Begin([NoJob EXCEPT !.op = "set", !.env = e, !.name = n,
                                                     !.obj = v, !.answer = x])
            PROVE  job' = Answered(x, e)
        BY <4>1 DEF Begin, NoJob
      <4> HIDE DEF Answered
      <4> QED BY <2>3, <4>1 DEF Set
    <3> HIDE DEF Answered
    <3> QED BY <1>1, <2>1, <2>3, <3>1 DEF Set
  <2> QED BY <2>2, <2>3
<1>3. CASE UNCHANGED envs
  BY <1>2, <1>3 DEF SealInv, BodyMade
<1>4. CASE /\ t.kind = "Environment" /\ n \in Bound(t.env)
           /\ envs' = [envs EXCEPT ![t.env].frame[n] = v]
  <2> DEFINE f == [envs[t.env].frame EXCEPT ![n] = v]
  <2>1. CASE t.env \in DOMAIN envs
    <3>1. envs \in Seq(Environment) /\ t.env \in 1 .. Len(envs)
      BY <2>1 DEF SealInv, EnvsOK
    <3>2. envs[t.env] \in Environment
      BY <3>1
    <3>3. envs[t.env].frame \in Frame
      BY <3>2 DEF Environment
    <3>4. PICK D \in SUBSET Name : envs[t.env].frame \in [D -> Val]
      BY <3>3 DEF Frame
    <3>5. f \in [D -> Val]
      BY <1>1, <3>4
    <3>6. f \in Frame
      BY <3>5 DEF Frame
    <3>7. t.env \in Usable \cap DOMAIN envs
      BY <1>1, <1>4, <2>1
    <3>8. envs' = [envs EXCEPT ![t.env].frame = f]
      BY <1>4
    <3> HIDE DEF f
    <3>9. EnvsOK(envs')
      BY <3>6, <3>7, <3>8, WriteFrame DEF SealInv
    <3> QED BY <1>2, <3>9 DEF SealInv, BodyMade
  <2>2. CASE t.env \notin DOMAIN envs
    <3>1. PICK k \in Nat : envs \in [1 .. k -> Environment]
      BY SeqDef DEF SealInv, EnvsOK
    <3>2. envs' = envs
      BY <1>4, <2>2, <3>1
    <3> QED BY <1>2, <3>2 DEF SealInv, BodyMade
  <2> QED BY <2>1, <2>2
<1> QED BY <1>3, <1>4 DEF Set

LEMMA LookupOK ==
  ASSUME SealInv, \/ \E e \in held, n \in Name : BeginLookup(e, n)
                  \/ Chain \/ Return \/ Descend
  PROVE  SealInv'
<1>1. CASE \E e \in held, n \in Name : BeginLookup(e, n)
  <2>1. PICK e \in held, n \in Name : BeginLookup(e, n)
    BY <1>1
  <2>2. job' = [at |-> "chain", op |-> "lookup", env |-> e, name |-> n, ptree |-> Nil,
                obj |-> Nil, todo |-> << >>, seen |-> {}, cur |-> e, caller |-> GLOBAL,
                stack |-> << >>, answer |-> "Ok"]
    BY <2>1 DEF BeginLookup, Begin, NoJob
  <2>3. JobOK(job') /\ job'.at = "chain"
    BY <2>2 DEF SealInv, JobOK, JobShape, Binding, Usable, GROUND, GLOBAL
  <2> QED BY <2>1, <2>3 DEF BeginLookup, SealInv, BodyMade
<1>2. CASE Chain \/ Return \/ Descend
  <2>1. JobOK(job) /\ job.at \notin Binding /\ UNCHANGED <<envs, held>>
    BY <1>2 DEF SealInv, Chain, Return, Descend, Binding
  <2>2. ASSUME NEW e, Found(e) PROVE JobOK(job') /\ job'.at \notin Binding
    BY <2>1, <2>2 DEF Found, JobOK, JobShape, Binding
  <2>3. ASSUME NEW a, Search(a) PROVE JobOK(job') /\ job'.at \notin Binding
    BY <2>1, <2>3 DEF Search, JobOK, JobShape, Binding
  <2>4. ASSUME NEW e, job' = [job EXCEPT !.cur = e] PROVE JobOK(job') /\ job'.at \notin Binding
    BY <2>1, <2>4 DEF JobOK, JobShape, Binding
  <2>5. ASSUME NEW x, Finish(x) PROVE JobOK(job') /\ job'.at \notin Binding
    BY <2>1, <2>5, FinishOK DEF Binding
  <2>6. ASSUME Chain PROVE JobOK(job') /\ job'.at \notin Binding
    BY <2>2, <2>3, <2>4, <2>5, <2>6 DEF Chain
  <2>7. ASSUME Return PROVE JobOK(job') /\ job'.at \notin Binding
    BY <2>3, <2>5, <2>7 DEF Return
  <2>8. ASSUME Descend PROVE JobOK(job') /\ job'.at \notin Binding
    BY <2>2, <2>3, <2>5, <2>8 DEF Descend
  <2>9. JobOK(job') /\ job'.at \notin Binding
    BY <1>2, <2>6, <2>7, <2>8
  <2> QED BY <2>1, <2>9 DEF SealInv, BodyMade, Binding
<1> QED BY <1>1, <1>2

LEMMA ValidateOK ==
  ASSUME SealInv, Validate
  PROVE  SealInv'
<1> DEFINE p == Head(job.todo)
           rest == Tail(job.todo)
<1>1. job.at = "validate" /\ job.todo \in Seq(Data) /\ job.todo # << >>
  BY DEF Validate, SealInv, JobOK
<1>2. p \in Data /\ rest \in Seq(Data)
  BY <1>1
<1>3. CASE \E x : Fail(x)
  BY <1>3, FailOK
<1>4. CASE /\ \E ps \in Seq(Data) : \E ns : job' = [job EXCEPT !.todo = ps, !.seen = ns]
           /\ UNCHANGED <<envs, held>>
  BY <1>1, <1>4 DEF SealInv, BodyMade, JobOK, JobShape, Binding
<1>5. ASSUME job' = [job EXCEPT !.todo = rest], UNCHANGED <<envs, held>>
      PROVE  SealInv'
  <2>1. job' = [job EXCEPT !.todo = rest, !.seen = job.seen]
    BY <1>5 DEF SealInv, JobOK, JobShape
  <2> QED BY <1>2, <1>4, <1>5, <2>1
<1>6. ASSUME job' = [job EXCEPT !.todo = <<p.car, p.cdr>> \o rest], UNCHANGED <<envs, held>>,
             p.kind = "Pair"
      PROVE  SealInv'
  <2>1. <<p.car, p.cdr>> \o rest \in Seq(Data)
    BY <1>2, <1>6
  <2>2. job' = [job EXCEPT !.todo = <<p.car, p.cdr>> \o rest, !.seen = job.seen]
    BY <1>6 DEF SealInv, JobOK, JobShape
  <2> QED BY <1>4, <1>6, <2>1, <2>2
<1>7. ASSUME job' = [job EXCEPT !.todo = rest, !.seen = @ \cup {p.name}], UNCHANGED <<envs, held>>
      PROVE  SealInv'
  BY <1>2, <1>4, <1>7
<1> HIDE DEF p, rest
<1> QED BY <1>3, <1>5, <1>6, <1>7 DEF Validate, p, rest

LEMMA ValidatedOK ==
  ASSUME SealInv, Validated
  PROVE  SealInv'
<1>1. CASE \E x : Fail(x)
  BY <1>1, FailOK
<1>2. CASE /\ job.op = "define"
           /\ job' = [job EXCEPT !.at = "match", !.todo = << <<job.ptree, job.obj>> >>]
           /\ UNCHANGED <<envs, held>>
  <2>1. << <<job.ptree, job.obj>> >> \in Seq(Data \X Val)
    BY DEF Validated, SealInv, JobOK, Binding
  <2>2. JobOK(job') /\ job'.op = "define"
    BY <1>2, <2>1 DEF Validated, SealInv, JobOK, JobShape, Binding
  <2> QED BY <1>2, <2>2 DEF SealInv, BodyMade
<1>3. CASE job' = [job EXCEPT !.at = "enter"] /\ UNCHANGED <<envs, held>>
  BY <1>3 DEF Validated, SealInv, BodyMade, JobOK, JobShape, Binding
<1> QED BY <1>1, <1>2, <1>3 DEF Validated

LEMMA EnterOK ==
  ASSUME SealInv, Enter
  PROVE  SealInv'
<1>1. CASE Finish("OutOfMemory") /\ UNCHANGED envs
  <2>1. JobOK(job') /\ job'.at = "idle"
    BY <1>1, FinishOK DEF SealInv
  <2> QED BY <1>1, <2>1 DEF Enter, SealInv, BodyMade
<1>2. CASE /\ envs' = Append(envs, [parents |-> <<job.cur>>, frame |-> [n \in {} |-> Nil]])
           /\ job' = [job EXCEPT !.at = "match", !.env = NewEnv,
                                 !.todo = << <<job.ptree, job.obj>> >>]
  <2>1. /\ <<job.cur>> \in Seq(Nat)
        /\ << <<job.ptree, job.obj>> >> \in Seq(Data \X Val)
    BY DEF Enter, SealInv, JobOK, Binding
  <2>2. EnvsOK(envs') /\ Len(envs') = Len(envs) + 1
    BY <1>2, <2>1, ExtendOK DEF SealInv
  <2>3. NewEnv \in Usable /\ Len(envs') > GLOBAL
    BY <2>2 DEF SealInv, EnvsOK, NewEnv, Usable, GROUND, GLOBAL
  <2>4. JobOK(job')
    BY <1>2, <2>1, <2>3 DEF Enter, SealInv, JobOK, JobShape, Binding
  <2> QED BY <2>2, <2>3, <2>4 DEF Enter, SealInv, BodyMade
<1> QED BY <1>1, <1>2 DEF Enter

LEMMA MatchOK ==
  ASSUME SealInv, Match
  PROVE  SealInv'
<1> DEFINE p == Head(job.todo)[1]
           o == Head(job.todo)[2]
           rest == Tail(job.todo)
<1>1. job.at = "match" /\ job.todo \in Seq(Data \X Val) /\ job.todo # << >>
  BY DEF Match, SealInv, JobOK
<1>2. p \in Data /\ o \in Val /\ rest \in Seq(Data \X Val)
  <2>1. Head(job.todo) \in Data \X Val
    BY <1>1
  <2> QED BY <1>1, <2>1
<1>3. ASSUME NEW todo \in Seq(Data \X Val), job' = [job EXCEPT !.todo = todo]
      PROVE  JobOK(job') /\ job'.at = job.at /\ job'.op = job.op
  BY <1>1, <1>3 DEF SealInv, JobOK, JobShape, Binding
<1>4. CASE \E x : Fail(x)
  BY <1>4, FailOK
<1>5. ASSUME job' = [job EXCEPT !.todo = rest], UNCHANGED <<envs, held>>
      PROVE  SealInv'
  BY <1>2, <1>3, <1>5 DEF SealInv, BodyMade
<1>6. ASSUME p.kind = "Symbol", Binds(job.env, p.name, o),
             job' = [job EXCEPT !.todo = rest], UNCHANGED held
      PROVE  SealInv'
  <2>1. p.name \in Name /\ job.env \in Usable
    BY <1>2, <1>6 DEF SealInv, JobOK
  <2>2. EnvsOK(envs') /\ Len(envs') = Len(envs)
    BY <1>2, <1>6, <2>1, BindsOK DEF SealInv
  <2> QED BY <1>2, <1>3, <1>6, <2>2 DEF SealInv, BodyMade
<1>7. ASSUME p.kind = "Pair", o.kind = "Pair", UNCHANGED <<envs, held>>,
             job' = [job EXCEPT !.todo = << <<p.car, o.car>>, <<p.cdr, o.cdr>> >> \o rest]
      PROVE  SealInv'
  <2>1. o \in Data
    BY <1>2, <1>7 DEF Val, Builtin, Env
  <2>2. << <<p.car, o.car>>, <<p.cdr, o.cdr>> >> \in Seq(Data \X Val)
    BY <1>2, <1>7, <2>1 DEF Val
  <2>3. << <<p.car, o.car>>, <<p.cdr, o.cdr>> >> \o rest \in Seq(Data \X Val)
    BY <1>2, <2>2
  <2> QED BY <1>3, <1>7, <2>3 DEF SealInv, BodyMade
<1> HIDE DEF p, o, rest
<1> QED BY <1>4, <1>5, <1>6, <1>7 DEF Match, p, o, rest

LEMMA MatchedOK ==
  ASSUME SealInv, Matched
  PROVE  SealInv'
<1>1. CASE \E x : Fail(x)
  BY <1>1, FailOK
<1>2. CASE Finish("Ok") /\ UNCHANGED <<envs, held>>
  BY <1>2, FinishOK DEF SealInv, BodyMade
<1>3. CASE /\ Finish("Ok") /\ held' = held \cup {job.env}
           /\ \/ UNCHANGED envs
              \/ job.name # None /\ Binds(job.env, job.name, Env(job.caller))
  <2>1. JobOK(job') /\ job'.at = "idle" /\ job.env \in Usable
    BY <1>3, FinishOK DEF SealInv, JobOK
  <2>2. Env(job.caller) \in Val
    BY DEF SealInv, JobOK, Val
  <2>3. EnvsOK(envs')
    BY <1>3, <2>1, <2>2, BindsOK DEF SealInv, JobOK
  <2> QED BY <1>3, <2>1, <2>3 DEF SealInv, BodyMade
<1> QED BY <1>1, <1>2, <1>3 DEF Matched

LEMMA CollectOK ==
  ASSUME SealInv, Collect
  PROVE  SealInv'
BY NoJobOK DEF Collect, SealInv, BodyMade

LEMMA StepOK == SealInv /\ [EnvNext]_envVars => SealInv'
<1> SUFFICES ASSUME SealInv, [EnvNext]_envVars PROVE SealInv'
  OBVIOUS
<1>1. CASE UNCHANGED envVars
  BY <1>1 DEF envVars, SealInv, BodyMade
<1>2. CASE \E ps \in Parents : MakeEnvironment(ps)
  BY <1>2, MakeOK
<1>3. CASE \E e \in held, p \in Trees :
             \/ \E v \in Given : BeginDefine(e, p, v) \/ BeginLambda(e, p, v)
             \/ \E c \in held, n \in EnvParams, v \in Objects : BeginVau(c, e, p, n, v)
  BY <1>3, DefineOK, LambdaOK, VauOK
<1>4. CASE \E t \in Given, n \in Name, v \in Given : Set(t, n, v)
  BY <1>4, SetOK
<1>5. CASE (\E e \in held, n \in Name : BeginLookup(e, n)) \/ Chain \/ Return \/ Descend
  BY <1>5, LookupOK
<1>6. CASE Validate \/ Validated \/ Enter \/ Match \/ Matched \/ Collect
  BY <1>6, ValidateOK, ValidatedOK, EnterOK, MatchOK, MatchedOK, CollectOK
<1> QED BY <1>1, <1>2, <1>3, <1>4, <1>5, <1>6 DEF EnvNext

LEMMA InvSealed == SealInv => GroundSealed
<1> SUFFICES ASSUME SealInv PROVE GroundSealed
  OBVIOUS
<1>1. ASSUME NEW e \in DOMAIN envs, NEW n \in Bound(e)
      PROVE  envs[e].frame[n] # Env(GROUND)
  <2>1. envs \in Seq(Environment) /\ e \in 1 .. Len(envs)
    BY DEF SealInv, EnvsOK
  <2>2. envs[e].frame \in Frame
    <3>1. envs[e] \in Environment
      BY <2>1
    <3> QED BY <3>1 DEF Environment
  <2>3. envs[e].frame[n] \in Val
    BY <2>2 DEF Frame, Bound
  <2> QED BY <2>3, ValNotGround
<1> QED BY <1>1 DEF GroundSealed, SealInv, EnvsOK, JobOK, Ground, Usable

(* No operation can reach the ground environment or change what it binds,  *)
(* whichever names and source text a program uses and whatever fails.      *)
(* Code: op_define, op_set, op_vau, op_lambda, make-environment,           *)
(* env_define and env_set (eval.rs, lisp.rs).                              *)
THEOREM GroundIsSealed == EnvSpec => []GroundSealed
<1>1. EnvInit => SealInv
  BY InitOK
<1>2. SealInv /\ [EnvNext]_envVars => SealInv'
  BY StepOK
<1>3. SealInv => GroundSealed
  BY InvSealed
<1> QED BY <1>1, <1>2, <1>3, PTL DEF EnvSpec
-----------------------------------------------------------------------------
(* Well-formedness, and that the memory a program is charged for is what   *)
(* its environments take.  "Used" is a sum along the environments, so the  *)
(* lemmas about it compare two such sums by a least place at which they    *)
(* are not as claimed.                                                     *)
LEMMA LeastNumber ==
  ASSUME NEW S \in SUBSET Nat, S # {}
  PROVE  \E m \in S : \A k \in S : ~(k < m)
<1> DEFINE R == OpToRel(<, Nat)
<1>1. IsWellFoundedOn(R, Nat)
  BY NatLessThanWellFounded, Zenon
<1>2. \A a, b : a \in Nat /\ b \in Nat /\ a < b => <<a, b>> \in R
  BY Zenon DEF OpToRel
<1> HIDE DEF R
<1>3. PICK m \in S : \A k \in S : <<k, m>> \notin R
  BY <1>1, WFMin, Zenon
<1>4. ASSUME NEW k \in S, k < m PROVE FALSE
  BY <1>2, <1>3, <1>4, Zenon
<1> QED BY <1>4

(* The first of the numbers up to n that is not as claimed. *)
LEMMA FirstWrong ==
  ASSUME NEW n \in Nat, NEW Wrong \in SUBSET (0 .. n), 0 \notin Wrong,
         \A e \in 1 .. n : e-1 \notin Wrong => e \notin Wrong
  PROVE  Wrong = {}
<1> SUFFICES ASSUME Wrong # {} PROVE FALSE
  OBVIOUS
<1>1. PICK m \in Wrong : \A k \in Wrong : ~(k < m)
  BY LeastNumber
<1>2. m \in 1 .. n /\ m - 1 \in Nat /\ m - 1 < m
  OBVIOUS
<1> QED BY <1>1, <1>2

Sums(f, w, n) == f = [e \in 0 .. n |-> IF e < GLOBAL THEN 0 ELSE f[e-1] + w[e]]

LEMMA SumIsNat ==
  ASSUME NEW n \in Nat, NEW w \in [1 .. n -> Nat], NEW f, Sums(f, w, n)
  PROVE  f \in [0 .. n -> Nat]
<1> DEFINE Wrong == {e \in 0 .. n : f[e] \notin Nat}
<1>1. \A e \in 0 .. n : f[e] = IF e < GLOBAL THEN 0 ELSE f[e-1] + w[e]
  BY DEF Sums
<1>2. 0 \notin Wrong
  BY <1>1 DEF GLOBAL
<1>3. \A e \in 1 .. n : e-1 \notin Wrong => e \notin Wrong
  BY <1>1 DEF GLOBAL
<1> HIDE DEF Wrong
<1>4. Wrong = {}
  BY <1>2, <1>3, FirstWrong DEF Wrong
<1> QED BY <1>4 DEF Wrong, Sums

LEMMA SumExists ==
  ASSUME NEW n \in Nat, NEW w \in [1 .. n -> Nat]
  PROVE  \E f : Sums(f, w, n)
<1> DEFINE Wrong == {k \in 0 .. n : ~\E f : Sums(f, w, k)}
<1>1. 0 \notin Wrong
  <2>1. Sums([e \in 0 .. 0 |-> 0], w, 0)
    BY DEF Sums, GLOBAL
  <2> QED BY <2>1
<1>2. ASSUME NEW k \in 1 .. n, k-1 \notin Wrong PROVE k \notin Wrong
  <2>1. PICK f : Sums(f, w, k-1)
    BY <1>2
  <2> DEFINE g == [e \in 0 .. k |-> IF e < k THEN f[e] ELSE IF k < GLOBAL THEN 0 ELSE f[k-1] + w[k]]
  <2>2. \A e \in 0 .. k-1 : f[e] = IF e < GLOBAL THEN 0 ELSE f[e-1] + w[e]
    BY <2>1 DEF Sums
  <2>3. \A e \in 0 .. k : g[e] = IF e < GLOBAL THEN 0 ELSE g[e-1] + w[e]
    BY <2>2 DEF GLOBAL
  <2>4. Sums(g, w, k)
    BY <2>3 DEF Sums
  <2> HIDE DEF g
  <2> QED BY <2>4
<1> HIDE DEF Wrong
<1>3. Wrong = {}
  BY <1>1, <1>2, FirstWrong DEF Wrong
<1> QED BY <1>3 DEF Wrong

(* What one place adds to, the sum adds too. *)
DifferAt(i, f, w, g, v, n) ==
  /\ n \in Nat /\ i \in GLOBAL .. n
  /\ w \in [1 .. n -> Nat] /\ v \in [1 .. n -> Nat]
  /\ \A e \in 1 .. n : e # i => v[e] = w[e]
  /\ Sums(f, w, n) /\ Sums(g, v, n)

LEMMA SumAdds ==
  ASSUME NEW i, NEW f, NEW w, NEW g, NEW v, NEW n, DifferAt(i, f, w, g, v, n)
  PROVE  g[n] = f[n] + (v[i] - w[i])
<1> USE DEF DifferAt
<1> DEFINE d == v[i] - w[i]
<1>a. d \in Int /\ v[i] = w[i] + d
  BY DEF GLOBAL
<1> HIDE DEF d
<1> DEFINE Wrong == {e \in 0 .. n : g[e] # f[e] + IF e < i THEN 0 ELSE d}
<1>0. f \in [0 .. n -> Nat] /\ g \in [0 .. n -> Nat]
  BY SumIsNat
<1>1. /\ \A e \in 0 .. n : f[e] = IF e < GLOBAL THEN 0 ELSE f[e-1] + w[e]
      /\ \A e \in 0 .. n : g[e] = IF e < GLOBAL THEN 0 ELSE g[e-1] + v[e]
  BY DEF Sums
<1>2. 0 \notin Wrong
  BY <1>1 DEF GLOBAL
<1>3. ASSUME NEW e \in 1 .. n, e-1 \notin Wrong PROVE e \notin Wrong
  <2>1. g[e-1] = f[e-1] + IF e-1 < i THEN 0 ELSE d
    BY <1>3
  <2>2. CASE e < GLOBAL
    BY <1>0, <1>1, <2>2 DEF GLOBAL
  <2>3. CASE ~(e < GLOBAL)
    <3>1. f[e] = f[e-1] + w[e] /\ g[e] = g[e-1] + v[e]
      BY <1>1, <2>3
    <3>2. v[e] = w[e] + IF e = i THEN d ELSE 0
      BY <1>a DEF GLOBAL
    <3>3. e - 1 \in 0 .. n /\ f[e-1] \in Nat /\ w[e] \in Nat /\ g[e-1] \in Nat
      BY <1>0
    <3>4. g[e] = f[e] + IF e < i THEN 0 ELSE d
      BY <1>a, <2>1, <3>1, <3>2, <3>3, SMTT(30) DEF GLOBAL
    <3> QED BY <3>4
  <2> QED BY <2>2, <2>3
<1> HIDE DEF Wrong
<1>4. Wrong = {}
  BY <1>2, <1>3, FirstWrong DEF Wrong
<1>5. g[n] = f[n] + d
  BY <1>0, <1>a, <1>4 DEF Wrong, GLOBAL
<1> QED BY <1>5 DEF d

(* A place more. *)
LEMMA SumGrows ==
  ASSUME NEW n \in Nat, n >= GLOBAL - 1, NEW w \in [1 .. n -> Nat], NEW v \in [1 .. n+1 -> Nat],
         \A e \in 1 .. n : v[e] = w[e],
         NEW f, Sums(f, w, n), NEW g, Sums(g, v, n+1)
  PROVE  g[n+1] = f[n] + v[n+1]
<1> DEFINE Wrong == {e \in 0 .. n : g[e] # f[e]}
<1>1. /\ \A e \in 0 .. n : f[e] = IF e < GLOBAL THEN 0 ELSE f[e-1] + w[e]
      /\ \A e \in 0 .. n+1 : g[e] = IF e < GLOBAL THEN 0 ELSE g[e-1] + v[e]
  BY DEF Sums
<1>2. 0 \notin Wrong
  BY <1>1 DEF GLOBAL
<1>3. \A e \in 1 .. n : e-1 \notin Wrong => e \notin Wrong
  BY <1>1 DEF GLOBAL
<1> HIDE DEF Wrong
<1>4. Wrong = {}
  BY <1>2, <1>3, FirstWrong DEF Wrong
<1>5. g[n] = f[n]
  BY <1>4 DEF Wrong
<1>6. g[n+1] = g[(n+1)-1] + v[n+1]
  BY <1>1, SMTT(30) DEF GLOBAL
<1>7. (n+1)-1 = n
  OBVIOUS
<1> QED BY <1>5, <1>6, <1>7
-----------------------------------------------------------------------------
(* The cells of one environment, and of all. *)
Takes(s, e) == 2 * Cardinality(DOMAIN s[e].frame) + IF e = GLOBAL THEN 0 ELSE 1 + Len(s[e].parents)
Weights(s)  == [e \in 1 .. Len(s) |-> IF e < GLOBAL THEN 0 ELSE Takes(s, e)]
UsedBy(s)   == LET upTo[e \in 0 .. Len(s)] ==
                     IF e < GLOBAL THEN 0
                     ELSE upTo[e-1] + 2 * Cardinality(DOMAIN s[e].frame)
                                    + IF e = GLOBAL THEN 0 ELSE 1 + Len(s[e].parents)
               IN  upTo[Len(s)]

Sized(s) == \A e \in GLOBAL .. Len(s) : IsFiniteSet(DOMAIN s[e].frame)

LEMMA UsedIsUsedBy == Used = UsedBy(envs)
BY DEF Used, UsedBy, Bound

LEMMA WeightsNat ==
  ASSUME NEW s \in Seq(Environment), Sized(s)
  PROVE  Weights(s) \in [1 .. Len(s) -> Nat]
<1>1. ASSUME NEW e \in 1 .. Len(s), ~(e < GLOBAL) PROVE Takes(s, e) \in Nat
  <2>0. s[e] \in Environment
    OBVIOUS
  <2>1. s[e].parents \in Seq(Nat)
    BY <2>0 DEF Environment
  <2>2. Cardinality(DOMAIN s[e].frame) \in Nat
    BY <1>1, FS_CardinalityType DEF Sized, GLOBAL
  <2> QED BY <2>1, <2>2 DEF Takes
<1> QED BY <1>1 DEF Weights

LEMMA UsedBySums ==
  ASSUME NEW s \in Seq(Environment), Sized(s)
  PROVE  \E f \in [0 .. Len(s) -> Nat] : Sums(f, Weights(s), Len(s)) /\ UsedBy(s) = f[Len(s)]
<1> DEFINE Body(f) == [e \in 0 .. Len(s) |->
                 IF e < GLOBAL THEN 0
                 ELSE f[e-1] + 2 * Cardinality(DOMAIN s[e].frame)
                             + IF e = GLOBAL THEN 0 ELSE 1 + Len(s[e].parents)]
           F == CHOOSE f : f = Body(f)
<1>1. UsedBy(s) = F[Len(s)]
  BY DEF UsedBy
<1>2. Weights(s) \in [1 .. Len(s) -> Nat] /\ Len(s) \in Nat
  BY WeightsNat
<1>3. ASSUME NEW f, f \in [0 .. Len(s) -> Nat]
      PROVE  Body(f) = [e \in 0 .. Len(s) |-> IF e < GLOBAL THEN 0 ELSE f[e-1] + Weights(s)[e]]
  <2>1. ASSUME NEW e \in 0 .. Len(s), ~(e < GLOBAL)
        PROVE  f[e-1] + 2 * Cardinality(DOMAIN s[e].frame)
                      + (IF e = GLOBAL THEN 0 ELSE 1 + Len(s[e].parents)) = f[e-1] + Weights(s)[e]
    <3>1. Weights(s)[e] = 2 * Cardinality(DOMAIN s[e].frame)
                          + (IF e = GLOBAL THEN 0 ELSE 1 + Len(s[e].parents))
      BY <2>1 DEF Weights, Takes, GLOBAL
    <3>2. f[e-1] \in Nat /\ Cardinality(DOMAIN s[e].frame) \in Nat
      BY <1>3, <2>1, FS_CardinalityType DEF Sized, GLOBAL
    <3>3. s[e] \in Environment
      BY <2>1 DEF GLOBAL
    <3>4. Len(s[e].parents) \in Nat
      BY <3>3 DEF Environment
    <3> QED BY <3>1, <3>2, <3>4, SMTT(30)
  <2> QED BY <2>1
<1> HIDE DEF F
<1>4. F = Body(F)
  <2>1. PICK f : Sums(f, Weights(s), Len(s))
    BY <1>2, SumExists
  <2>2. f \in [0 .. Len(s) -> Nat]
    BY <1>2, <2>1, SumIsNat
  <2>3. f = Body(f)
    BY <1>3, <2>1, <2>2 DEF Sums
  <2> HIDE DEF Body
  <2> QED BY <2>3 DEF F
<1>5. F \in [0 .. Len(s) -> Nat]
  <2> DEFINE Wrong == {e \in 0 .. Len(s) : F[e] \notin Nat}
  <2>1. \A e \in 0 .. Len(s) : F[e] = IF e < GLOBAL THEN 0
                 ELSE F[e-1] + 2 * Cardinality(DOMAIN s[e].frame)
                             + IF e = GLOBAL THEN 0 ELSE 1 + Len(s[e].parents)
    BY <1>4
  <2>2. DOMAIN F = 0 .. Len(s)
    BY <1>4
  <2>3. F = [e \in 0 .. Len(s) |-> F[e]]
    BY <1>4
  <2> HIDE DEF Body
  <2>4. 0 \notin Wrong
    BY <1>2, <2>1, SMTT(30) DEF GLOBAL
  <2>5. ASSUME NEW e \in 1 .. Len(s), e-1 \notin Wrong PROVE e \notin Wrong
    <3>1. CASE e < GLOBAL
      BY <2>1, <3>1
    <3>2. CASE ~(e < GLOBAL)
      <4>1. F[e-1] \in Nat /\ Cardinality(DOMAIN s[e].frame) \in Nat
        BY <2>5, <3>2, FS_CardinalityType DEF Sized, GLOBAL
      <4>2. s[e] \in Environment
        OBVIOUS
      <4>3. Len(s[e].parents) \in Nat
        BY <4>2 DEF Environment
      <4>4. e \in 0 .. Len(s)
        BY <1>2
      <4>5. F[e] = F[e-1] + 2 * Cardinality(DOMAIN s[e].frame)
                           + IF e = GLOBAL THEN 0 ELSE 1 + Len(s[e].parents)
        BY <2>1, <3>2, <4>4
      <4> DEFINE own == IF e = GLOBAL THEN 0 ELSE 1 + Len(s[e].parents)
                 twice == 2 * Cardinality(DOMAIN s[e].frame)
      <4>6. own \in Nat /\ twice \in Nat
        BY <4>1, <4>3
      <4>7. F[e] = F[e-1] + twice + own
        BY <4>5
      <4> HIDE DEF own, twice
      <4>8. F[e] \in Nat
        BY <4>1, <4>6, <4>7
      <4> QED BY <4>8
    <3> QED BY <3>1, <3>2
  <2> HIDE DEF Wrong
  <2>6. Wrong = {}
    BY <1>2, <2>4, <2>5, FirstWrong DEF Wrong
  <2> QED BY <2>3, <2>6 DEF Wrong
<1>6. Sums(F, Weights(s), Len(s))
  BY <1>3, <1>4, <1>5 DEF Sums
<1> QED BY <1>1, <1>5, <1>6

LEMMA UsedByNat ==
  ASSUME NEW s \in Seq(Environment), Sized(s)
  PROVE  UsedBy(s) \in Nat
BY UsedBySums

(* A binding takes two cells, if its name is new in the frame. *)
Rebound(s, e, n, f, t) ==
  /\ s \in Seq(Environment) /\ Sized(s) /\ e \in GLOBAL .. Len(s)
  /\ f \in Frame /\ DOMAIN f = DOMAIN s[e].frame \cup {n}
  /\ t = [s EXCEPT ![e].frame = f]

LEMMA UsedBinds ==
  ASSUME NEW s, NEW e, NEW n, NEW f, NEW r, Rebound(s, e, n, f, r)
  PROVE  /\ r \in Seq(Environment) /\ Len(r) = Len(s) /\ Sized(r)
         /\ UsedBy(r) = UsedBy(s) + IF n \in DOMAIN s[e].frame THEN 0 ELSE 2
<1>0. /\ s \in Seq(Environment) /\ Sized(s) /\ e \in GLOBAL .. Len(s)
      /\ f \in Frame /\ DOMAIN f = DOMAIN s[e].frame \cup {n}
      /\ r = [s EXCEPT ![e].frame = f]
  BY DEF Rebound
<1> USE <1>0
<1> DEFINE x == [s[e] EXCEPT !.frame = f]
           t == [s EXCEPT ![e] = x]
           d == IF n \in DOMAIN s[e].frame THEN 0 ELSE 2
           w == Weights(s)
           v == Weights(t)
<1>1. e \in 1 .. Len(s) /\ e >= GLOBAL /\ Len(s) \in Nat
  BY DEF GLOBAL
<1>2. x \in Environment /\ x.frame = f /\ x.parents = s[e].parents
  <2>1. s[e] \in Environment
    BY <1>1
  <2> QED BY <2>1 DEF Environment
<1>3. r = t
  OBVIOUS
<1> HIDE DEF x
<1>4. t \in Seq(Environment) /\ Len(t) = Len(s) /\ t[e] = x /\ \A i \in 1 .. Len(s) : i # e => t[i] = s[i]
  BY <1>1, <1>2, ExceptSeq
<1>5. IsFiniteSet(DOMAIN s[e].frame)
  BY DEF Sized
<1>6. /\ IsFiniteSet(DOMAIN f)
      /\ Cardinality(DOMAIN f) = Cardinality(DOMAIN s[e].frame) + IF n \in DOMAIN s[e].frame THEN 0 ELSE 1
  <2>1. Cardinality(DOMAIN s[e].frame) \in Nat
    BY <1>5, FS_CardinalityType
  <2> DEFINE S == DOMAIN s[e].frame
  <2>2. DOMAIN f = S \cup {n}
    OBVIOUS
  <2> HIDE DEF S
  <2>3. /\ IsFiniteSet(S \cup {n})
        /\ Cardinality(S \cup {n}) = Cardinality(S) + IF n \in S THEN 0 ELSE 1
    <3>1. IsFiniteSet(S) /\ Cardinality(S) \in Nat
      BY <1>5, <2>1 DEF S
    <3> QED BY <3>1, FS_AddElement
  <2> QED BY <2>2, <2>3 DEF S
<1> HIDE DEF t
<1>7. Sized(t)
  BY <1>2, <1>4, <1>6 DEF Sized, GLOBAL
<1>8. w \in [1 .. Len(s) -> Nat] /\ v \in [1 .. Len(s) -> Nat]
  BY <1>4, <1>7, WeightsNat
<1>9. Takes(t, e) = Takes(s, e) + d
  <2>1. Cardinality(DOMAIN s[e].frame) \in Nat
    BY <1>5, FS_CardinalityType
  <2>2. s[e] \in Environment
    BY <1>1
  <2>3. Len(s[e].parents) \in Nat
    BY <2>2 DEF Environment
  <2> DEFINE own == IF e = GLOBAL THEN 0 ELSE 1 + Len(s[e].parents)
  <2>4. own \in Nat
    BY <2>3
  <2>5. Takes(s, e) = 2 * Cardinality(DOMAIN s[e].frame) + own
    BY DEF Takes
  <2>6. Takes(t, e) = 2 * Cardinality(DOMAIN f) + own
    BY <1>2, <1>4 DEF Takes
  <2> HIDE DEF own
  <2> QED BY <1>6, <2>1, <2>4, <2>5, <2>6
<1>10. \A i \in 1 .. Len(s) : i # e => Takes(t, i) = Takes(s, i)
  BY <1>4 DEF Takes
<1>11. \A i \in 1 .. Len(s) : v[i] = IF i = e THEN w[i] + d ELSE w[i]
  <2> HIDE DEF d
  <2> SUFFICES ASSUME NEW i \in 1 .. Len(s)
               PROVE  v[i] = IF i = e THEN w[i] + d ELSE w[i]
    OBVIOUS
  <2>1. /\ v[i] = IF i < GLOBAL THEN 0 ELSE Takes(t, i)
        /\ w[i] = IF i < GLOBAL THEN 0 ELSE Takes(s, i)
    BY <1>4 DEF Weights
  <2> HIDE DEF w, v
  <2> QED BY <1>1, <1>9, <1>10, <2>1 DEF GLOBAL
<1>12. PICK g \in [0 .. Len(s) -> Nat] : Sums(g, w, Len(s)) /\ UsedBy(s) = g[Len(s)]
  BY UsedBySums
<1>13. PICK h : Sums(h, v, Len(s)) /\ UsedBy(t) = h[Len(s)]
  BY <1>4, <1>7, UsedBySums
<1>14. d \in Nat /\ e \in GLOBAL .. Len(s)
  OBVIOUS
<1> HIDE DEF w, v, d
<1>15. h[Len(s)] = g[Len(s)] + d
  <2>1. DifferAt(e, g, w, h, v, Len(s))
    BY <1>1, <1>8, <1>11, <1>12, <1>13 DEF DifferAt
  <2>2. h[Len(s)] = g[Len(s)] + (v[e] - w[e])
    BY <2>1, SumAdds
  <2>3. v[e] = w[e] + d /\ w[e] \in Nat
    BY <1>1, <1>8, <1>11
  <2>4. g[Len(s)] \in Nat
    BY <1>1, <1>12
  <2> QED BY <1>14, <2>2, <2>3, <2>4
<1>16. UsedBy(t) = UsedBy(s) + d
  BY <1>12, <1>13, <1>15
<1> QED BY <1>3, <1>4, <1>7, <1>16 DEF d

(* Without the last environment; with one more. *)
LEMMA UsedGrows ==
  ASSUME NEW s \in Seq(Environment), Len(s) >= GLOBAL, Sized(s), NEW t \in Seq(Environment), Sized(t),
         Len(t) = Len(s) + 1, \A i \in 1 .. Len(s) : t[i] = s[i]
  PROVE  UsedBy(t) = UsedBy(s) + Takes(t, Len(t))
<1> DEFINE w == Weights(s)
           v == Weights(t)
<1>1. w \in [1 .. Len(s) -> Nat] /\ v \in [1 .. Len(s) + 1 -> Nat]
  BY WeightsNat
<1>2. \A i \in 1 .. Len(s) : v[i] = w[i]
  BY DEF Weights, Takes
<1>3. v[Len(s) + 1] = Takes(t, Len(t))
  BY DEF Weights, GLOBAL
<1>4. PICK g : Sums(g, w, Len(s)) /\ UsedBy(s) = g[Len(s)]
  BY UsedBySums
<1>5. PICK h : Sums(h, v, Len(s) + 1) /\ UsedBy(t) = h[Len(s) + 1]
  BY UsedBySums
<1>6. Len(s) >= GLOBAL - 1 /\ Len(s) \in Nat
  BY DEF GLOBAL
<1> HIDE DEF w, v
<1>7. h[Len(s) + 1] = g[Len(s)] + v[Len(s) + 1]
  BY <1>1, <1>2, <1>4, <1>5, <1>6, SumGrows
<1> QED BY <1>3, <1>4, <1>5, <1>7
-----------------------------------------------------------------------------
Memory(s, r) ==
  /\ Len(s) <= MaxEnvs
  /\ \A e \in DOMAIN s : s[e].parents \in Seq(1 .. e-1)
  /\ Sized(s)
  /\ r \in Nat /\ r + UsedBy(s) <= Cells

(* The environments that a call under way names are there, there is a      *)
(* place for the one of its body until it is made, and from then on it is  *)
(* the last and nobody else can name it.                                   *)
JobMatches ==
  /\ job.at \in {"idle", "validate", "enter", "match", "chain", "dfs"}
  /\ job.at \in Binding => job.env \in DOMAIN envs /\ job.cur \in DOMAIN envs
  /\ job.at = "enter" \/ (job.at = "validate" /\ job.op # "define") => Len(envs) < MaxEnvs
  /\ job.at = "match" /\ job.op # "define" =>
       job.env = Len(envs) /\ held \subseteq 1 .. Len(envs) - 1 /\ job.cur < Len(envs)

TypeInv == SealInv /\ Memory(envs, room) /\ held \subseteq DOMAIN envs /\ JobMatches

LEMMA MemoryLess ==
  ASSUME NEW s, NEW r, Memory(s, r), EnvsOK(s), NEW q \in Nat, q <= r
  PROVE  Memory(s, q)
BY UsedByNat DEF Memory, EnvsOK

LEMMA MemoryBinds ==
  ASSUME EnvsOK(envs), Memory(envs, room), NEW e \in Usable \cap DOMAIN envs,
         NEW n \in Name, NEW v \in Val, Binds(e, n, v)
  PROVE  Memory(envs', room') /\ DOMAIN envs' = DOMAIN envs /\ Len(envs') = Len(envs)
<1> DEFINE f == [m \in DOMAIN envs[e].frame \cup {n} |-> IF m = n THEN v ELSE envs[e].frame[m]]
           d == IF n \in DOMAIN envs[e].frame THEN 0 ELSE 2
<1>1. envs' = [envs EXCEPT ![e].frame = f]
  BY DEF Binds
<1>2. envs \in Seq(Environment) /\ Sized(envs) /\ e \in GLOBAL .. Len(envs)
  BY DEF EnvsOK, Memory, Usable, GROUND, GLOBAL
<1>3. f \in Frame /\ DOMAIN f = DOMAIN envs[e].frame \cup {n}
  <2>1. envs[e] \in Environment
    BY <1>2 DEF GLOBAL
  <2>2. envs[e].frame \in Frame
    BY <2>1 DEF Environment
  <2> QED BY <2>2, FrameBinds
<1>4. room >= d /\ room' = room - d
  BY DEF Binds, Afford, Bound, Memory
<1> HIDE DEF f
<1>5. /\ envs' \in Seq(Environment) /\ Len(envs') = Len(envs) /\ Sized(envs')
      /\ UsedBy(envs') = UsedBy(envs) + d
  <2>1. Rebound(envs, e, n, f, envs')
    BY <1>1, <1>2, <1>3 DEF Rebound
  <2> QED BY <2>1, UsedBinds
<1>6. \A i \in 1 .. Len(envs) : envs'[i].parents = envs[i].parents
  BY <1>1, <1>2
<1>7. d \in Nat /\ UsedBy(envs) \in Nat /\ Len(envs) \in Nat
  BY <1>2, UsedByNat
<1> HIDE DEF d
<1>8. room' \in Nat /\ room' + UsedBy(envs') <= Cells /\ Len(envs') <= MaxEnvs
  BY <1>4, <1>5, <1>7 DEF Memory
<1>9. DOMAIN envs' = DOMAIN envs
  BY <1>2, <1>5
<1>10. \A i \in DOMAIN envs' : envs'[i].parents \in Seq(1 .. i-1)
  <2> SUFFICES ASSUME NEW i \in DOMAIN envs' PROVE envs'[i].parents \in Seq(1 .. i-1)
    OBVIOUS
  <2>1. envs[i].parents \in Seq(1 .. i-1)
    BY <1>9 DEF Memory
  <2>2. i \in 1 .. Len(envs)
    BY <1>2, <1>9
  <2> QED BY <1>6, <2>1, <2>2
<1> QED BY <1>5, <1>8, <1>9, <1>10 DEF Memory

LEMMA MemoryExtends ==
  ASSUME NEW s, EnvsOK(s), NEW r, Memory(s, r), Len(s) < MaxEnvs,
         NEW ps \in Seq(1 .. Len(s)), r >= Len(ps) + 1
  PROVE  Memory(Append(s, [parents |-> ps, frame |-> [n \in {} |-> Nil]]), r - (Len(ps) + 1))
<1> DEFINE x == [parents |-> ps, frame |-> [n \in {} |-> Nil]]
           t == Append(s, x)
<1>1. s \in Seq(Environment) /\ Len(s) >= GLOBAL /\ Sized(s) /\ Len(s) \in Nat
  BY DEF EnvsOK, Memory
<1>2. x \in Environment /\ x.parents = ps /\ DOMAIN x.frame = {}
  <2>1. [n \in {} |-> Nil] \in [{} -> Val]
    OBVIOUS
  <2>2. [n \in {} |-> Nil] \in Frame
    BY <2>1 DEF Frame
  <2>3. ps \in Seq(Nat)
    OBVIOUS
  <2> QED BY <2>2, <2>3 DEF Environment
<1> HIDE DEF x
<1>3. t \in Seq(Environment) /\ Len(t) = Len(s) + 1 /\ t[Len(t)] = x /\ \A i \in 1 .. Len(s) : t[i] = s[i]
  BY <1>1, <1>2
<1> HIDE DEF t
<1>4. Sized(t)
  <2> SUFFICES ASSUME NEW e \in GLOBAL .. Len(t) PROVE IsFiniteSet(DOMAIN t[e].frame)
    BY DEF Sized
  <2>1. CASE e = Len(t)
    BY <1>2, <1>3, <2>1, FS_EmptySet
  <2>2. CASE e # Len(t)
    BY <1>1, <1>3, <2>2, SMTT(30) DEF Sized, GLOBAL
  <2> QED BY <2>1, <2>2
<1>5. UsedBy(t) = UsedBy(s) + Takes(t, Len(t))
  BY <1>1, <1>3, <1>4, UsedGrows
<1>6. Takes(t, Len(t)) = 1 + Len(ps)
  <2>1. Cardinality(DOMAIN x.frame) = 0 /\ Len(ps) \in Nat
    BY <1>2, FS_EmptySet
  <2>2. Len(t) # GLOBAL
    BY <1>1, <1>3 DEF GLOBAL
  <2>3. t[Len(t)] = x
    BY <1>3
  <2>4. Takes(t, Len(t)) = 2 * Cardinality(DOMAIN x.frame) + (1 + Len(x.parents))
    BY <2>2, <2>3 DEF Takes
  <2> QED BY <1>2, <2>1, <2>4
<1>7. \A e \in DOMAIN t : t[e].parents \in Seq(1 .. e-1)
  <2> SUFFICES ASSUME NEW e \in 1 .. Len(t) PROVE t[e].parents \in Seq(1 .. e-1)
    BY <1>3
  <2>1. CASE e = Len(t)
    <3>1. e - 1 = Len(s)
      BY <1>1, <1>3, <2>1
    <3> QED BY <1>2, <1>3, <2>1, <3>1
  <2>2. CASE e # Len(t)
    <3>0. e \in 1 .. Len(s)
      BY <1>1, <1>3, <2>2
    <3>1. e \in DOMAIN s /\ t[e] = s[e]
      BY <1>1, <1>3, <3>0
    <3> QED BY <3>1 DEF Memory
  <2> QED BY <2>1, <2>2
<1>8. UsedBy(s) \in Nat /\ Len(ps) \in Nat /\ r \in Nat
  BY <1>1, UsedByNat DEF Memory
<1>9. Memory(t, r - (Len(ps) + 1))
  BY <1>1, <1>3, <1>4, <1>5, <1>6, <1>7, <1>8 DEF Memory
<1> QED BY <1>9 DEF t, x

LEMMA MemoryDrops ==
  ASSUME NEW s, EnvsOK(s), NEW r, Memory(s, r), Len(s) > GLOBAL
  PROVE  Memory(SubSeq(s, 1, Len(s) - 1), r)
<1> DEFINE t == SubSeq(s, 1, Len(s) - 1)
<1>1. s \in Seq(Environment) /\ Sized(s) /\ Len(s) \in Nat
  BY DEF EnvsOK, Memory
<1>2. t \in Seq(Environment) /\ Len(s) = Len(t) + 1 /\ Len(t) >= GLOBAL /\ \A i \in 1 .. Len(t) : s[i] = t[i]
  BY <1>1 DEF GLOBAL
<1> HIDE DEF t
<1>3. Sized(t)
  BY <1>1, <1>2 DEF Sized, GLOBAL
<1>4. UsedBy(s) = UsedBy(t) + Takes(s, Len(s))
  BY <1>1, <1>2, <1>3, UsedGrows
<1>5. UsedBy(t) \in Nat /\ Weights(s) \in [1 .. Len(s) -> Nat]
  BY <1>1, <1>2, <1>3, UsedByNat, WeightsNat
<1>6. Takes(s, Len(s)) \in Nat
  <2>1. Weights(s)[Len(s)] = Takes(s, Len(s))
    BY <1>1 DEF Weights, GLOBAL
  <2> QED BY <1>1, <1>5, <2>1 DEF GLOBAL
<1>7. \A e \in DOMAIN t : t[e].parents \in Seq(1 .. e-1)
  <2> SUFFICES ASSUME NEW e \in 1 .. Len(t) PROVE t[e].parents \in Seq(1 .. e-1)
    BY <1>2
  <2>1. e \in DOMAIN s /\ t[e] = s[e]
    BY <1>1, <1>2
  <2> QED BY <2>1 DEF Memory
<1>8. Memory(t, r)
  BY <1>1, <1>2, <1>3, <1>4, <1>5, <1>6, <1>7 DEF Memory
<1> QED BY <1>8 DEF t
-----------------------------------------------------------------------------
LEMMA InitMemory == EnvInit => TypeInv
<1> SUFFICES ASSUME EnvInit PROVE TypeInv
  OBVIOUS
<1> DEFINE g == [parents |-> <<GROUND>>, frame |-> [n \in {} |-> Nil]]
<1>1. SealInv
  BY InitOK
<1>2. envs = <<Ground, g>>
  BY DEF EnvInit, Ground
<1>3. g.parents = <<GROUND>> /\ DOMAIN g.frame = {} /\ Ground.parents = << >>
  BY DEF Ground
<1> HIDE DEF g
<1>4. Len(envs) = GLOBAL /\ envs[GLOBAL] = g /\ envs[GROUND] = Ground /\ DOMAIN envs = {GROUND, GLOBAL}
  BY <1>2 DEF GROUND, GLOBAL
<1>5. Sized(envs)
  <2>1. IsFiniteSet(DOMAIN envs[GLOBAL].frame)
    BY <1>3, <1>4, FS_EmptySet
  <2>2. \A e \in GLOBAL .. Len(envs) : e = GLOBAL
    BY <1>4 DEF GLOBAL
  <2> QED BY <2>1, <2>2 DEF Sized
<1>6. UsedBy(envs) = 0
  <2>0. envs \in Seq(Environment)
    BY <1>1 DEF SealInv, EnvsOK
  <2>1. PICK f \in [0 .. Len(envs) -> Nat] : Sums(f, Weights(envs), Len(envs)) /\ UsedBy(envs) = f[Len(envs)]
    BY <1>5, <2>0, UsedBySums
  <2>2. Weights(envs)[GLOBAL] = 0
    <3>1. Takes(envs, GLOBAL) = 0
      <4>1. Cardinality(DOMAIN envs[GLOBAL].frame) = 0
        BY <1>3, <1>4, FS_EmptySet
      <4> QED BY <4>1 DEF Takes
    <3> QED BY <1>4, <3>1 DEF Weights, GLOBAL
  <2>3. f[1] = 0 /\ f[2] = f[1] + Weights(envs)[2]
    BY <1>4, <2>1 DEF Sums, GLOBAL
  <2> QED BY <1>4, <2>1, <2>2, <2>3 DEF GLOBAL
<1>7. \A e \in DOMAIN envs : envs[e].parents \in Seq(1 .. e-1)
  <2>1. <<GROUND>> \in Seq(1 .. GLOBAL - 1)
    BY DEF GROUND, GLOBAL
  <2>2. << >> \in Seq(1 .. GROUND - 1)
    OBVIOUS
  <2> QED BY <1>3, <1>4, <2>1, <2>2
<1>8. Memory(envs, room)
  BY <1>4, <1>5, <1>6, <1>7, SMTT(30) DEF EnvInit, Memory, GLOBAL
<1>9. JobMatches /\ held \subseteq DOMAIN envs
  BY <1>4 DEF EnvInit, JobMatches, NoJob, Binding
<1> QED BY <1>1, <1>8, <1>9 DEF TypeInv

(* A call that fails has allocated some of what it asked for, or nothing.  *)
LEMMA MemoryFails ==
  ASSUME TypeInv, SealInv', NEW x, Fail(x), room' \in Nat, room' <= room
  PROVE  TypeInv'
<1>1. job'.at = "idle"
  BY FinishOK DEF Fail, TypeInv, SealInv
<1>2. EnvsOK(envs) /\ Memory(envs, room)
  BY DEF TypeInv, SealInv
<1>3. CASE job.at = "match" /\ job.op # "define"
  <2>1. envs' = SubSeq(envs, 1, Len(envs) - 1) /\ Len(envs) > GLOBAL
    BY <1>3 DEF Fail, TypeInv, SealInv, BodyMade
  <2>2. Memory(envs', room)
    BY <1>2, <2>1, MemoryDrops
  <2>3. Memory(envs', room')
    BY <2>2, MemoryLess DEF SealInv
  <2>4. DOMAIN envs' = 1 .. Len(envs) - 1
    BY <1>2, <2>1 DEF EnvsOK, GLOBAL
  <2>5. held' \subseteq DOMAIN envs'
    BY <1>3, <2>4 DEF Fail, TypeInv, JobMatches
  <2> QED BY <1>1, <2>3, <2>5 DEF TypeInv, JobMatches, Binding
<1>4. CASE ~(job.at = "match" /\ job.op # "define")
  <2>1. envs' = envs /\ held' = held
    BY <1>4 DEF Fail
  <2>2. Memory(envs', room')
    BY <1>2, <2>1, MemoryLess
  <2> QED BY <1>1, <2>1, <2>2 DEF TypeInv, JobMatches, Binding
<1> QED BY <1>3, <1>4

(* Steps that leave the environments as they are. *)
LEMMA MemoryPays ==
  ASSUME TypeInv, SealInv', UNCHANGED <<envs, held>>, room' \in Nat, room' <= room, JobMatches'
  PROVE  TypeInv'
<1>1. Memory(envs, room')
  BY MemoryLess DEF TypeInv, SealInv
<1> QED BY <1>1 DEF TypeInv

LEMMA MakeMemory ==
  ASSUME TypeInv, SealInv', NEW ps \in Parents, MakeEnvironment(ps)
  PROVE  TypeInv'
<1>1. job'.at = "idle"
  BY DEF MakeEnvironment, Begin, NoJob
<1>2. EnvsOK(envs) /\ Memory(envs, room) /\ envs \in Seq(Environment) /\ held \subseteq 1 .. Len(envs)
  BY DEF TypeInv, SealInv, EnvsOK
<1>3. ps \in Seq(1 .. Len(envs)) /\ Len(ps) \in Nat
  <2>1. PICK k \in 0 .. 2 : ps \in [1 .. k -> held]
    BY DEF Parents
  <2>2. ps \in [1 .. k -> 1 .. Len(envs)] /\ k \in Nat
    BY <1>2, <2>1
  <2> QED BY <2>2, SeqDef
<1>4. CASE Short(Len(ps) + 1) /\ UNCHANGED <<envs, held>>
  <2>1. room' \in Nat /\ room' <= room
    BY <1>2, <1>4 DEF Short, Memory
  <2> QED BY <1>1, <1>4, <2>1, MemoryPays DEF JobMatches, Binding
<1>5. CASE /\ NewEnv \in EnvId
           /\ Afford(Len(ps) + 1)
           /\ envs' = Append(envs, [parents |-> ps, frame |-> [n \in {} |-> Nil]])
           /\ held' = held \cup {NewEnv}
  <2>1. Len(envs) < MaxEnvs
    BY <1>2, <1>5 DEF NewEnv, EnvId
  <2>2. room >= Len(ps) + 1 /\ room' = room - (Len(ps) + 1)
    BY <1>5 DEF Afford
  <2>3. Memory(envs', room')
    BY <1>2, <1>3, <1>5, <2>1, <2>2, MemoryExtends
  <2>4. DOMAIN envs' = 1 .. Len(envs) + 1
    BY <1>2, <1>5
  <2>5. held' \subseteq DOMAIN envs'
    BY <1>2, <1>5, <2>4 DEF NewEnv
  <2> QED BY <1>1, <2>3, <2>5 DEF TypeInv, JobMatches, Binding
<1> QED BY <1>4, <1>5 DEF MakeEnvironment

LEMMA BeginMemory ==
  ASSUME TypeInv, SealInv',
         \/ \E e \in held, p \in Trees :
              \/ \E v \in Given : BeginDefine(e, p, v) \/ BeginLambda(e, p, v)
              \/ \E c \in held, n \in EnvParams, v \in Objects : BeginVau(c, e, p, n, v)
         \/ \E e \in held, n \in Name : BeginLookup(e, n)
  PROVE  TypeInv'
<1>1. UNCHANGED <<envs, held, room>>
  BY DEF BeginDefine, BeginLambda, BeginVau, BeginLookup
<1>2. room \in Nat /\ Len(envs) >= GLOBAL /\ DOMAIN envs = 1 .. Len(envs) /\ held \subseteq DOMAIN envs
  BY DEF TypeInv, Memory, SealInv, EnvsOK
<1>3. GLOBAL \in DOMAIN envs
  BY <1>2 DEF GLOBAL
<1>4. NewEnv \in EnvId => Len(envs) < MaxEnvs
  BY <1>2 DEF NewEnv, EnvId, GLOBAL
<1>5. JobMatches'
  <2>1. ASSUME NEW e \in held, NEW p, NEW v, BeginDefine(e, p, v) PROVE JobMatches'
    BY <1>1, <1>2, <1>3, <2>1 DEF BeginDefine, Begin, NoJob, JobMatches, Binding
  <2>2. ASSUME NEW e \in held, NEW p, NEW v, BeginLambda(e, p, v) PROVE JobMatches'
    BY <1>1, <1>2, <1>3, <1>4, <2>2 DEF BeginLambda, Begin, NoJob, JobMatches, Binding
  <2>3. ASSUME NEW c \in held, NEW e, NEW p, NEW n, NEW v, BeginVau(c, e, p, n, v) PROVE JobMatches'
    BY <1>1, <1>2, <1>3, <1>4, <2>3 DEF BeginVau, Begin, NoJob, JobMatches, Binding
  <2>4. ASSUME NEW e, NEW n, BeginLookup(e, n) PROVE JobMatches'
    BY <2>4 DEF BeginLookup, Begin, NoJob, JobMatches, Binding
  <2> QED BY <2>1, <2>2, <2>3, <2>4
<1> QED BY <1>1, <1>2, <1>5, MemoryPays

LEMMA SetMemory ==
  ASSUME TypeInv, SealInv', NEW t \in Given, NEW n \in Name, NEW v \in Given, Set(t, n, v)
  PROVE  TypeInv'
<1>1. job'.at = "idle" /\ held' = held /\ room' = room
  <2>1. job'.at = "idle"
    BY DEF Set, Begin, NoJob
  <2> QED BY <2>1 DEF Set
<1>2. /\ EnvsOK(envs) /\ Memory(envs, room) /\ held \subseteq DOMAIN envs
      /\ envs \in Seq(Environment) /\ held \subseteq Usable /\ room \in Nat
  BY DEF TypeInv, SealInv, EnvsOK, Memory
<1>3. JobMatches'
  BY <1>1 DEF JobMatches, Binding
<1>4. CASE UNCHANGED envs
  BY <1>1, <1>2, <1>3, <1>4, MemoryPays
<1>5. CASE /\ t.kind = "Environment" /\ n \in Bound(t.env)
           /\ envs' = [envs EXCEPT ![t.env].frame[n] = v]
  <2> DEFINE e == t.env
             f == [envs[e].frame EXCEPT ![n] = v]
  <2>1. e \in held
    <3>1. t \in Objects \/ \E i \in held : t = Env(i)
      BY DEF Given
    <3> QED BY <1>5, <3>1 DEF Env
  <2>2. e \in GLOBAL .. Len(envs) /\ e \in 1 .. Len(envs)
    BY <1>2, <2>1 DEF Usable, GROUND, GLOBAL
  <2>3. v \in Val
    BY <1>2, GivenVal
  <2>4. f \in Frame /\ DOMAIN f = DOMAIN envs[e].frame \cup {n}
    <3>1. envs[e] \in Environment
      BY <1>2, <2>2
    <3>2. PICK D \in SUBSET Name : envs[e].frame \in [D -> Val]
      BY <3>1 DEF Environment, Frame
    <3>3. f \in [D -> Val] /\ n \in D
      BY <1>5, <2>3, <3>2 DEF Bound
    <3> QED BY <3>2, <3>3 DEF Frame
  <2>5. envs' = [envs EXCEPT ![e].frame = f]
    BY <1>5
  <2>6. n \in DOMAIN envs[e].frame
    BY <1>5 DEF Bound
  <2> HIDE DEF e, f
  <2>7. Rebound(envs, e, n, f, envs')
    BY <1>2, <2>2, <2>4, <2>5 DEF Rebound, Memory
  <2>8. /\ Len(envs') = Len(envs) /\ Sized(envs') /\ UsedBy(envs') = UsedBy(envs)
        /\ envs' \in Seq(Environment)
    <3>1. /\ Len(envs') = Len(envs) /\ Sized(envs') /\ envs' \in Seq(Environment)
          /\ UsedBy(envs') = UsedBy(envs) + IF n \in DOMAIN envs[e].frame THEN 0 ELSE 2
      BY <2>7, UsedBinds
    <3>2. UsedBy(envs) \in Nat
      BY <1>2, UsedByNat DEF Memory
    <3> QED BY <2>6, <3>1, <3>2
  <2>9. DOMAIN envs' = DOMAIN envs /\ \A i \in DOMAIN envs : envs'[i].parents = envs[i].parents
    BY <1>2, <2>2, <2>5
  <2>10. Memory(envs', room')
    BY <1>1, <1>2, <2>8, <2>9 DEF Memory
  <2> QED BY <1>1, <1>2, <1>3, <2>9, <2>10 DEF TypeInv
<1> QED BY <1>4, <1>5 DEF Set

LEMMA ValidateMemory ==
  ASSUME TypeInv, SealInv', Validate
  PROVE  TypeInv'
<1>1. room \in Nat /\ job.at = "validate" /\ JobShape(job)
  BY DEF TypeInv, Memory, Validate, SealInv, JobOK
<1>2. room' \in Nat /\ room' <= room
  BY <1>1 DEF Validate, Afford, Short
<1>3. CASE \E x : Fail(x)
  BY <1>2, <1>3, MemoryFails
<1>4. ASSUME UNCHANGED <<envs, held>>, NEW todo, NEW seen,
             job' = [job EXCEPT !.todo = todo, !.seen = seen]
      PROVE  TypeInv'
  <2>1. /\ job'.at = job.at /\ job'.op = job.op /\ job'.env = job.env /\ job'.cur = job.cur
    BY <1>1, <1>4 DEF JobShape
  <2>2. JobMatches'
    BY <1>1, <1>4, <2>1 DEF TypeInv, JobMatches, Binding
  <2> QED BY <1>2, <1>4, <2>2, MemoryPays
<1>5. ASSUME UNCHANGED <<envs, held>>, NEW todo, job' = [job EXCEPT !.todo = todo]
      PROVE  TypeInv'
  <2>1. job' = [job EXCEPT !.todo = todo, !.seen = job.seen]
    BY <1>1, <1>5 DEF JobShape
  <2> QED BY <1>4, <1>5, <2>1
<1> QED BY <1>3, <1>4, <1>5 DEF Validate

LEMMA ValidatedMemory ==
  ASSUME TypeInv, SealInv', Validated
  PROVE  TypeInv'
<1>1. room \in Nat /\ job.at = "validate" /\ JobShape(job) /\ room' = room /\ room' <= room
  BY DEF TypeInv, Memory, Validated, SealInv, JobOK
<1>2. CASE \E x : Fail(x)
  BY <1>1, <1>2, MemoryFails
<1>3. CASE /\ job.op = "define" /\ UNCHANGED <<envs, held>>
           /\ job' = [job EXCEPT !.at = "match", !.todo = << <<job.ptree, job.obj>> >>]
  <2>1. job'.at = "match" /\ job'.op = job.op /\ job'.env = job.env /\ job'.cur = job.cur
    BY <1>1, <1>3 DEF JobShape
  <2>2. JobMatches'
    BY <1>1, <1>3, <2>1 DEF TypeInv, JobMatches, Binding
  <2> QED BY <1>1, <1>3, <2>2, MemoryPays
<1>4. CASE job.op = "vau" /\ UNCHANGED <<envs, held>> /\ job' = [job EXCEPT !.at = "enter"]
  <2>1. job'.at = "enter" /\ job'.op = job.op /\ job'.env = job.env /\ job'.cur = job.cur
    BY <1>1, <1>4 DEF JobShape
  <2>2. JobMatches'
    BY <1>1, <1>4, <2>1 DEF TypeInv, JobMatches, Binding
  <2> QED BY <1>1, <1>4, <2>2, MemoryPays
<1> QED BY <1>2, <1>3, <1>4 DEF Validated

LEMMA EnterMemory ==
  ASSUME TypeInv, SealInv', Enter
  PROVE  TypeInv'
<1>1. /\ room \in Nat /\ job.at = "enter" /\ JobShape(job) /\ held' = held
      /\ EnvsOK(envs) /\ envs \in Seq(Environment) /\ Len(envs) >= GLOBAL /\ Len(envs) < MaxEnvs
      /\ Memory(envs, room) /\ job.cur \in 1 .. Len(envs) /\ held \subseteq 1 .. Len(envs)
  <2>1. SealInv /\ Memory(envs, room) /\ held \subseteq DOMAIN envs /\ JobMatches
    BY DEF TypeInv
  <2>2. EnvsOK(envs) /\ envs \in Seq(Environment) /\ Len(envs) >= GLOBAL /\ JobShape(job)
    BY <2>1 DEF SealInv, EnvsOK, JobOK
  <2>3. job.at = "enter" /\ held' = held /\ room \in Nat
    BY <2>1 DEF Enter, Memory
  <2>4. Len(envs) < MaxEnvs /\ job.cur \in DOMAIN envs
    BY <2>1, <2>3 DEF JobMatches, Binding
  <2> QED BY <2>1, <2>2, <2>3, <2>4
<1>2. CASE Short(2) /\ Finish("OutOfMemory") /\ UNCHANGED envs
  <2>1. job'.at = "idle"
    BY <1>2, FinishOK DEF TypeInv, SealInv
  <2>2. JobMatches' /\ room' \in Nat /\ room' <= room
    BY <1>1, <1>2, <2>1 DEF JobMatches, Binding, Short
  <2> QED BY <1>1, <1>2, <2>2, MemoryPays
<1>3. CASE /\ Afford(2)
           /\ envs' = Append(envs, [parents |-> <<job.cur>>, frame |-> [n \in {} |-> Nil]])
           /\ job' = [job EXCEPT !.at = "match", !.env = NewEnv,
                                 !.todo = << <<job.ptree, job.obj>> >>]
  <2>1. job'.at = "match" /\ job'.env = Len(envs) + 1 /\ job'.cur = job.cur
    BY <1>1, <1>3 DEF JobShape, NewEnv
  <2>2. Len(envs') = Len(envs) + 1 /\ DOMAIN envs' = 1 .. Len(envs) + 1
    BY <1>1, <1>3
  <2>3. <<job.cur>> \in Seq(1 .. Len(envs)) /\ Len(<<job.cur>>) = 1
    BY <1>1
  <2>4. room >= 1 + 1 /\ room' = room - (1 + 1)
    BY <1>3 DEF Afford
  <2>5. Memory(envs', room')
    BY <1>1, <1>3, <2>3, <2>4, MemoryExtends
  <2>6. Len(envs) + 1 \in DOMAIN envs' /\ job.cur \in DOMAIN envs' /\ job.cur < Len(envs')
        /\ held \subseteq 1 .. Len(envs') - 1 /\ held \subseteq DOMAIN envs'
    BY <1>1, <2>2
  <2>7. JobMatches'
    BY <1>1, <2>1, <2>2, <2>6 DEF JobMatches, Binding
  <2> QED BY <1>1, <2>5, <2>6, <2>7 DEF TypeInv
<1> QED BY <1>2, <1>3 DEF Enter

LEMMA MatchMemory ==
  ASSUME TypeInv, SealInv', Match
  PROVE  TypeInv'
<1>1. /\ room \in Nat /\ job.at = "match" /\ JobShape(job) /\ EnvsOK(envs) /\ Memory(envs, room)
      /\ job.env \in Usable \cap DOMAIN envs /\ held \subseteq DOMAIN envs
  BY DEF TypeInv, Memory, Match, SealInv, JobOK, JobMatches, Binding
<1> DEFINE p == Head(job.todo)[1]
           o == Head(job.todo)[2]
<1>2. p.kind = "Symbol" => p.name \in Name /\ o \in Val
  <2>1. Head(job.todo) \in Data \X Val
    BY DEF Match, TypeInv, SealInv, JobOK
  <2> QED BY <2>1
<1>3. ASSUME NEW todo, job' = [job EXCEPT !.todo = todo], DOMAIN envs' = DOMAIN envs,
             Len(envs') = Len(envs), held' = held
      PROVE  JobMatches'
  <2>1. job'.at = job.at /\ job'.op = job.op /\ job'.env = job.env /\ job'.cur = job.cur
    BY <1>1, <1>3 DEF JobShape
  <2> QED BY <1>1, <1>3, <2>1 DEF TypeInv, JobMatches, Binding
<1>4. CASE \E x : Fail(x) /\ (UNCHANGED room \/ Short(2))
  <2>1. room' \in Nat /\ room' <= room
    BY <1>1, <1>4 DEF Short
  <2> QED BY <1>4, <2>1, MemoryFails
<1>5. CASE UNCHANGED <<envs, held, room>> /\ \E todo : job' = [job EXCEPT !.todo = todo]
  <2>1. room' \in Nat /\ room' <= room
    BY <1>1, <1>5
  <2>2. JobMatches'
    BY <1>3, <1>5
  <2> QED BY <1>5, <2>1, <2>2, MemoryPays
<1>6. CASE /\ p.kind = "Symbol" /\ Binds(job.env, p.name, o) /\ UNCHANGED held
           /\ job' = [job EXCEPT !.todo = Tail(job.todo)]
  <2>1. Memory(envs', room') /\ DOMAIN envs' = DOMAIN envs /\ Len(envs') = Len(envs)
    BY <1>1, <1>2, <1>6, MemoryBinds
  <2>2. JobMatches'
    BY <1>3, <1>6, <2>1
  <2> QED BY <1>1, <1>6, <2>1, <2>2 DEF TypeInv
<1> HIDE DEF p, o
<1> QED BY <1>4, <1>5, <1>6 DEF Match, CannotBind, p, o

LEMMA MatchedMemory ==
  ASSUME TypeInv, SealInv', Matched
  PROVE  TypeInv'
<1>1. /\ room \in Nat /\ job.at = "match" /\ EnvsOK(envs) /\ Memory(envs, room)
      /\ job.env \in Usable \cap DOMAIN envs /\ held \subseteq DOMAIN envs
      /\ job.name \in Name \cup {None} /\ Env(job.caller) \in Val
  BY DEF TypeInv, Memory, Matched, SealInv, JobOK, JobMatches, Binding, Val
<1>2. CASE \E x : Fail(x) /\ Short(2)
  <2>1. room' \in Nat /\ room' <= room
    BY <1>1, <1>2 DEF Short
  <2> QED BY <1>2, <2>1, MemoryFails
<1>3. CASE /\ Finish("Ok") /\ held' \subseteq held \cup {job.env}
           /\ \/ UNCHANGED <<envs, room>>
              \/ job.name # None /\ Binds(job.env, job.name, Env(job.caller))
  <2>1. job'.at = "idle"
    BY <1>3, FinishOK DEF TypeInv, SealInv
  <2>2. JobMatches'
    BY <2>1 DEF JobMatches, Binding
  <2>3. Memory(envs', room') /\ DOMAIN envs' = DOMAIN envs
    <3>1. CASE UNCHANGED <<envs, room>>
      BY <1>1, <3>1
    <3>2. CASE job.name # None /\ Binds(job.env, job.name, Env(job.caller))
      BY <1>1, <3>2, MemoryBinds
    <3> QED BY <1>3, <3>1, <3>2
  <2> QED BY <1>1, <1>3, <2>2, <2>3 DEF TypeInv
<1> QED BY <1>2, <1>3 DEF Matched, CannotBind

LEMMA LookupMemory ==
  ASSUME TypeInv, SealInv', Chain \/ Return \/ Descend
  PROVE  TypeInv'
<1>1. room \in Nat /\ JobShape(job) /\ job.at \in {"chain", "dfs"}
  BY DEF TypeInv, Memory, Chain, Return, Descend, SealInv, JobOK
<1>2. UNCHANGED <<envs, held>> /\ room' \in Nat /\ room' <= room
  BY <1>1 DEF Chain, Return, Descend, Afford, Short
<1>3. job'.at \in {"idle", "chain", "dfs"}
  BY <1>1 DEF Chain, Return, Descend, Found, Finish, Search, JobShape
<1>4. JobMatches'
  BY <1>3 DEF JobMatches, Binding
<1> QED BY <1>2, <1>4, MemoryPays

LEMMA CollectMemory ==
  ASSUME TypeInv, SealInv', Collect
  PROVE  TypeInv'
<1>1. Memory(envs, room) /\ EnvsOK(envs) /\ UsedBy(envs) \in Nat
  BY UsedByNat DEF TypeInv, SealInv, EnvsOK, Memory
<1>2. room' = Cells - UsedBy(envs) /\ UNCHANGED <<envs, held>>
  BY UsedIsUsedBy DEF Collect
<1>3. Memory(envs', room')
  BY <1>1, <1>2 DEF Memory
<1>4. JobMatches'
  BY DEF Collect, NoJob, JobMatches, Binding
<1> QED BY <1>2, <1>3, <1>4 DEF TypeInv

LEMMA StepMemory == TypeInv /\ [EnvNext]_envVars => TypeInv'
<1> SUFFICES ASSUME TypeInv, [EnvNext]_envVars PROVE TypeInv'
  OBVIOUS
<1>1. SealInv'
  BY StepOK DEF TypeInv
<1>2. CASE UNCHANGED envVars
  BY <1>2 DEF envVars, TypeInv, SealInv, BodyMade, JobMatches
<1>3. CASE \E ps \in Parents : MakeEnvironment(ps)
  BY <1>1, <1>3, MakeMemory
<1>4. CASE \/ \E e \in held, p \in Trees :
                \/ \E v \in Given : BeginDefine(e, p, v) \/ BeginLambda(e, p, v)
                \/ \E c \in held, n \in EnvParams, v \in Objects : BeginVau(c, e, p, n, v)
           \/ \E e \in held, n \in Name : BeginLookup(e, n)
  BY <1>1, <1>4, BeginMemory
<1>5. CASE \E t \in Given, n \in Name, v \in Given : Set(t, n, v)
  BY <1>1, <1>5, SetMemory
<1>6. CASE Validate \/ Validated \/ Enter \/ Match \/ Matched
  BY <1>1, <1>6, ValidateMemory, ValidatedMemory, EnterMemory, MatchMemory, MatchedMemory
<1>7. CASE Chain \/ Return \/ Descend \/ Collect
  BY <1>1, <1>7, LookupMemory, CollectMemory
<1> QED BY <1>2, <1>3, <1>4, <1>5, <1>6, <1>7 DEF EnvNext

LEMMA InvTyped == TypeInv => EnvTypeOK
<1> SUFFICES ASSUME TypeInv PROVE EnvTypeOK
  OBVIOUS
<1>1. envs \in Seq(Environment) /\ Len(envs) >= GLOBAL /\ Len(envs) <= MaxEnvs /\ Len(envs) \in Nat
  BY DEF TypeInv, SealInv, EnvsOK, Memory
<1>2. Len(envs) \in EnvId
  BY <1>1 DEF EnvId, GLOBAL
<1>3. ASSUME NEW e \in DOMAIN envs PROVE Bound(e) \subseteq Name
  <2>1. envs[e] \in Environment
    BY <1>1
  <2>2. envs[e].frame \in Frame
    BY <2>1 DEF Environment
  <2> QED BY <2>2 DEF Frame, Bound
<1>4. room \in 0 .. Cells - Used
  <2>1. UsedBy(envs) \in Nat
    BY <1>1, UsedByNat DEF TypeInv, Memory
  <2> QED BY <2>1, UsedIsUsedBy DEF TypeInv, Memory
<1> QED BY <1>2, <1>3, <1>4 DEF EnvTypeOK, TypeInv, Memory, JobMatches

(* Parents are older than their children and names bind in frames only     *)
(* (what the fn shorthand binds is not looked at);                         *)
(* every cell a definition, a call or make-environment takes has been paid *)
(* for, and what a call that fails leaves behind never costs more than the *)
(* environments it has left.  Code: make_child_env, make_environment,      *)
(* env_define, match_ptree (lisp.rs, eval.rs).                             *)
THEOREM EnvTypeCorrect == EnvSpec => []EnvTypeOK
<1>1. EnvInit => TypeInv
  BY InitMemory
<1>2. TypeInv /\ [EnvNext]_envVars => TypeInv'
  BY StepMemory
<1>3. TypeInv => EnvTypeOK
  BY InvTyped
<1> QED BY <1>1, <1>2, <1>3, PTL DEF EnvSpec
-----------------------------------------------------------------------------
(* Definitions and calls bind what they should.  Parts of a tree first.    *)
Below(q, x)    == IF q.kind # "Pair" THEN Builtin ELSE IF x = "car" THEN q.car ELSE q.cdr
Follows(f, d, t) == f = [k \in 0 .. Len(t) |-> IF k = 0 THEN d ELSE Below(f[k-1], t[k])]
Path           == Seq({"car", "cdr"})
Starts(q, t)   == Len(q) <= Len(t) /\ \A k \in 1 .. Len(q) : q[k] = t[k]

LEMMA TurnsArePaths == Turns = {t \in Path : Len(t) <= TreeDepth}
<1>1. ASSUME NEW t \in Turns PROVE t \in Path /\ Len(t) <= TreeDepth
  <2>1. PICK k \in 0 .. TreeDepth : t \in [1 .. k -> {"car", "cdr"}]
    BY DEF Turns
  <2>2. t \in Path
    BY <2>1, SeqDef DEF Path
  <2>3. Len(t) = k
    <3>1. t \in [1 .. Len(t) -> {"car", "cdr"}] /\ Len(t) \in Nat
      BY <2>2 DEF Path
    <3>2. 1 .. k = 1 .. Len(t)
      BY <2>1, <3>1
    <3> QED BY <3>1, <3>2
  <2> QED BY <2>2, <2>3
<1>2. ASSUME NEW t \in Path, Len(t) <= TreeDepth PROVE t \in Turns
  <2>1. t \in [1 .. Len(t) -> {"car", "cdr"}] /\ Len(t) \in 0 .. TreeDepth
    BY <1>2 DEF Path
  <2> QED BY <2>1 DEF Turns
<1> QED BY <1>1, <1>2

LEMMA FollowsExists ==
  ASSUME NEW d, NEW t \in Path
  PROVE  \E f : Follows(f, d, t)
<1> DEFINE Up(f, n) == f = [k \in 0 .. n |-> IF k = 0 THEN d ELSE Below(f[k-1], t[k])]
           Wrong == {n \in 0 .. Len(t) : ~\E f : Up(f, n)}
<1>0. Len(t) \in Nat
  BY DEF Path
<1>1. 0 \notin Wrong
  <2>1. Up([k \in 0 .. 0 |-> d], 0)
    OBVIOUS
  <2> QED BY <2>1
<1>2. ASSUME NEW n \in 1 .. Len(t), n-1 \notin Wrong PROVE n \notin Wrong
  <2>1. PICK f : Up(f, n-1)
    BY <1>0, <1>2
  <2> DEFINE g == [k \in 0 .. n |-> IF k < n THEN f[k] ELSE Below(f[n-1], t[n])]
  <2>2. \A k \in 0 .. n-1 : f[k] = IF k = 0 THEN d ELSE Below(f[k-1], t[k])
    BY <2>1
  <2>3. \A k \in 0 .. n : g[k] = IF k = 0 THEN d ELSE Below(g[k-1], t[k])
    BY <1>0, <2>2
  <2>4. Up(g, n)
    BY <2>3
  <2> HIDE DEF g
  <2> QED BY <2>4
<1> HIDE DEF Wrong
<1>3. Wrong = {}
  BY <1>0, <1>1, <1>2, FirstWrong DEF Wrong
<1>4. Len(t) \notin Wrong
  BY <1>3
<1>5. PICK f : Up(f, Len(t))
  BY <1>0, <1>4 DEF Wrong
<1> QED BY <1>5 DEF Follows

LEMMA PartFollows ==
  ASSUME NEW d, NEW t \in Path
  PROVE  \E f : Follows(f, d, t) /\ Part(d, t) = f[Len(t)]
<1> DEFINE F == CHOOSE f : f = [k \in 0 .. Len(t) |->
                  IF k = 0 THEN d
                  ELSE IF f[k-1].kind # "Pair" THEN Builtin
                       ELSE IF t[k] = "car" THEN f[k-1].car ELSE f[k-1].cdr]
<1>1. Part(d, t) = F[Len(t)]
  BY DEF Part
<1>2. PICK f : Follows(f, d, t)
  BY FollowsExists
<1>3. Follows(F, d, t)
  BY <1>2 DEF Follows, Below
<1> QED BY <1>1, <1>3

(* Two ways that begin alike are alike as far as they do. *)
AlongBoth(f, q, g, t, d) ==
  q \in Path /\ t \in Path /\ Starts(q, t) /\ Follows(f, d, q) /\ Follows(g, d, t)

LEMMA FollowsAlike ==
  ASSUME NEW f, NEW q, NEW g, NEW t, NEW d, AlongBoth(f, q, g, t, d)
  PROVE  \A k \in 0 .. Len(q) : f[k] = g[k]
<1> q \in Path /\ t \in Path /\ Starts(q, t) /\ Follows(f, d, q) /\ Follows(g, d, t)
  BY DEF AlongBoth
<1> DEFINE Wrong == {k \in 0 .. Len(q) : f[k] # g[k]}
<1>0. Len(q) \in Nat /\ Len(t) \in Nat /\ Len(q) <= Len(t)
  BY DEF Path, Starts
<1>1. /\ \A k \in 0 .. Len(q) : f[k] = IF k = 0 THEN d ELSE Below(f[k-1], q[k])
      /\ \A k \in 0 .. Len(t) : g[k] = IF k = 0 THEN d ELSE Below(g[k-1], t[k])
  BY DEF Follows
<1>2. 0 \notin Wrong
  BY <1>0, <1>1
<1>3. ASSUME NEW k \in 1 .. Len(q), k-1 \notin Wrong PROVE k \notin Wrong
  <2>1. f[k-1] = g[k-1] /\ q[k] = t[k]
    BY <1>0, <1>3 DEF Starts
  <2>2. f[k] = Below(f[k-1], q[k]) /\ g[k] = Below(g[k-1], t[k])
    BY <1>0, <1>1
  <2> QED BY <2>1, <2>2
<1> HIDE DEF Wrong
<1>4. Wrong = {}
  BY <1>0, <1>2, <1>3, FirstWrong DEF Wrong
<1> QED BY <1>4 DEF Wrong

LEMMA PartAlong ==
  ASSUME NEW d, NEW q \in Path, NEW t \in Path, Starts(q, t), NEW f, Follows(f, d, t)
  PROVE  Part(d, q) = f[Len(q)]
<1>1. PICK g : Follows(g, d, q) /\ Part(d, q) = g[Len(q)]
  BY PartFollows
<1>2. Len(q) \in 0 .. Len(q)
  BY DEF Path
<1>3. AlongBoth(g, q, f, t, d)
  BY <1>1 DEF AlongBoth
<1>4. \A k \in 0 .. Len(q) : g[k] = f[k]
  BY <1>3, FollowsAlike
<1> QED BY <1>1, <1>2, <1>4

LEMMA PartEmpty == \A d : Part(d, << >>) = d
<1> SUFFICES ASSUME NEW d PROVE Part(d, << >>) = d
  OBVIOUS
<1>1. << >> \in Path
  BY DEF Path
<1>2. PICK f : Follows(f, d, << >>) /\ Part(d, << >>) = f[Len(<< >>)]
  BY <1>1, PartFollows
<1> QED BY <1>2 DEF Follows

LEMMA PartBelow ==
  ASSUME NEW d, NEW q \in Path, NEW x \in {"car", "cdr"}
  PROVE  Append(q, x) \in Path /\ Part(d, Append(q, x)) = Below(Part(d, q), x)
<1> DEFINE t == Append(q, x)
<1>1. /\ t \in Path /\ Len(t) = Len(q) + 1 /\ t[Len(t)] = x /\ Len(q) \in Nat
      /\ Starts(q, t)
  BY DEF Path, Starts
<1> HIDE DEF t
<1>2. PICK f : Follows(f, d, t) /\ Part(d, t) = f[Len(t)]
  BY <1>1, PartFollows
<1>3. f[Len(t)] = Below(f[Len(t) - 1], t[Len(t)])
  <2> DEFINE n == Len(t)
  <2>1. n \in 1 .. n
    BY <1>1
  <2>2. \A k \in 0 .. n : f[k] = IF k = 0 THEN d ELSE Below(f[k-1], t[k])
    BY <1>2 DEF Follows
  <2> HIDE DEF n
  <2>3. f[n] = Below(f[n-1], t[n])
    BY <2>1, <2>2
  <2> QED BY <2>3 DEF n
<1>4. Part(d, q) = f[Len(q)]
  BY <1>1, <1>2, PartAlong
<1>5. Len(t) - 1 = Len(q)
  BY <1>1
<1> QED BY <1>1, <1>2, <1>3, <1>4, <1>5 DEF t

(* Above a symbol there are pairs. *)
LEMMA SymbolBelow ==
  ASSUME NEW d, NEW q \in Path, NEW t \in Path, Starts(q, t), Part(d, t).kind = "Symbol"
  PROVE  /\ Part(d, q).kind # "Pair" => t = q
         /\ Part(d, q).kind = "Pair" => Starts(Append(q, "car"), t) \/ Starts(Append(q, "cdr"), t)
<1>0. Len(q) \in Nat /\ Len(t) \in Nat /\ Len(q) <= Len(t)
  BY DEF Path, Starts
<1>1. PICK f : Follows(f, d, t) /\ Part(d, t) = f[Len(t)]
  BY PartFollows
<1>2. Part(d, q) = f[Len(q)]
  BY <1>1, PartAlong
<1>3. \A k \in 1 .. Len(t) : f[k] = Below(f[k-1], t[k])
  BY <1>0, <1>1, SMTT(30) DEF Follows
<1>4. CASE Len(q) = Len(t)
  <2>1. t = q
    BY <1>4 DEF Path, Starts
  <2>2. Part(d, q).kind = "Symbol"
    BY <2>1
  <2> QED BY <2>1, <2>2
<1>5. CASE Len(q) < Len(t)
  <2>1. ASSUME Part(d, q).kind # "Pair" PROVE FALSE
    <3> DEFINE Wrong == {k \in 0 .. Len(t) : k > Len(q) /\ f[k] # Builtin}
    <3>1. 0 \notin Wrong
      BY <1>0
    <3>2. ASSUME NEW k \in 1 .. Len(t), k-1 \notin Wrong PROVE k \notin Wrong
      <4>1. f[k] = Below(f[k-1], t[k])
        BY <1>3
      <4>2. CASE k-1 = Len(q)
        BY <1>2, <2>1, <4>1, <4>2 DEF Below
      <4>3. CASE k-1 > Len(q)
        <5>1. f[k-1] = Builtin
          BY <1>0, <3>2, <4>3
        <5> QED BY <4>1, <5>1 DEF Below, Builtin
      <4>4. CASE k-1 < Len(q)
        BY <1>0, <4>4
      <4> QED BY <1>0, <4>2, <4>3, <4>4
    <3> HIDE DEF Wrong
    <3>3. Wrong = {}
      BY <1>0, <3>1, <3>2, FirstWrong DEF Wrong
    <3>4. f[Len(t)] = Builtin
      BY <1>0, <1>5, <3>3 DEF Wrong
    <3> QED BY <1>1, <3>4 DEF Builtin
  <2>2. t[Len(q) + 1] \in {"car", "cdr"}
    BY <1>0, <1>5 DEF Path
  <2>3. ASSUME NEW x, x = t[Len(q) + 1] PROVE Starts(Append(q, x), t)
    <3>1. Len(Append(q, x)) = Len(q) + 1
      BY DEF Path
    <3>2. \A k \in 1 .. Len(q) + 1 : Append(q, x)[k] = IF k = Len(q) + 1 THEN x ELSE q[k]
      BY DEF Path
    <3> QED BY <1>0, <1>5, <2>3, <3>1, <3>2 DEF Starts
  <2> QED BY <2>1, <2>2, <2>3
<1> QED BY <1>0, <1>4, <1>5

Fork(a, b, s) == <<a, b>> \o Tail(s)

LEMMA ForkIs ==
  ASSUME NEW S, NEW s \in Seq(S), s # << >>, NEW a \in S, NEW b \in S
  PROVE  /\ Fork(a, b, s) \in Seq(S) /\ Len(Fork(a, b, s)) = Len(s) + 1
         /\ Fork(a, b, s)[1] = a /\ Fork(a, b, s)[2] = b
         /\ \A i \in 3 .. Len(s) + 1 : Fork(a, b, s)[i] = s[i-1]
BY DEF Fork

LEMMA TailIs ==
  ASSUME NEW S, NEW s \in Seq(S), s # << >>
  PROVE  /\ Tail(s) \in Seq(S) /\ Len(Tail(s)) = Len(s) - 1 /\ Head(s) = s[1] /\ s[1] \in S
         /\ Len(s) \in Nat \ {0}
         /\ \A i \in 1 .. Len(s) - 1 : Tail(s)[i] = s[i+1]
OBVIOUS

(* The places of symbols are those dealt with and those below the places   *)
(* still to be looked at.                                                  *)
Located(p, t) == \E n \in Name : Part(p, t) = Symbol(n)
Covers(p, ts, D) ==
  /\ ts \in Seq(Turns) /\ D \subseteq Turns
  /\ \A t \in Turns : Located(p, t) => t \in D \/ \E i \in 1 .. Len(ts) : Starts(ts[i], t)

LEMMA CoversAll == \A p : Covers(p, << << >> >>, {})
<1> SUFFICES ASSUME NEW p PROVE Covers(p, << << >> >>, {})
  OBVIOUS
<1>1. << >> \in Turns
  BY TurnsArePaths DEF Path
<1>2. \A t \in Turns : Starts(<< >>, t)
  BY TurnsArePaths DEF Path, Starts
<1>3. << << >> >> \in Seq(Turns) /\ Len(<< << >> >>) = 1 /\ << << >> >>[1] = << >>
  BY <1>1
<1> QED BY <1>2, <1>3 DEF Covers

LEMMA CoversNext ==
  ASSUME NEW p, NEW ts, NEW D, Covers(p, ts, D), ts # << >>, Part(p, Head(ts)).kind # "Pair"
  PROVE  Covers(p, Tail(ts), D \cup {Head(ts)})
<1>1. ts \in Seq(Turns) /\ D \subseteq Turns
  BY DEF Covers
<1>2. /\ Tail(ts) \in Seq(Turns) /\ Len(Tail(ts)) = Len(ts) - 1 /\ Head(ts) = ts[1] /\ ts[1] \in Turns
      /\ Len(ts) \in Nat \ {0}
      /\ \A i \in 1 .. Len(ts) - 1 : Tail(ts)[i] = ts[i+1]
  BY <1>1, TailIs
<1>3. ASSUME NEW t \in Turns, Located(p, t), t \notin D \cup {Head(ts)}
      PROVE  \E i \in 1 .. Len(Tail(ts)) : Starts(Tail(ts)[i], t)
  <2>1. PICK i \in 1 .. Len(ts) : Starts(ts[i], t)
    BY <1>3 DEF Covers
  <2>2. ~Starts(ts[1], t)
    <3>1. Part(p, t).kind = "Symbol"
      BY <1>3 DEF Located, Symbol
    <3>2. t \in Path /\ ts[1] \in Path
      BY <1>2, TurnsArePaths
    <3> QED BY <1>2, <1>3, <3>1, <3>2, SymbolBelow
  <2>3. i - 1 \in 1 .. Len(ts) - 1 /\ (i - 1) + 1 = i
    BY <1>2, <2>1, <2>2
  <2>4. Tail(ts)[i-1] = ts[i]
    BY <1>2, <2>3
  <2> QED BY <1>2, <2>1, <2>3, <2>4
<1> QED BY <1>1, <1>2, <1>3 DEF Covers

LEMMA CoversParts ==
  ASSUME NEW p \in Trees, NEW ts, NEW D, Covers(p, ts, D), ts # << >>, Part(p, Head(ts)).kind = "Pair"
  PROVE  /\ Append(Head(ts), "car") \in Turns /\ Append(Head(ts), "cdr") \in Turns
         /\ Covers(p, Fork(Append(Head(ts), "car"), Append(Head(ts), "cdr"), ts), D)
<1> DEFINE h == Head(ts)
           a == Append(h, "car")
           b == Append(h, "cdr")
           us == Fork(a, b, ts)
<1>1. ts \in Seq(Turns) /\ D \subseteq Turns
  BY DEF Covers
<1>2. h = ts[1] /\ ts[1] \in Turns /\ Len(ts) \in Nat \ {0}
  BY <1>1, TailIs
<1>3. h \in Path /\ Len(h) < TreeDepth
  <2>1. h \in Path /\ Len(h) <= TreeDepth /\ Len(h) \in Nat
    BY <1>2, TurnsArePaths DEF Path
  <2>2. Len(h) # TreeDepth
    BY <1>2, DepthAssumption
  <2> QED BY <2>1, <2>2
<1>4. a \in Turns /\ b \in Turns
  <2>1. a \in Path /\ b \in Path /\ Len(a) = Len(h) + 1 /\ Len(b) = Len(h) + 1 /\ Len(h) \in Nat
    BY <1>3 DEF Path
  <2> QED BY <1>3, <2>1, TurnsArePaths
<1> HIDE DEF h, a, b
<1>5. /\ us \in Seq(Turns) /\ Len(us) = Len(ts) + 1 /\ us[1] = a /\ us[2] = b
      /\ \A i \in 3 .. Len(ts) + 1 : us[i] = ts[i-1]
  BY <1>1, <1>4, ForkIs
<1> HIDE DEF us
<1>6. ASSUME NEW t \in Turns, Located(p, t), t \notin D
      PROVE  \E i \in 1 .. Len(us) : Starts(us[i], t)
  <2>1. PICK i \in 1 .. Len(ts) : Starts(ts[i], t)
    BY <1>6 DEF Covers
  <2>2. CASE i = 1
    <3>1. Part(p, t).kind = "Symbol"
      BY <1>6 DEF Located, Symbol
    <3>2. t \in Path
      BY TurnsArePaths
    <3>3. Starts(a, t) \/ Starts(b, t)
      BY <1>2, <1>3, <2>1, <2>2, <3>1, <3>2, SymbolBelow DEF h, a, b
    <3>4. 1 \in 1 .. Len(us) /\ 2 \in 1 .. Len(us)
      BY <1>2, <1>5
    <3> QED BY <1>5, <3>3, <3>4
  <2>3. CASE i # 1
    <3>1. i + 1 \in 3 .. Len(ts) + 1 /\ (i + 1) - 1 = i
      BY <1>2, <2>3
    <3>2. us[i + 1] = ts[i]
      BY <1>5, <3>1
    <3> QED BY <1>2, <1>5, <2>1, <3>1, <3>2
  <2> QED BY <2>2, <2>3
<1>7. Covers(p, us, D)
  BY <1>1, <1>5, <1>6 DEF Covers
<1> QED BY <1>4, <1>7 DEF us, a, b, h

LEMMA PlacedAll ==
  ASSUME NEW p, NEW D, Covers(p, << >>, D)
  PROVE  \A t \in Turns : Located(p, t) => t \in D
BY DEF Covers
-----------------------------------------------------------------------------
(* What an operation that has ended must have done, in parts. *)
Places(p, n)     == {t \in Turns : Part(p, t) = Symbol(n)}
PartsAt(p, o, n) == {Part(o, t) : t \in Places(p, n)}
ValueIn(f, n)    == IF n \in DOMAIN f THEN {f[n]} ELSE {}
Before(j, b, n)  == IF j.op # "define" \/ n \notin DOMAIN b[j.env].frame THEN {}
                    ELSE {b[j.env].frame[n]}
After(j, s, n)   == ValueIn(s[j.env].frame, n)

OthersKept(j, s, b) == \A e \in DOMAIN b : j.op # "define" \/ e # j.env => s[e] = b[e]
BoundRight(j, s, b, n) ==
  IF j.op # "define" /\ n = j.name
  THEN After(j, s, n) = {Env(j.caller)} /\ Places(j.ptree, n) = {}
  ELSE IF Places(j.ptree, n) = {} THEN After(j, s, n) = Before(j, b, n)
  ELSE /\ After(j, s, n) # {} /\ After(j, s, n) \subseteq PartsAt(j.ptree, j.obj, n)
       /\ j.op # "lambda" => Cardinality(Places(j.ptree, n)) = 1
BoundSome(j, s, b, n) ==
  After(j, s, n) = Before(j, b, n) \/ After(j, s, n) \subseteq PartsAt(j.ptree, j.obj, n)
BodyRight(j, s, b) ==
  /\ Len(s) = Len(b) + IF j.answer = "Ok" THEN 1 ELSE 0
  /\ j.answer = "Ok" => j.env = Len(s) /\ s[j.env].parents = <<j.cur>>

Right(j, s, b) ==
  /\ OthersKept(j, s, b)
  /\ j.answer = "Ok" => \A n \in Name : BoundRight(j, s, b, n)
  /\ j.answer # "Ok" /\ j.op = "define" => \A n \in Name : BoundSome(j, s, b, n)
  /\ j.op # "define" => BodyRight(j, s, b)

LEMMA RightNext ==
  ASSUME Right(job', envs', before'.envs)
  PROVE  DefineMatches'
BY DEF DefineMatches, Bound, Right, OthersKept, BoundRight, BoundSome, BodyRight,
       Places, PartsAt, Before, After, ValueIn

LEMMA RightNow ==
  ASSUME DefineMatches, job.at = "idle", job.op \in {"define", "vau", "lambda"}
  PROVE  Right(job, envs, before.envs)
BY DEF DefineMatches, Bound, Right, OthersKept, BoundRight, BoundSome, BodyRight,
       Places, PartsAt, Before, After, ValueIn

(* No symbol is at two places, which validation sees to. *)
Once(p, D) == \A t, u \in D : Located(p, t) /\ Part(p, t) = Part(p, u) => t = u

Validating(p, todo, seen, ts, D) ==
  /\ Covers(p, ts, D) /\ Once(p, D)
  /\ Len(todo) = Len(ts) /\ \A i \in 1 .. Len(ts) : todo[i] = Part(p, ts[i])
  /\ \A n \in Name : n \in seen <=> \E t \in D : Part(p, t) = Symbol(n)

Validates ==
  /\ job.op # "lambda" => Once(job.ptree, Turns)
  /\ job.name # None => \A t \in Turns : Part(job.ptree, t) # Symbol(job.name)

(* The binding of n in the frame f, that was in the frame g, when the      *)
(* places in D have been matched.                                          *)
BoundSoFar(p, o, f, g, D, n) ==
  IF \E t \in D : Part(p, t) = Symbol(n)
  THEN n \in DOMAIN f /\ \E t \in D : Part(p, t) = Symbol(n) /\ f[n] = Part(o, t)
  ELSE ValueIn(f, n) = ValueIn(g, n)

Empty   == [n \in {} |-> Nil]
FrameOf == IF job.op = "define" THEN before.envs[job.env].frame ELSE Empty

Matching(p, o, todo, f, g, ts, D) ==
  /\ Covers(p, ts, D)
  /\ Len(todo) = Len(ts) /\ \A i \in 1 .. Len(ts) : todo[i] = <<Part(p, ts[i]), Part(o, ts[i])>>
  /\ \A n \in Name : BoundSoFar(p, o, f, g, D, n)

Others ==
  /\ before.envs \in Seq(Environment)
  /\ Len(envs) = Len(before.envs) + IF job.op = "define" THEN 0 ELSE 1
  /\ \A e \in DOMAIN before.envs : job.op # "define" \/ e # job.env => envs[e] = before.envs[e]
  /\ job.op # "define" => envs[job.env].parents = <<job.cur>>

BindInv ==
  /\ job.at \in {"chain", "dfs"} => job.op = "lookup"
  /\ job.at \in Binding => /\ job.op \in {"define", "vau", "lambda"} /\ job.ptree \in Trees
                           /\ job.op # "vau" => job.name = None
  /\ job.at = "validate" => job.op # "lambda" /\ \E ts, D : Validating(job.ptree, job.todo, job.seen, ts, D)
  /\ job.at = "enter" => job.op # "define"
  /\ job.at \in {"validate", "enter"} => envs = before.envs
  /\ job.at \in {"enter", "match"} => Validates
  /\ job.at = "match" =>
       /\ Others
       /\ \E ts, D : Matching(job.ptree, job.obj, job.todo, envs[job.env].frame, FrameOf, ts, D)

MatchInv == TypeInv /\ BindInv /\ DefineMatches
-----------------------------------------------------------------------------
LEMMA OtherOps ==
  ASSUME job'.op \notin {"define", "vau", "lambda"}, job'.at \notin Binding,
         job'.at \in {"chain", "dfs"} => job'.op = "lookup"
  PROVE  BindInv' /\ DefineMatches'
BY DEF BindInv, DefineMatches, Binding

LEMMA BeginBinds ==
  ASSUME TypeInv, NEW e \in held, NEW p \in Trees,
         \/ \E v \in Given : BeginDefine(e, p, v) \/ BeginLambda(e, p, v)
         \/ \E c \in held, n \in EnvParams, v \in Objects : BeginVau(c, e, p, n, v)
  PROVE  BindInv' /\ DefineMatches'
<1>1. envs' = envs /\ before'.envs = envs
  <2>1. \A c, n, v : BeginDefine(e, p, v) \/ BeginLambda(e, p, v) \/ BeginVau(c, e, p, n, v)
          => UNCHANGED envs /\ before' = [envs |-> envs, room |-> room]
    BY DEF BeginDefine, BeginLambda, BeginVau, Begin
  <2> QED BY <2>1
<1>2. ASSUME job'.at = "validate", job'.ptree = p, job'.todo = <<p>>, job'.seen = {},
             job'.op = "vau" \/ (job'.op = "define" /\ job'.name = None)
      PROVE  BindInv' /\ DefineMatches'
  <2>1. Covers(p, << << >> >>, {})
    BY CoversAll
  <2>2. <<p>>[1] = Part(p, << << >> >>[1]) /\ Len(<<p>>) = 1 /\ Len(<< << >> >>) = 1
    BY PartEmpty
  <2>3. Once(p, {})
    BY DEF Once
  <2>4. Validating(p, <<p>>, {}, << << >> >>, {})
    BY <2>1, <2>2, <2>3 DEF Validating
  <2>5. \E ts, D : Validating(job'.ptree, job'.todo, job'.seen, ts, D)
    BY <1>2, <2>4
  <2> QED BY <1>1, <1>2, <2>5 DEF BindInv, Binding, DefineMatches
<1>3. ASSUME job'.at = "enter", job'.ptree = p, job'.op = "lambda", job'.name = None
      PROVE  BindInv' /\ DefineMatches'
  BY <1>1, <1>3 DEF BindInv, Binding, DefineMatches, Validates
<1>4. ASSUME NEW v, BeginDefine(e, p, v) PROVE BindInv' /\ DefineMatches'
  BY <1>2, <1>4 DEF BeginDefine, Begin, NoJob
<1>5. ASSUME NEW v, BeginLambda(e, p, v) PROVE BindInv' /\ DefineMatches'
  BY <1>3, <1>5 DEF BeginLambda, Begin, NoJob
<1>6. ASSUME NEW c, NEW n, NEW v, BeginVau(c, e, p, n, v) PROVE BindInv' /\ DefineMatches'
  BY <1>2, <1>6 DEF BeginVau, Begin, NoJob
<1> QED BY <1>4, <1>5, <1>6

(* A job whose operation has ended says what it was. *)
LEMMA FinishSays ==
  ASSUME JobShape(job), NEW x, Finish(x)
  PROVE  /\ job'.at = "idle" /\ job'.answer = x /\ job'.op = job.op /\ job'.env = job.env
         /\ job'.name = job.name /\ job'.ptree = job.ptree /\ job'.obj = job.obj
         /\ job'.cur = job.cur /\ job'.caller = job.caller
BY DEF Finish, JobShape

LEMMA EndsRight ==
  ASSUME job'.at = "idle", Right(job', envs', before'.envs)
  PROVE  BindInv' /\ DefineMatches'
<1>1. BindInv'
  BY DEF BindInv, Binding
<1> QED BY <1>1, RightNext

LEMMA SoFarSome ==
  ASSUME NEW p, NEW o, NEW f, NEW g, NEW D \in SUBSET Turns, NEW n, BoundSoFar(p, o, f, g, D, n)
  PROVE  ValueIn(f, n) = ValueIn(g, n) \/ ValueIn(f, n) \subseteq PartsAt(p, o, n)
<1>1. CASE \E t \in D : Part(p, t) = Symbol(n)
  <2>1. PICK t \in D : Part(p, t) = Symbol(n) /\ f[n] = Part(o, t) /\ n \in DOMAIN f
    BY <1>1 DEF BoundSoFar
  <2>2. t \in Places(p, n)
    BY <2>1 DEF Places
  <2>3. f[n] \in PartsAt(p, o, n)
    BY <2>1, <2>2 DEF PartsAt
  <2> QED BY <2>1, <2>3 DEF ValueIn
<1>2. CASE ~\E t \in D : Part(p, t) = Symbol(n)
  BY <1>2 DEF BoundSoFar
<1> QED BY <1>1, <1>2

(* A failure: while the parameters are validated nothing has changed; when *)
(* they are matched, a call drops its environment and a definition keeps   *)
(* the bindings it has made.                                               *)
LEMMA FailBinds ==
  ASSUME TypeInv, BindInv, NEW x, x # "Ok", Fail(x), job.at \in {"validate", "match"}, UNCHANGED before
  PROVE  BindInv' /\ DefineMatches'
<1>1. JobShape(job) /\ envs \in Seq(Environment) /\ Len(envs) \in Nat
  BY DEF TypeInv, SealInv, JobOK, EnvsOK
<1>2. /\ job'.at = "idle" /\ job'.answer = x /\ job'.op = job.op /\ job'.env = job.env
      /\ job'.name = job.name /\ job'.ptree = job.ptree /\ job'.obj = job.obj
      /\ job'.cur = job.cur /\ job'.caller = job.caller
  BY <1>1, FinishSays DEF Fail
<1>3. CASE job.at = "validate"
  <2>1. envs' = envs /\ before'.envs = envs
    BY <1>3 DEF Fail, BindInv
  <2>2. Right(job', envs', before'.envs)
    BY <1>1, <1>2, <2>1 DEF Right, OthersKept, BoundSome, BodyRight, Before, After, ValueIn
  <2> QED BY <1>2, <2>2, EndsRight
<1>4. CASE job.at = "match" /\ job.op # "define"
  <2>1. envs' = SubSeq(envs, 1, Len(envs) - 1) /\ before'.envs = before.envs
    BY <1>4 DEF Fail
  <2>2. /\ before.envs \in Seq(Environment) /\ Len(envs) = Len(before.envs) + 1
        /\ \A e \in DOMAIN before.envs : envs[e] = before.envs[e]
    BY <1>4 DEF BindInv, Others
  <2>3. Len(envs') = Len(before.envs) /\ \A e \in DOMAIN before.envs : envs'[e] = before.envs[e]
    BY <1>1, <2>1, <2>2
  <2>4. Right(job', envs', before'.envs)
    BY <1>2, <1>4, <2>1, <2>2, <2>3 DEF Right, OthersKept, BodyRight
  <2> QED BY <1>2, <2>4, EndsRight
<1>5. CASE job.at = "match" /\ job.op = "define"
  <2>1. envs' = envs /\ before'.envs = before.envs
    BY <1>5 DEF Fail
  <2>2. OthersKept(job', envs', before'.envs)
    BY <1>2, <1>5, <2>1 DEF OthersKept, BindInv, Others
  <2>3. ASSUME NEW n \in Name PROVE BoundSome(job', envs', before'.envs, n)
    <3>1. PICK ts, D : Matching(job.ptree, job.obj, job.todo, envs[job.env].frame, FrameOf, ts, D)
      BY <1>5 DEF BindInv
    <3>2. D \subseteq Turns
      BY <3>1 DEF Matching, Covers
    <3>3. BoundSoFar(job.ptree, job.obj, envs[job.env].frame, before.envs[job.env].frame, D, n)
      BY <1>5, <3>1 DEF Matching, FrameOf
    <3>4. \/ ValueIn(envs[job.env].frame, n) = ValueIn(before.envs[job.env].frame, n)
          \/ ValueIn(envs[job.env].frame, n) \subseteq PartsAt(job.ptree, job.obj, n)
      BY <3>2, <3>3, SoFarSome
    <3>5. After(job', envs', n) = ValueIn(envs[job.env].frame, n)
      BY <1>2, <2>1 DEF After
    <3>6. Before(job', before'.envs, n) = ValueIn(before.envs[job.env].frame, n)
      BY <1>2, <1>5, <2>1 DEF Before, ValueIn
    <3> QED BY <1>2, <3>4, <3>5, <3>6 DEF BoundSome
  <2>4. Right(job', envs', before'.envs)
    BY <1>2, <1>5, <2>2, <2>3 DEF Right
  <2> QED BY <1>2, <2>4, EndsRight
<1> QED BY <1>3, <1>4, <1>5

LEMMA ValidateBinds ==
  ASSUME TypeInv, BindInv, Validate
  PROVE  BindInv' /\ DefineMatches'
<1> DEFINE q == Head(job.todo)
           rest == Tail(job.todo)
           p == job.ptree
<1>1. /\ job.at = "validate" /\ job.todo # << >> /\ JobShape(job) /\ job.todo \in Seq(Data)
      /\ UNCHANGED before /\ envs = before.envs /\ p \in Trees /\ job.op # "lambda"
      /\ job.op \in {"define", "vau", "lambda"} /\ (job.op # "vau" => job.name = None)
  <2>1. JobOK(job) /\ job.at = "validate"
    BY DEF Validate, TypeInv, SealInv
  <2> QED BY <2>1 DEF Validate, JobOK, BindInv, Binding
<1>2. PICK ts, D : Validating(p, job.todo, job.seen, ts, D)
  BY <1>1 DEF BindInv
<1>3. /\ Covers(p, ts, D) /\ Once(p, D) /\ Len(job.todo) = Len(ts)
      /\ \A i \in 1 .. Len(ts) : job.todo[i] = Part(p, ts[i])
      /\ \A n \in Name : n \in job.seen <=> \E t \in D : Part(p, t) = Symbol(n)
      /\ ts \in Seq(Turns) /\ D \subseteq Turns
  BY <1>2 DEF Validating, Covers
<1>4. /\ ts # << >> /\ q = Part(p, Head(ts)) /\ Head(ts) = ts[1] /\ Head(ts) \in Turns /\ q \in Data
      /\ Tail(ts) \in Seq(Turns) /\ Len(Tail(ts)) = Len(rest) /\ Len(ts) \in Nat \ {0}
      /\ \A i \in 1 .. Len(Tail(ts)) : rest[i] = Part(p, Tail(ts)[i])
  <2>1. ts # << >> /\ Len(ts) \in Nat \ {0}
    BY <1>1, <1>3
  <2>2. /\ Tail(ts) \in Seq(Turns) /\ Len(Tail(ts)) = Len(ts) - 1 /\ Head(ts) = ts[1] /\ ts[1] \in Turns
        /\ \A i \in 1 .. Len(ts) - 1 : Tail(ts)[i] = ts[i+1]
    BY <1>3, <2>1, TailIs
  <2>3. /\ Len(rest) = Len(job.todo) - 1 /\ q = job.todo[1] /\ job.todo[1] \in Data
        /\ \A i \in 1 .. Len(job.todo) - 1 : rest[i] = job.todo[i+1]
    BY <1>1, TailIs
  <2> HIDE DEF q, rest, p
  <2>4. ts # << >> /\ Head(ts) = ts[1] /\ Head(ts) \in Turns /\ Tail(ts) \in Seq(Turns)
    BY <2>1, <2>2
  <2>5. q = Part(p, Head(ts)) /\ q \in Data
    BY <1>3, <2>1, <2>2, <2>3
  <2>6. Len(Tail(ts)) = Len(rest)
    BY <1>3, <2>1, <2>2, <2>3
  <2>7. ASSUME NEW i \in 1 .. Len(Tail(ts)) PROVE rest[i] = Part(p, Tail(ts)[i])
    <3>1. i \in 1 .. Len(ts) - 1 /\ i + 1 \in 1 .. Len(ts)
      BY <2>1, <2>2
    <3>2. rest[i] = job.todo[i+1] /\ Tail(ts)[i] = ts[i+1]
      BY <1>3, <2>2, <2>3, <3>1
    <3> QED BY <1>3, <3>1, <3>2
  <2> QED BY <2>1, <2>4, <2>5, <2>6, <2>7
<1> HIDE DEF q, rest
<1>5. ASSUME envs' = envs, NEW us, NEW E, NEW todo, NEW seen,
             job' = [job EXCEPT !.todo = todo, !.seen = seen],
             Validating(p, todo, seen, us, E)
      PROVE  BindInv' /\ DefineMatches'
  <2>1. /\ job'.at = "validate" /\ job'.op = job.op /\ job'.ptree = p /\ job'.name = job.name
        /\ job'.todo = todo /\ job'.seen = seen
    BY <1>1, <1>5 DEF JobShape
  <2> HIDE DEF p
  <2>3. \E vs, F : Validating(job'.ptree, job'.todo, job'.seen, vs, F)
    BY <1>5, <2>1
  <2>4. BindInv'
    BY <1>1, <1>5, <2>1, <2>3 DEF BindInv, Binding
  <2>5. DefineMatches'
    BY <2>1 DEF DefineMatches
  <2> QED BY <2>4, <2>5
<1>6. ASSUME NEW x, x # "Ok", Fail(x) PROVE BindInv' /\ DefineMatches'
  BY <1>1, <1>6, FailBinds
<1>7. ASSUME NEW todo, job' = [job EXCEPT !.todo = todo]
      PROVE  job' = [job EXCEPT !.todo = todo, !.seen = job.seen]
  BY <1>1, <1>7 DEF JobShape
<1>8. CASE q \in {Nil, Ignore} /\ job' = [job EXCEPT !.todo = rest] /\ envs' = envs
  <2>1. q.kind # "Pair" /\ \A n : q # Symbol(n)
    BY <1>8 DEF Nil, Ignore, Symbol
  <2>2. Covers(p, Tail(ts), D \cup {Head(ts)})
    BY <1>3, <1>4, <2>1, CoversNext
  <2>3. ~Located(p, Head(ts))
    BY <1>4, <2>1 DEF Located
  <2>4. Once(p, D \cup {Head(ts)})
    BY <1>3, <2>3 DEF Once, Located
  <2>5. \A n \in Name : n \in job.seen <=> \E t \in D \cup {Head(ts)} : Part(p, t) = Symbol(n)
    BY <1>3, <1>4, <2>1
  <2> HIDE DEF p
  <2>6. Validating(p, rest, job.seen, Tail(ts), D \cup {Head(ts)})
    BY <1>4, <2>2, <2>4, <2>5 DEF Validating
  <2> QED BY <1>5, <1>7, <1>8, <2>6
<1>9. CASE /\ q.kind = "Symbol" /\ q.name \notin job.seen /\ envs' = envs
           /\ job' = [job EXCEPT !.todo = rest, !.seen = @ \cup {q.name}]
  <2>1. q.kind # "Pair" /\ q = Symbol(q.name) /\ q.name \in Name
    BY <1>4, <1>9
  <2>2. Covers(p, Tail(ts), D \cup {Head(ts)})
    BY <1>3, <1>4, <2>1, CoversNext
  <2>3. \A t \in D : Part(p, t) # Symbol(q.name)
    BY <1>3, <1>9, <2>1
  <2>4. Once(p, D \cup {Head(ts)})
    <3> SUFFICES ASSUME NEW t \in D \cup {Head(ts)}, NEW u \in D \cup {Head(ts)},
                        Located(p, t), Part(p, t) = Part(p, u)
                 PROVE  t = u
      BY DEF Once
    <3> QED BY <1>3, <1>4, <2>1, <2>3 DEF Once
  <2>5. \A n : q = Symbol(n) <=> n = q.name
    BY <2>1 DEF Symbol
  <2>6. \A n \in Name : n \in job.seen \cup {q.name} <=>
          \E t \in D \cup {Head(ts)} : Part(p, t) = Symbol(n)
    BY <1>3, <1>4, <2>5
  <2>7. job' = [job EXCEPT !.todo = rest, !.seen = job.seen \cup {q.name}]
    BY <1>9
  <2> HIDE DEF p
  <2>8. Validating(p, rest, job.seen \cup {q.name}, Tail(ts), D \cup {Head(ts)})
    BY <1>4, <2>2, <2>4, <2>6 DEF Validating
  <2> QED BY <1>5, <1>9, <2>7, <2>8
<1>10. CASE /\ q.kind = "Pair" /\ envs' = envs
            /\ job' = [job EXCEPT !.todo = <<q.car, q.cdr>> \o rest]
  <2> DEFINE a == Append(Head(ts), "car")
             b == Append(Head(ts), "cdr")
             us == Fork(a, b, ts)
             todo == Fork(q.car, q.cdr, job.todo)
  <2>1. a \in Turns /\ b \in Turns /\ Covers(p, us, D)
    BY <1>1, <1>3, <1>4, <1>10, CoversParts
  <2>2. Part(p, a) = q.car /\ Part(p, b) = q.cdr
    <3>1. Head(ts) \in Path
      BY <1>4, TurnsArePaths
    <3>2. Part(p, a) = Below(q, "car") /\ Part(p, b) = Below(q, "cdr")
      BY <1>4, <3>1, PartBelow
    <3> QED BY <1>10, <3>2 DEF Below
  <2>3. q.car \in Data /\ q.cdr \in Data
    BY <1>4, <1>10
  <2> HIDE DEF a, b
  <2>4. /\ Len(us) = Len(ts) + 1 /\ us[1] = a /\ us[2] = b
        /\ \A i \in 3 .. Len(ts) + 1 : us[i] = ts[i-1]
    BY <1>3, <1>4, <2>1, ForkIs
  <2>5. /\ Len(todo) = Len(job.todo) + 1 /\ todo[1] = q.car /\ todo[2] = q.cdr
        /\ \A i \in 3 .. Len(job.todo) + 1 : todo[i] = job.todo[i-1]
    <3>1. job.todo \in Seq(Data) /\ job.todo # << >>
      BY <1>1
    <3> QED BY <2>3, <3>1 DEF Fork
  <2>6. job' = [job EXCEPT !.todo = todo, !.seen = job.seen]
    BY <1>7, <1>10 DEF Fork, rest
  <2> HIDE DEF us, todo, p
  <2>7. \A i \in 1 .. Len(us) : todo[i] = Part(p, us[i])
    <3> SUFFICES ASSUME NEW i \in 1 .. Len(us) PROVE todo[i] = Part(p, us[i])
      OBVIOUS
    <3>1. CASE i \in {1, 2}
      BY <2>2, <2>4, <2>5, <3>1
    <3>2. CASE i \notin {1, 2}
      <4>1. i \in 3 .. Len(ts) + 1 /\ i - 1 \in 1 .. Len(ts)
        BY <1>4, <2>4, <3>2
      <4>2. todo[i] = job.todo[i-1] /\ us[i] = ts[i-1]
        BY <1>3, <2>4, <2>5, <4>1
      <4> QED BY <1>3, <4>1, <4>2
    <3> QED BY <3>1, <3>2
  <2>8. Len(todo) = Len(us)
    BY <1>3, <2>4, <2>5
  <2>9. Validating(p, todo, job.seen, us, D)
    BY <1>3, <2>1, <2>7, <2>8 DEF Validating
  <2> QED BY <1>5, <1>10, <2>6, <2>9
<1>11. \/ \E x : x # "Ok" /\ Fail(x)
       \/ q \in {Nil, Ignore} /\ job' = [job EXCEPT !.todo = rest] /\ envs' = envs
       \/ /\ q.kind = "Symbol" /\ q.name \notin job.seen /\ envs' = envs
          /\ job' = [job EXCEPT !.todo = rest, !.seen = @ \cup {q.name}]
       \/ /\ q.kind = "Pair" /\ envs' = envs
          /\ job' = [job EXCEPT !.todo = <<q.car, q.cdr>> \o rest]
  BY DEF Validate, q, rest
<1> QED BY <1>6, <1>8, <1>9, <1>10, <1>11

(* The parameters are in order, so that no symbol is at two places and the *)
(* last parameter is at none. *)
LEMMA ValidatedBinds ==
  ASSUME TypeInv, BindInv, Validated
  PROVE  BindInv' /\ DefineMatches'
<1> DEFINE p == job.ptree
<1>1. /\ job.at = "validate" /\ job.todo = << >> /\ JobShape(job) /\ job.name \in Name \cup {None}
      /\ UNCHANGED before /\ envs = before.envs /\ p \in Trees /\ job.op # "lambda"
      /\ job.op \in {"define", "vau", "lambda"} /\ (job.op # "vau" => job.name = None)
      /\ envs \in Seq(Environment)
  <2>1. JobOK(job) /\ job.at = "validate" /\ envs \in Seq(Environment)
    BY DEF Validated, TypeInv, SealInv, EnvsOK
  <2> QED BY <2>1 DEF Validated, JobOK, BindInv, Binding
<1>2. PICK ts, D : Validating(p, job.todo, job.seen, ts, D)
  BY <1>1 DEF BindInv
<1>3. ts = << >> /\ D \subseteq Turns /\ Covers(p, ts, D)
  <2>1. ts \in Seq(Turns) /\ Len(ts) = 0
    BY <1>1, <1>2 DEF Validating, Covers
  <2> QED BY <1>2, <2>1 DEF Validating, Covers
<1>4. \A t \in Turns : Located(p, t) => t \in D
  BY <1>3, PlacedAll
<1>5. Once(p, Turns)
  <2> SUFFICES ASSUME NEW t \in Turns, NEW u \in Turns, Located(p, t), Part(p, t) = Part(p, u)
               PROVE  t = u
    BY DEF Once
  <2>1. Located(p, u)
    BY DEF Located
  <2>2. t \in D /\ u \in D
    BY <1>4, <2>1
  <2> QED BY <1>2, <2>2 DEF Validating, Once
<1>6. ASSUME NEW x, x # "Ok", Fail(x) PROVE BindInv' /\ DefineMatches'
  BY <1>1, <1>6, FailBinds
<1>7. CASE /\ job.op = "define" /\ UNCHANGED <<envs, held>>
           /\ job' = [job EXCEPT !.at = "match", !.todo = << <<job.ptree, job.obj>> >>]
  <2>1. /\ job'.at = "match" /\ job'.op = "define" /\ job'.ptree = p /\ job'.name = None
        /\ job'.obj = job.obj /\ job'.env = job.env /\ job'.todo = << <<p, job.obj>> >>
    BY <1>1, <1>7 DEF JobShape
  <2> HIDE DEF p
  <2>2. FrameOf' = envs[job.env].frame
    BY <1>1, <1>7, <2>1 DEF FrameOf
  <2>3. Matching(p, job.obj, << <<p, job.obj>> >>, envs[job.env].frame, envs[job.env].frame, << << >> >>, {})
    <3>1. << <<p, job.obj>> >>[1] = <<Part(p, << << >> >>[1]), Part(job.obj, << << >> >>[1])>>
      BY PartEmpty
    <3>2. Len(<< <<p, job.obj>> >>) = Len(<< << >> >>) /\ \A i \in 1 .. Len(<< << >> >>) : i = 1
      OBVIOUS
    <3> QED BY <3>1, <3>2, CoversAll DEF Matching, BoundSoFar
  <2>4. \E us, E : Matching(job'.ptree, job'.obj, job'.todo, envs'[job'.env].frame, FrameOf', us, E)
    BY <1>7, <2>1, <2>2, <2>3
  <2>5. Others'
    BY <1>1, <1>7, <2>1 DEF Others
  <2>6. Validates'
    BY <1>5, <2>1 DEF Validates
  <2>7. BindInv'
    BY <1>1, <2>1, <2>4, <2>5, <2>6 DEF BindInv, Binding
  <2> QED BY <2>1, <2>7 DEF DefineMatches
<1>8. CASE /\ job.op = "vau" /\ job.name \notin job.seen /\ UNCHANGED <<envs, held>>
           /\ job' = [job EXCEPT !.at = "enter"]
  <2>1. /\ job'.at = "enter" /\ job'.op = "vau" /\ job'.ptree = p /\ job'.name = job.name
    BY <1>1, <1>8 DEF JobShape
  <2>2. ASSUME job.name # None, NEW t \in Turns PROVE Part(p, t) # Symbol(job.name)
    <3> SUFFICES ASSUME Part(p, t) = Symbol(job.name) PROVE FALSE
      OBVIOUS
    <3>1. job.name \in Name
      BY <1>1, <2>2
    <3>2. Located(p, t)
      BY <3>1 DEF Located
    <3>3. t \in D
      BY <1>4, <3>2
    <3> QED BY <1>2, <1>8, <3>1, <3>3 DEF Validating
  <2> HIDE DEF p
  <2>3. Validates'
    BY <1>5, <2>1, <2>2 DEF Validates
  <2>4. BindInv'
    BY <1>1, <1>8, <2>1, <2>3 DEF BindInv, Binding
  <2> QED BY <2>1, <2>4 DEF DefineMatches
<1> QED BY <1>6, <1>7, <1>8 DEF Validated

LEMMA EnterBinds ==
  ASSUME TypeInv, BindInv, Enter
  PROVE  BindInv' /\ DefineMatches'
<1> DEFINE p == job.ptree
<1>1. /\ job.at = "enter" /\ JobShape(job) /\ UNCHANGED before /\ envs = before.envs
      /\ p \in Trees /\ job.op # "define" /\ job.op \in {"define", "vau", "lambda"}
      /\ (job.op # "vau" => job.name = None) /\ Validates /\ envs \in Seq(Environment)
  <2>1. JobOK(job) /\ job.at = "enter" /\ envs \in Seq(Environment)
    BY DEF Enter, TypeInv, SealInv, EnvsOK
  <2> QED BY <2>1 DEF Enter, JobOK, BindInv, Binding
<1>2. CASE Finish("OutOfMemory") /\ UNCHANGED envs
  <2>1. /\ job'.at = "idle" /\ job'.answer = "OutOfMemory" /\ job'.op = job.op /\ job'.env = job.env
    BY <1>1, <1>2, FinishSays
  <2>2. Right(job', envs', before'.envs)
    BY <1>1, <1>2, <2>1 DEF Right, OthersKept, BodyRight
  <2> QED BY <2>1, <2>2, EndsRight
<1>3. CASE /\ envs' = Append(envs, [parents |-> <<job.cur>>, frame |-> [n \in {} |-> Nil]])
           /\ job' = [job EXCEPT !.at = "match", !.env = NewEnv,
                                 !.todo = << <<job.ptree, job.obj>> >>]
  <2>1. /\ job'.at = "match" /\ job'.op = job.op /\ job'.ptree = p /\ job'.name = job.name
        /\ job'.obj = job.obj /\ job'.env = Len(envs) + 1 /\ job'.todo = << <<p, job.obj>> >>
        /\ job'.cur = job.cur
    BY <1>1, <1>3 DEF JobShape, NewEnv
  <2> HIDE DEF p
  <2>2. /\ envs'[Len(envs) + 1] = [parents |-> <<job.cur>>, frame |-> Empty]
        /\ Len(envs') = Len(envs) + 1 /\ \A e \in DOMAIN envs : envs'[e] = envs[e]
    BY <1>1, <1>3 DEF Empty
  <2>3. envs'[job'.env].frame = Empty /\ FrameOf' = Empty
    BY <1>1, <2>1, <2>2 DEF FrameOf, Empty
  <2>4. Matching(p, job.obj, << <<p, job.obj>> >>, Empty, Empty, << << >> >>, {})
    <3>1. << <<p, job.obj>> >>[1] = <<Part(p, << << >> >>[1]), Part(job.obj, << << >> >>[1])>>
      BY PartEmpty
    <3>2. Len(<< <<p, job.obj>> >>) = Len(<< << >> >>) /\ \A i \in 1 .. Len(<< << >> >>) : i = 1
      OBVIOUS
    <3> QED BY <3>1, <3>2, CoversAll DEF Matching, BoundSoFar
  <2>5. \E us, E : Matching(job'.ptree, job'.obj, job'.todo, envs'[job'.env].frame, FrameOf', us, E)
    BY <2>1, <2>3, <2>4
  <2>6. Others'
    BY <1>1, <2>1, <2>2 DEF Others
  <2>7. Validates'
    BY <1>1, <2>1 DEF Validates, p
  <2>8. BindInv'
    BY <1>1, <2>1, <2>5, <2>6, <2>7 DEF BindInv, Binding
  <2> QED BY <2>1, <2>8 DEF DefineMatches
<1> QED BY <1>2, <1>3 DEF Enter

LEMMA SoFarSkips ==
  ASSUME NEW p, NEW o, NEW f, NEW g, NEW D, NEW n, NEW h,
         BoundSoFar(p, o, f, g, D, n), Part(p, h) # Symbol(n)
  PROVE  BoundSoFar(p, o, f, g, D \cup {h}, n)
<1>1. (\E t \in D \cup {h} : Part(p, t) = Symbol(n)) <=> (\E t \in D : Part(p, t) = Symbol(n))
  OBVIOUS
<1>2. CASE \E t \in D : Part(p, t) = Symbol(n)
  BY <1>2 DEF BoundSoFar
<1>3. CASE ~\E t \in D : Part(p, t) = Symbol(n)
  BY <1>1, <1>3 DEF BoundSoFar
<1> QED BY <1>2, <1>3

WithBinding(f, m, v) == [x \in DOMAIN f \cup {m} |-> IF x = m THEN v ELSE f[x]]

LEMMA SoFarBinds ==
  ASSUME NEW p, NEW o, NEW f, NEW g, NEW D, NEW n, NEW h, NEW m,
         BoundSoFar(p, o, f, g, D, n), Part(p, h) = Symbol(m)
  PROVE  BoundSoFar(p, o, WithBinding(f, m, Part(o, h)), g, D \cup {h}, n)
<1> DEFINE w == WithBinding(f, m, Part(o, h))
<1>1. /\ DOMAIN w = DOMAIN f \cup {m} /\ w[m] = Part(o, h)
      /\ \A x \in DOMAIN f : x # m => w[x] = f[x]
  BY DEF WithBinding
<1> HIDE DEF w
<1>2. ASSUME n = m PROVE BoundSoFar(p, o, w, g, D \cup {h}, n)
  BY <1>1, <1>2 DEF BoundSoFar
<1>3. ASSUME n # m PROVE BoundSoFar(p, o, w, g, D \cup {h}, n)
  <2>1. Part(p, h) # Symbol(n)
    BY <1>3 DEF Symbol
  <2>2. BoundSoFar(p, o, f, g, D \cup {h}, n)
    BY <2>1, SoFarSkips
  <2>3. (n \in DOMAIN w <=> n \in DOMAIN f) /\ (n \in DOMAIN f => w[n] = f[n])
    BY <1>1, <1>3
  <2>4. ValueIn(w, n) = ValueIn(f, n)
    BY <2>3 DEF ValueIn
  <2>5. CASE \E t \in D \cup {h} : Part(p, t) = Symbol(n)
    BY <2>2, <2>3, <2>5 DEF BoundSoFar
  <2>6. CASE ~\E t \in D \cup {h} : Part(p, t) = Symbol(n)
    BY <2>2, <2>4, <2>6 DEF BoundSoFar
  <2> QED BY <2>5, <2>6
<1> QED BY <1>2, <1>3 DEF w

(* The environment that a call or a definition binds in keeps its parents, *)
(* and all others stay as they are.                                        *)
LEMMA BindsHere ==
  ASSUME EnvsOK(envs), NEW e \in DOMAIN envs, NEW n, NEW v, Binds(e, n, v)
  PROVE  /\ Len(envs') = Len(envs) /\ envs'[e].parents = envs[e].parents
         /\ envs'[e].frame = WithBinding(envs[e].frame, n, v)
         /\ \A i \in DOMAIN envs : i # e => envs'[i] = envs[i]
<1> DEFINE f == WithBinding(envs[e].frame, n, v)
           x == [envs[e] EXCEPT !.frame = f]
<1>1. envs' = [envs EXCEPT ![e].frame = f]
  BY DEF Binds, WithBinding
<1>2. envs \in Seq(Environment) /\ e \in 1 .. Len(envs)
  BY DEF EnvsOK
<1>3. x.frame = f /\ x.parents = envs[e].parents
  <2>1. envs[e] \in Environment
    BY <1>2
  <2> QED BY <2>1 DEF Environment
<1> HIDE DEF f, x
<1>4. envs' = [envs EXCEPT ![e] = x]
  BY <1>1 DEF x
<1>5. Len(envs') = Len(envs) /\ envs'[e] = x /\ \A i \in DOMAIN envs : i # e => envs'[i] = envs[i]
  BY <1>2, <1>4
<1> QED BY <1>3, <1>5 DEF f

LEMMA OthersStay ==
  ASSUME TypeInv, BindInv, job.at = "match", NEW n, NEW v, Binds(job.env, n, v)
  PROVE  /\ Len(envs') = Len(envs)
         /\ \A e \in DOMAIN before.envs : job.op # "define" \/ e # job.env => envs'[e] = before.envs[e]
         /\ job.op # "define" => envs'[job.env].parents = <<job.cur>>
<1>1. EnvsOK(envs) /\ job.env \in DOMAIN envs /\ Others /\ Len(envs) \in Nat
  BY DEF TypeInv, SealInv, JobMatches, Binding, BindInv, EnvsOK
<1>2. /\ Len(envs') = Len(envs) /\ envs'[job.env].parents = envs[job.env].parents
      /\ \A i \in DOMAIN envs : i # job.env => envs'[i] = envs[i]
  BY <1>1, BindsHere
<1>3. ASSUME NEW e \in DOMAIN before.envs, job.op # "define" \/ e # job.env
      PROVE  envs'[e] = before.envs[e]
  <2>1. e \in DOMAIN envs /\ envs[e] = before.envs[e]
    <3> DEFINE b == before.envs
    <3>1. b \in Seq(Environment) /\ envs \in Seq(Environment) /\ Len(envs) >= Len(b)
      <4>1. b \in Seq(Environment) /\ envs \in Seq(Environment)
        BY <1>1 DEF Others, EnvsOK
      <4>2. Len(envs) = Len(b) + IF job.op = "define" THEN 0 ELSE 1
        BY <1>1 DEF Others
      <4> HIDE DEF b
      <4>3. Len(b) \in Nat
        BY <4>1
      <4> QED BY <4>1, <4>2, <4>3
    <3>2. envs[e] = b[e] /\ e \in DOMAIN b
      BY <1>1, <1>3 DEF Others
    <3> HIDE DEF b
    <3>3. e \in DOMAIN envs
      BY <3>1, <3>2
    <3> QED BY <3>2, <3>3 DEF b
  <2>2. e # job.env
    <3>1. CASE job.op # "define"
      <4>1. job.env = Len(envs) /\ Len(envs) = Len(before.envs) + 1
        BY <1>1, <3>1 DEF Others, TypeInv, JobMatches
      <4>2. e \in 1 .. Len(before.envs)
        BY <1>1 DEF Others
      <4> QED BY <4>1, <4>2
    <3> QED BY <1>3, <3>1
  <2> QED BY <1>2, <2>1, <2>2
<1> QED BY <1>1, <1>2, <1>3 DEF Others

LEMMA MatchBinds ==
  ASSUME TypeInv, BindInv, Match
  PROVE  BindInv' /\ DefineMatches'
<1> DEFINE q == Head(job.todo)[1]
           v == Head(job.todo)[2]
           rest == Tail(job.todo)
           p == job.ptree
           o == job.obj
           f == envs[job.env].frame
<1>1. /\ job.at = "match" /\ job.todo # << >> /\ JobShape(job) /\ job.todo \in Seq(Data \X Val)
      /\ UNCHANGED before /\ p \in Trees /\ Others /\ Validates
      /\ job.op \in {"define", "vau", "lambda"} /\ (job.op # "vau" => job.name = None)
  <2>1. JobOK(job) /\ job.at = "match"
    BY DEF Match, TypeInv, SealInv
  <2> QED BY <2>1 DEF Match, JobOK, BindInv, Binding
<1>2. PICK ts, D : Matching(p, o, job.todo, f, FrameOf, ts, D)
  BY <1>1 DEF BindInv
<1>3. /\ Covers(p, ts, D) /\ Len(job.todo) = Len(ts)
      /\ \A i \in 1 .. Len(ts) : job.todo[i] = <<Part(p, ts[i]), Part(o, ts[i])>>
      /\ \A n \in Name : BoundSoFar(p, o, f, FrameOf, D, n)
      /\ ts \in Seq(Turns) /\ D \subseteq Turns
  BY <1>2 DEF Matching, Covers
<1>4. /\ ts # << >> /\ q = Part(p, Head(ts)) /\ v = Part(o, Head(ts)) /\ Head(ts) = ts[1]
      /\ Head(ts) \in Turns /\ q \in Data /\ v \in Val
      /\ Tail(ts) \in Seq(Turns) /\ Len(Tail(ts)) = Len(rest) /\ Len(ts) \in Nat \ {0}
      /\ \A i \in 1 .. Len(Tail(ts)) : rest[i] = <<Part(p, Tail(ts)[i]), Part(o, Tail(ts)[i])>>
  <2>1. ts # << >> /\ Len(ts) \in Nat \ {0}
    BY <1>1, <1>3
  <2>2. /\ Tail(ts) \in Seq(Turns) /\ Len(Tail(ts)) = Len(ts) - 1 /\ Head(ts) = ts[1] /\ ts[1] \in Turns
        /\ \A i \in 1 .. Len(ts) - 1 : Tail(ts)[i] = ts[i+1]
    BY <1>3, <2>1, TailIs
  <2> DEFINE hd == Head(job.todo)
  <2>3. /\ Len(rest) = Len(job.todo) - 1 /\ hd = job.todo[1] /\ job.todo[1] \in Data \X Val
        /\ \A i \in 1 .. Len(job.todo) - 1 : rest[i] = job.todo[i+1]
    BY <1>1, TailIs
  <2>4. q = hd[1] /\ v = hd[2]
    OBVIOUS
  <2> HIDE DEF q, v, rest, p, o, hd
  <2>5. ts # << >> /\ Head(ts) = ts[1] /\ Head(ts) \in Turns /\ Tail(ts) \in Seq(Turns)
    BY <2>1, <2>2
  <2>6. hd = <<Part(p, ts[1]), Part(o, ts[1])>> /\ hd \in Data \X Val
    BY <1>3, <2>1, <2>3
  <2>7. q = Part(p, Head(ts)) /\ v = Part(o, Head(ts)) /\ q \in Data /\ v \in Val
    BY <2>4, <2>5, <2>6
  <2>8. Len(Tail(ts)) = Len(rest)
    BY <1>3, <2>1, <2>2, <2>3
  <2>9. ASSUME NEW i \in 1 .. Len(Tail(ts)) PROVE rest[i] = <<Part(p, Tail(ts)[i]), Part(o, Tail(ts)[i])>>
    <3>1. i \in 1 .. Len(ts) - 1 /\ i + 1 \in 1 .. Len(ts)
      BY <2>1, <2>2
    <3>2. rest[i] = job.todo[i+1] /\ Tail(ts)[i] = ts[i+1]
      BY <1>3, <2>2, <2>3, <3>1
    <3> QED BY <1>3, <3>1, <3>2
  <2> QED BY <2>1, <2>5, <2>7, <2>8, <2>9
<1> HIDE DEF q, v, rest, p, o, f
<1>5. ASSUME NEW us, NEW E, NEW todo, job' = [job EXCEPT !.todo = todo],
             Matching(p, o, todo, envs'[job.env].frame, FrameOf, us, E),
             UNCHANGED envs \/ \E n : Binds(job.env, n, v)
      PROVE  BindInv' /\ DefineMatches'
  <2>1. /\ job'.at = "match" /\ job'.op = job.op /\ job'.ptree = p /\ job'.name = job.name
        /\ job'.todo = todo /\ job'.obj = o /\ job'.env = job.env /\ job'.cur = job.cur
    BY <1>1, <1>5 DEF JobShape, p, o
  <2>2. FrameOf' = FrameOf
    BY <1>1, <2>1 DEF FrameOf
  <2>3. \E vs, F : Matching(job'.ptree, job'.obj, job'.todo, envs'[job'.env].frame, FrameOf', vs, F)
    BY <1>5, <2>1, <2>2
  <2>4. Others'
    <3>1. CASE UNCHANGED envs
      BY <1>1, <2>1, <3>1 DEF Others
    <3>2. CASE \E n : Binds(job.env, n, v)
      <4>1. /\ Len(envs') = Len(envs)
            /\ \A e \in DOMAIN before.envs : job.op # "define" \/ e # job.env => envs'[e] = before.envs[e]
            /\ job.op # "define" => envs'[job.env].parents = <<job.cur>>
        BY <1>1, <3>2, OthersStay
      <4> QED BY <1>1, <2>1, <4>1 DEF Others
    <3> QED BY <1>5, <3>1, <3>2
  <2>5. Validates'
    BY <1>1, <2>1 DEF Validates, p
  <2>6. BindInv'
    BY <1>1, <2>1, <2>3, <2>4, <2>5 DEF BindInv, Binding
  <2> QED BY <2>1, <2>6 DEF DefineMatches
<1>6. ASSUME NEW x, x # "Ok", Fail(x) PROVE BindInv' /\ DefineMatches'
  BY <1>1, <1>6, FailBinds
<1>7. CASE q.kind \notin {"Pair", "Symbol"} /\ job' = [job EXCEPT !.todo = rest] /\ UNCHANGED envs
  <2>1. \A n : q # Symbol(n)
    BY <1>7 DEF Symbol
  <2>2. Covers(p, Tail(ts), D \cup {Head(ts)})
    BY <1>3, <1>4, <1>7, CoversNext
  <2>3. \A n \in Name : BoundSoFar(p, o, f, FrameOf, D \cup {Head(ts)}, n)
    BY <1>3, <1>4, <2>1, SoFarSkips
  <2>4. Matching(p, o, rest, f, FrameOf, Tail(ts), D \cup {Head(ts)})
    BY <1>4, <2>2, <2>3 DEF Matching
  <2>5. envs'[job.env].frame = f
    BY <1>7 DEF f
  <2> QED BY <1>5, <1>7, <2>4, <2>5
<1>8. CASE q.kind = "Symbol" /\ Binds(job.env, q.name, v) /\ job' = [job EXCEPT !.todo = rest]
  <2>1. q.kind # "Pair" /\ q = Symbol(q.name)
    BY <1>4, <1>8
  <2>2. Covers(p, Tail(ts), D \cup {Head(ts)})
    BY <1>3, <1>4, <2>1, CoversNext
  <2>3. envs'[job.env].frame = WithBinding(f, q.name, v)
    <3>1. EnvsOK(envs) /\ job.env \in DOMAIN envs
      BY <1>1 DEF TypeInv, SealInv, JobMatches, Binding
    <3> QED BY <1>8, <3>1, BindsHere DEF f
  <2>4. \A n \in Name : BoundSoFar(p, o, WithBinding(f, q.name, v), FrameOf, D \cup {Head(ts)}, n)
    BY <1>3, <1>4, <2>1, SoFarBinds
  <2>5. Matching(p, o, rest, envs'[job.env].frame, FrameOf, Tail(ts), D \cup {Head(ts)})
    BY <1>4, <2>2, <2>3, <2>4 DEF Matching
  <2> QED BY <1>5, <1>8, <2>5
<1>9. CASE /\ q.kind = "Pair" /\ v.kind = "Pair" /\ UNCHANGED envs
           /\ job' = [job EXCEPT !.todo = << <<q.car, v.car>>, <<q.cdr, v.cdr>> >> \o rest]
  <2> DEFINE a == Append(Head(ts), "car")
             b == Append(Head(ts), "cdr")
             us == Fork(a, b, ts)
             todo == Fork(<<q.car, v.car>>, <<q.cdr, v.cdr>>, job.todo)
  <2>1. a \in Turns /\ b \in Turns /\ Covers(p, us, D)
    BY <1>1, <1>3, <1>4, <1>9, CoversParts
  <2>2. Part(p, a) = q.car /\ Part(p, b) = q.cdr /\ Part(o, a) = v.car /\ Part(o, b) = v.cdr
    <3>1. Head(ts) \in Path
      BY <1>4, TurnsArePaths
    <3>2. Part(p, a) = Below(q, "car") /\ Part(p, b) = Below(q, "cdr")
      BY <1>4, <3>1, PartBelow
    <3>3. Part(o, a) = Below(v, "car") /\ Part(o, b) = Below(v, "cdr")
      BY <1>4, <3>1, PartBelow
    <3> QED BY <1>9, <3>2, <3>3 DEF Below
  <2>3. <<q.car, v.car>> \in Data \X Val /\ <<q.cdr, v.cdr>> \in Data \X Val
    <3>1. v \in Data
      <4>1. v \in Data \cup {Builtin} \cup {Env(e) : e \in Usable} /\ v.kind = "Pair"
        BY <1>4, <1>9 DEF Val
      <4>2. Builtin.kind = "Builtin" /\ \A e : Env(e).kind = "Environment"
        BY DEF Builtin, Env
      <4>3. v # Builtin /\ v \notin {Env(e) : e \in Usable}
        BY <4>1, <4>2
      <4> QED BY <4>1, <4>3
    <3> QED BY <1>4, <1>9, <3>1 DEF Val
  <2> HIDE DEF a, b
  <2>4. /\ Len(us) = Len(ts) + 1 /\ us[1] = a /\ us[2] = b
        /\ \A i \in 3 .. Len(ts) + 1 : us[i] = ts[i-1]
    BY <1>3, <1>4, <2>1, ForkIs
  <2>5. /\ Len(todo) = Len(job.todo) + 1 /\ todo[1] = <<q.car, v.car>> /\ todo[2] = <<q.cdr, v.cdr>>
        /\ \A i \in 3 .. Len(job.todo) + 1 : todo[i] = job.todo[i-1]
    <3>1. job.todo \in Seq(Data \X Val) /\ job.todo # << >>
      BY <1>1
    <3> QED BY <2>3, <3>1 DEF Fork
  <2>6. job' = [job EXCEPT !.todo = todo]
    BY <1>9 DEF Fork, rest
  <2> HIDE DEF us, todo
  <2>7. \A i \in 1 .. Len(us) : todo[i] = <<Part(p, us[i]), Part(o, us[i])>>
    <3> SUFFICES ASSUME NEW i \in 1 .. Len(us) PROVE todo[i] = <<Part(p, us[i]), Part(o, us[i])>>
      OBVIOUS
    <3>1. CASE i \in {1, 2}
      BY <2>2, <2>4, <2>5, <3>1
    <3>2. CASE i \notin {1, 2}
      <4>1. i \in 3 .. Len(ts) + 1 /\ i - 1 \in 1 .. Len(ts)
        BY <1>4, <2>4, <3>2
      <4>2. todo[i] = job.todo[i-1] /\ us[i] = ts[i-1]
        BY <1>3, <2>4, <2>5, <4>1
      <4> QED BY <1>3, <4>1, <4>2
    <3> QED BY <3>1, <3>2
  <2>8. Len(todo) = Len(us)
    BY <1>3, <2>4, <2>5
  <2>9. Matching(p, o, todo, f, FrameOf, us, D)
    BY <1>3, <2>1, <2>7, <2>8 DEF Matching
  <2>10. envs'[job.env].frame = f
    BY <1>9 DEF f
  <2> QED BY <1>5, <1>9, <2>6, <2>9, <2>10
<1>10. \/ \E x : x # "Ok" /\ Fail(x)
       \/ (q = Ignore \/ q = Nil) /\ job' = [job EXCEPT !.todo = rest] /\ UNCHANGED envs
       \/ q.kind = "Symbol" /\ Binds(job.env, q.name, v) /\ job' = [job EXCEPT !.todo = rest]
       \/ /\ q.kind = "Pair" /\ v.kind = "Pair" /\ UNCHANGED envs
          /\ job' = [job EXCEPT !.todo = << <<q.car, v.car>>, <<q.cdr, v.cdr>> >> \o rest]
  BY DEF Match, q, v, rest
<1> QED BY <1>6, <1>7, <1>8, <1>9, <1>10 DEF Nil, Ignore

(* What an operation must have done once all places have been matched.     *)
PlacedRight(p, o, f, g, n) ==
  IF Places(p, n) = {} THEN ValueIn(f, n) = ValueIn(g, n)
  ELSE ValueIn(f, n) # {} /\ ValueIn(f, n) \subseteq PartsAt(p, o, n)

LEMMA AllPlaced ==
  ASSUME NEW p, NEW o, NEW f, NEW g, NEW D, NEW n \in Name, Matching(p, o, << >>, f, g, << >>, D)
  PROVE  PlacedRight(p, o, f, g, n)
<1>1. Covers(p, << >>, D) /\ BoundSoFar(p, o, f, g, D, n) /\ D \subseteq Turns
  BY DEF Matching, Covers
<1>2. \A t \in Turns : Located(p, t) => t \in D
  BY <1>1, PlacedAll
<1>3. CASE Places(p, n) = {}
  <2>1. ~\E t \in D : Part(p, t) = Symbol(n)
    BY <1>1, <1>3 DEF Places
  <2>2. ValueIn(f, n) = ValueIn(g, n)
    BY <1>1, <2>1 DEF BoundSoFar
  <2> QED BY <1>3, <2>2 DEF PlacedRight
<1>4. CASE Places(p, n) # {}
  <2>1. PICK u \in Turns : Part(p, u) = Symbol(n)
    BY <1>4 DEF Places
  <2>2. u \in D
    BY <1>2, <2>1 DEF Located
  <2>3. PICK t \in D : Part(p, t) = Symbol(n) /\ f[n] = Part(o, t) /\ n \in DOMAIN f
    BY <1>1, <2>1, <2>2 DEF BoundSoFar
  <2>4. t \in Places(p, n)
    BY <1>1, <2>3 DEF Places
  <2>5. f[n] \in PartsAt(p, o, n)
    BY <2>3, <2>4 DEF PartsAt
  <2> QED BY <1>4, <2>3, <2>5 DEF PlacedRight, ValueIn
<1> QED BY <1>3, <1>4

LEMMA OnePlace ==
  ASSUME NEW p, NEW n \in Name, Once(p, Turns), Places(p, n) # {}
  PROVE  Cardinality(Places(p, n)) = 1
<1>1. PICK t : t \in Places(p, n)
  OBVIOUS
<1>2. \A u \in Places(p, n) : u = t
  BY <1>1 DEF Places, Once, Located
<1>3. Places(p, n) = {t}
  BY <1>1, <1>2
<1> QED BY <1>3, FS_Singleton

(* All symbols are bound; an operative's last parameter, which is at no    *)
(* place of the tree, is bound after them. *)
LEMMA MatchedBinds ==
  ASSUME TypeInv, BindInv, Matched
  PROVE  BindInv' /\ DefineMatches'
<1> DEFINE p == job.ptree
           o == job.obj
           f == envs[job.env].frame
<1>1. /\ job.at = "match" /\ job.todo = << >> /\ JobShape(job)
      /\ UNCHANGED before /\ p \in Trees /\ Others /\ Validates
      /\ job.op \in {"define", "vau", "lambda"} /\ (job.op # "vau" => job.name = None)
      /\ EnvsOK(envs) /\ job.env \in DOMAIN envs /\ (job.op # "define" => job.env = Len(envs))
  <2>1. JobOK(job) /\ job.at = "match" /\ EnvsOK(envs) /\ JobMatches
    BY DEF Matched, TypeInv, SealInv
  <2> QED BY <2>1 DEF Matched, JobOK, BindInv, Binding, JobMatches
<1>2. PICK ts, D : Matching(p, o, job.todo, f, FrameOf, ts, D)
  BY <1>1 DEF BindInv
<1>3. Matching(p, o, << >>, f, FrameOf, << >>, D)
  <2>1. ts \in Seq(Turns) /\ Len(ts) = 0
    BY <1>1, <1>2 DEF Matching, Covers
  <2>2. ts = << >>
    BY <2>1
  <2> QED BY <1>1, <1>2, <2>2
<1>4. \A n \in Name : PlacedRight(p, o, f, FrameOf, n)
  BY <1>3, AllPlaced
<1>5. \A n \in Name : job.op # "lambda" /\ Places(p, n) # {} => Cardinality(Places(p, n)) = 1
  <2>1. job.op # "lambda" => Once(p, Turns)
    BY <1>1 DEF Validates
  <2> HIDE DEF p
  <2> QED BY <2>1, OnePlace
<1>6. ASSUME NEW x, x # "Ok", Fail(x) PROVE BindInv' /\ DefineMatches'
  BY <1>1, <1>6, FailBinds
<1>7. ASSUME Finish("Ok")
      PROVE  /\ job'.at = "idle" /\ job'.answer = "Ok" /\ job'.op = job.op /\ job'.env = job.env
             /\ job'.name = job.name /\ job'.ptree = p /\ job'.obj = o
             /\ job'.cur = job.cur /\ job'.caller = job.caller
  BY <1>1, <1>7, FinishSays
<1>8. CASE Finish("Ok") /\ UNCHANGED envs /\ (job.op = "define" \/ job.name = None)
  <2>1. OthersKept(job', envs', before'.envs)
    BY <1>1, <1>7, <1>8 DEF OthersKept, Others
  <2>2. ASSUME NEW n \in Name PROVE BoundRight(job', envs', before'.envs, n)
    <3>1. n # None
      BY EnvAssumption
    <3>2. ~(job'.op # "define" /\ n = job'.name)
      BY <1>7, <1>8, <3>1
    <3>3. After(job', envs', n) = ValueIn(f, n)
      BY <1>7, <1>8 DEF After
    <3>4. Before(job', before'.envs, n) = ValueIn(FrameOf, n)
      BY <1>1, <1>7, <1>8 DEF Before, ValueIn, FrameOf, Empty
    <3>5. PlacedRight(p, o, f, FrameOf, n)
      BY <1>4
    <3>6. job'.ptree = p /\ job'.obj = o /\ job'.op = job.op
      BY <1>7, <1>8
    <3>7. job.op # "lambda" /\ Places(p, n) # {} => Cardinality(Places(p, n)) = 1
      BY <1>5
    <3> HIDE DEF p, o, f
    <3>8. CASE Places(p, n) = {}
      BY <3>2, <3>3, <3>4, <3>5, <3>6, <3>8 DEF BoundRight, PlacedRight
    <3>9. CASE Places(p, n) # {}
      BY <3>2, <3>3, <3>5, <3>6, <3>7, <3>9 DEF BoundRight, PlacedRight
    <3> QED BY <3>8, <3>9
  <2>3. job'.op # "define" => BodyRight(job', envs', before'.envs)
    BY <1>1, <1>7, <1>8 DEF BodyRight, Others
  <2>4. Right(job', envs', before'.envs)
    BY <1>7, <1>8, <2>1, <2>2, <2>3 DEF Right
  <2> QED BY <1>7, <1>8, <2>4, EndsRight
<1>9. CASE /\ Finish("Ok") /\ job.op # "define" /\ job.name # None
           /\ Binds(job.env, job.name, Env(job.caller))
  <2>1. /\ Len(envs') = Len(envs)
        /\ \A e \in DOMAIN before.envs : job.op # "define" \/ e # job.env => envs'[e] = before.envs[e]
        /\ job.op # "define" => envs'[job.env].parents = <<job.cur>>
    BY <1>1, <1>9, OthersStay
  <2>2. OthersKept(job', envs', before'.envs)
    BY <1>1, <1>7, <1>9, <2>1 DEF OthersKept
  <2>3. BodyRight(job', envs', before'.envs)
    BY <1>1, <1>7, <1>9, <2>1 DEF BodyRight, Others
  <2> DEFINE w == WithBinding(f, job.name, Env(job.caller))
  <2>4. envs'[job.env].frame = w
    BY <1>1, <1>9, BindsHere
  <2>5. /\ DOMAIN w = DOMAIN f \cup {job.name} /\ w[job.name] = Env(job.caller)
        /\ \A x \in DOMAIN f : x # job.name => w[x] = f[x]
    BY DEF WithBinding
  <2> HIDE DEF w
  <2>6. ASSUME NEW n \in Name PROVE BoundRight(job', envs', before'.envs, n)
    <3>1. After(job', envs', n) = ValueIn(w, n)
      BY <1>7, <1>9, <2>4 DEF After
    <3>2. job'.ptree = p /\ job'.obj = o /\ job'.op = job.op /\ job'.name = job.name
          /\ job'.caller = job.caller
      BY <1>7, <1>9
    <3>3. CASE n = job.name
      <4>1. Places(p, n) = {}
        BY <1>1, <1>9, <3>3 DEF Validates, Places
      <4>2. ValueIn(w, n) = {Env(job.caller)}
        BY <2>5, <3>3 DEF ValueIn
      <4> HIDE DEF p, o
      <4> QED BY <1>9, <3>1, <3>2, <3>3, <4>1, <4>2 DEF BoundRight
    <3>4. CASE n # job.name
      <4>1. ValueIn(w, n) = ValueIn(f, n)
        <5> HIDE DEF f
        <5>1. (n \in DOMAIN w <=> n \in DOMAIN f) /\ (n \in DOMAIN f => w[n] = f[n])
          BY <2>5, <3>4
        <5> QED BY <5>1 DEF ValueIn
      <4>2. Before(job', before'.envs, n) = ValueIn(FrameOf, n)
        BY <1>1, <1>7, <1>9 DEF Before, ValueIn, FrameOf, Empty
      <4>3. PlacedRight(p, o, f, FrameOf, n)
        BY <1>4
      <4>4. job.op # "lambda" /\ Places(p, n) # {} => Cardinality(Places(p, n)) = 1
        BY <1>5
      <4> HIDE DEF p, o, f
      <4>5. CASE Places(p, n) = {}
        BY <3>1, <3>2, <3>4, <4>1, <4>2, <4>3, <4>5 DEF BoundRight, PlacedRight
      <4>6. CASE Places(p, n) # {}
        BY <3>1, <3>2, <3>4, <4>1, <4>3, <4>4, <4>6 DEF BoundRight, PlacedRight
      <4> QED BY <4>5, <4>6
    <3> QED BY <3>3, <3>4
  <2>7. Right(job', envs', before'.envs)
    BY <1>7, <1>9, <2>2, <2>3, <2>6 DEF Right
  <2> QED BY <1>7, <1>9, <2>7, EndsRight
<1>10. \/ \E x : x # "Ok" /\ Fail(x)
       \/ Finish("Ok") /\ UNCHANGED envs /\ (job.op = "define" \/ job.name = None)
       \/ /\ Finish("Ok") /\ job.op # "define" /\ job.name # None
          /\ Binds(job.env, job.name, Env(job.caller))
  BY DEF Matched
<1> QED BY <1>6, <1>8, <1>9, <1>10

(* The operations that bind no tree. *)
LEMMA OthersBind ==
  ASSUME TypeInv, BindInv,
         \/ \E ps \in Parents : MakeEnvironment(ps)
         \/ \E t \in Given, n \in Name, v \in Given : Set(t, n, v)
         \/ \E e \in held, n \in Name : BeginLookup(e, n)
         \/ Chain \/ Return \/ Descend \/ Collect
  PROVE  BindInv' /\ DefineMatches'
<1>1. JobShape(job)
  BY DEF TypeInv, SealInv, JobOK
<1>2. CASE \E ps \in Parents : MakeEnvironment(ps)
  <2>1. job'.op = "make" /\ job'.at = "idle"
    BY <1>2 DEF MakeEnvironment, Begin, NoJob
  <2> QED BY <2>1, OtherOps DEF Binding
<1>3. CASE \E t \in Given, n \in Name, v \in Given : Set(t, n, v)
  <2>1. job'.op = "set" /\ job'.at = "idle"
    <3>1. PICK t, n, v : Set(t, n, v)
      BY <1>3
    <3>2. ASSUME NEW x, NEW e, Begin([NoJob EXCEPT !.op = "set", !.env = e, !.name = n,
                                                   !.obj = v, !.answer = x])
          PROVE  job'.op = "set" /\ job'.at = "idle"
      BY <3>2 DEF Begin, NoJob
    <3> QED BY <3>1, <3>2 DEF Set
  <2> QED BY <2>1, OtherOps DEF Binding
<1>4. CASE \E e \in held, n \in Name : BeginLookup(e, n)
  <2>1. job'.op = "lookup" /\ job'.at = "chain"
    BY <1>4 DEF BeginLookup, Begin, NoJob
  <2> QED BY <2>1, OtherOps DEF Binding
<1>5. CASE Chain \/ Return \/ Descend
  <2>1. job.at \in {"chain", "dfs"} /\ job.op = "lookup"
    BY <1>5 DEF Chain, Return, Descend, BindInv
  <2>2. \/ job'.at \in {"idle", "chain", "dfs"} /\ job'.op = job.op
    <3>1. ASSUME NEW e, Found(e) PROVE job'.at = "idle" /\ job'.op = job.op
      BY <1>1, <3>1 DEF Found, JobShape
    <3>2. ASSUME NEW s, Search(s) PROVE job'.at = "dfs" /\ job'.op = job.op
      BY <1>1, <3>2 DEF Search, JobShape
    <3>3. ASSUME NEW x, Finish(x) PROVE job'.at = "idle" /\ job'.op = job.op
      BY <1>1, <3>3, FinishSays
    <3>4. ASSUME NEW e, job' = [job EXCEPT !.cur = e] PROVE job'.at = job.at /\ job'.op = job.op
      BY <1>1, <3>4 DEF JobShape
    <3>5. CASE Chain
      BY <2>1, <3>1, <3>2, <3>3, <3>4, <3>5 DEF Chain
    <3>6. CASE Return
      BY <3>2, <3>3, <3>6 DEF Return
    <3>7. CASE Descend
      BY <3>1, <3>2, <3>3, <3>7 DEF Descend
    <3> QED BY <1>5, <3>5, <3>6, <3>7
  <2> QED BY <2>1, <2>2, OtherOps DEF Binding
<1>6. CASE Collect
  <2>1. job'.op = "none" /\ job'.at = "idle"
    BY <1>6 DEF Collect, NoJob
  <2> QED BY <2>1, OtherOps DEF Binding
<1> QED BY <1>2, <1>3, <1>4, <1>5, <1>6

LEMMA StepBinds == MatchInv /\ [EnvNext]_envVars => MatchInv'
<1> SUFFICES ASSUME MatchInv, [EnvNext]_envVars PROVE BindInv' /\ DefineMatches'
  BY StepMemory DEF MatchInv
<1> TypeInv /\ BindInv /\ DefineMatches
  BY DEF MatchInv
<1>1. CASE UNCHANGED envVars
  <2>1. envs' = envs /\ job' = job /\ before' = before
    BY <1>1 DEF envVars
  <2>2. Others' = Others /\ FrameOf' = FrameOf /\ Validates' = Validates
    BY <2>1 DEF Others, FrameOf, Validates
  <2>3. BindInv'
    BY <2>1, <2>2 DEF BindInv
  <2>4. DefineMatches'
    <3>1. CASE job.at = "idle" /\ job.op \in {"define", "vau", "lambda"}
      <4>1. Right(job', envs', before'.envs)
        BY <2>1, <3>1, RightNow
      <4> QED BY <4>1, RightNext
    <3>2. CASE ~(job.at = "idle" /\ job.op \in {"define", "vau", "lambda"})
      BY <2>1, <3>2 DEF DefineMatches
    <3> QED BY <3>1, <3>2
  <2> QED BY <2>3, <2>4
<1>2. CASE \E e \in held, p \in Trees :
             \/ \E v \in Given : BeginDefine(e, p, v) \/ BeginLambda(e, p, v)
             \/ \E c \in held, n \in EnvParams, v \in Objects : BeginVau(c, e, p, n, v)
  BY <1>2, BeginBinds
<1>3. CASE \/ \E ps \in Parents : MakeEnvironment(ps)
           \/ \E t \in Given, n \in Name, v \in Given : Set(t, n, v)
           \/ \E e \in held, n \in Name : BeginLookup(e, n)
           \/ Chain \/ Return \/ Descend \/ Collect
  BY <1>3, OthersBind
<1>4. CASE Validate
  BY <1>4, ValidateBinds
<1>5. CASE Validated
  BY <1>5, ValidatedBinds
<1>6. CASE Enter
  BY <1>6, EnterBinds
<1>7. CASE Match
  BY <1>7, MatchBinds
<1>8. CASE Matched
  BY <1>8, MatchedBinds
<1> QED BY <1>1, <1>2, <1>3, <1>4, <1>5, <1>6, <1>7, <1>8 DEF EnvNext

(* A definition, or a call, binds every symbol of the parameter tree to    *)
(* the part of the object at its place, an operative also its last         *)
(* parameter to the caller's environment, and nothing else in any          *)
(* environment changes; one that fails has bound some of them and no       *)
(* other, and a call that fails leaves no environment (match_ptree,        *)
(* validate_ptree and invoke_operative, eval.rs).  The fn shorthand is no  *)
(* tree and not looked at.                                                 *)
THEOREM DefinitionsMatch == EnvSpec => []DefineMatches
<1>1. EnvInit => MatchInv
  <2> SUFFICES ASSUME EnvInit PROVE MatchInv
    OBVIOUS
  <2>1. job.at = "idle" /\ job.op = "none"
    BY DEF EnvInit, NoJob
  <2>2. BindInv /\ DefineMatches
    BY <2>1 DEF BindInv, DefineMatches, Binding
  <2> QED BY <2>2, InitMemory DEF MatchInv
<1>2. MatchInv => DefineMatches
  BY DEF MatchInv
<1> QED BY <1>1, <1>2, StepBinds, PTL DEF EnvSpec
-----------------------------------------------------------------------------
(* Looking a name up.  The order of paths first, told by the sequences     *)
(* that they are when zeros follow the last turn.                          *)
Pos        == Nat \ {0}
Pad(p)     == [i \in Pos |-> IF i <= Len(p) THEN p[i] ELSE 0]
Less(a, b) == \E k \in Pos : a[k] < b[k] /\ \A i \in Pos : i < k => a[i] = b[i]
Sooner(p, q) == Precedes(p, q) /\ p # q

LEMMA LessNot == \A a \in [Pos -> Nat] : ~Less(a, a)
BY DEF Less

LEMMA LessOn ==
  ASSUME NEW a \in [Pos -> Nat], NEW b \in [Pos -> Nat], NEW c \in [Pos -> Nat], Less(a, b), Less(b, c)
  PROVE  Less(a, c)
<1>1. PICK k \in Pos : a[k] < b[k] /\ \A i \in Pos : i < k => a[i] = b[i]
  BY DEF Less
<1>2. PICK m \in Pos : b[m] < c[m] /\ \A i \in Pos : i < m => b[i] = c[i]
  BY DEF Less
<1>3. k \in Nat /\ m \in Nat
  BY DEF Pos
<1>4. CASE k < m
  <2>1. a[k] < c[k]
    BY <1>1, <1>2, <1>4
  <2>2. \A i \in Pos : i < k => i < m
    BY <1>3, <1>4 DEF Pos
  <2> QED BY <1>1, <1>2, <2>1, <2>2 DEF Less
<1>5. CASE m < k
  <2>1. a[m] < c[m]
    BY <1>1, <1>2, <1>5
  <2>2. \A i \in Pos : i < m => i < k
    BY <1>3, <1>5 DEF Pos
  <2> QED BY <1>1, <1>2, <2>1, <2>2 DEF Less
<1>6. CASE k = m
  <2>1. a[k] \in Nat /\ b[k] \in Nat /\ c[k] \in Nat
    OBVIOUS
  <2>2. a[k] < c[k]
    BY <1>1, <1>2, <1>6, <2>1
  <2> QED BY <1>1, <1>2, <1>6, <2>2 DEF Less
<1> QED BY <1>3, <1>4, <1>5, <1>6

LEMMA LessTotal ==
  ASSUME NEW a \in [Pos -> Nat], NEW b \in [Pos -> Nat], a # b
  PROVE  Less(a, b) \/ Less(b, a)
<1> DEFINE Apart == {i \in Pos : a[i] # b[i]}
<1>1. Apart \in SUBSET Nat /\ Apart # {}
  BY DEF Pos
<1>2. PICK k \in Apart : \A i \in Apart : ~(i < k)
  BY <1>1, LeastNumber
<1>3. k \in Pos /\ a[k] # b[k] /\ \A i \in Pos : i < k => a[i] = b[i]
  BY <1>2
<1>4. a[k] \in Nat /\ b[k] \in Nat
  BY <1>3
<1>5. a[k] < b[k] \/ b[k] < a[k]
  BY <1>3, <1>4
<1> QED BY <1>3, <1>5 DEF Less

LEMMA PadType ==
  ASSUME NEW p \in Seq(Pos)
  PROVE  /\ Pad(p) \in [Pos -> Nat] /\ Len(p) \in Nat
         /\ \A i \in Pos : i <= Len(p) => Pad(p)[i] = p[i] /\ p[i] \in Pos
         /\ \A i \in Pos : ~(i <= Len(p)) => Pad(p)[i] = 0
<1>1. Len(p) \in Nat
  OBVIOUS
<1>2. ASSUME NEW i \in Pos, i <= Len(p) PROVE p[i] \in Pos
  <2>1. i \in 1 .. Len(p)
    BY <1>1, <1>2 DEF Pos
  <2> QED BY <2>1
<1>3. 0 \in Nat /\ Pos \subseteq Nat
  BY DEF Pos
<1> QED BY <1>1, <1>2, <1>3 DEF Pad

LEMMA PadAlike ==
  ASSUME NEW p \in Seq(Pos), NEW q \in Seq(Pos), Pad(p) = Pad(q)
  PROVE  p = q
<1>1. Len(p) \in Nat /\ Len(q) \in Nat
  OBVIOUS
<1>2. Len(p) <= Len(q)
  <2> SUFFICES ASSUME Len(q) < Len(p) PROVE FALSE
    BY <1>1
  <2>1. Len(p) \in Pos /\ Len(p) <= Len(p) /\ ~(Len(p) <= Len(q))
    BY <1>1 DEF Pos
  <2>2. Pad(p)[Len(p)] \in Pos /\ Pad(q)[Len(p)] = 0
    BY <2>1, PadType
  <2> QED BY <2>2 DEF Pos
<1>3. Len(q) <= Len(p)
  <2> SUFFICES ASSUME Len(p) < Len(q) PROVE FALSE
    BY <1>1
  <2>1. Len(q) \in Pos /\ Len(q) <= Len(q) /\ ~(Len(q) <= Len(p))
    BY <1>1 DEF Pos
  <2>2. Pad(q)[Len(q)] \in Pos /\ Pad(p)[Len(q)] = 0
    BY <2>1, PadType
  <2> QED BY <2>2 DEF Pos
<1>4. Len(p) = Len(q)
  BY <1>1, <1>2, <1>3
<1>5. ASSUME NEW i \in 1 .. Len(p) PROVE p[i] = q[i]
  <2>1. i \in Pos /\ i <= Len(p) /\ i <= Len(q)
    BY <1>1, <1>4 DEF Pos
  <2> QED BY <2>1, PadType
<1> QED BY <1>1, <1>4, <1>5

LEMMA SoonerLess ==
  ASSUME NEW p \in Seq(Pos), NEW q \in Seq(Pos)
  PROVE  Sooner(p, q) <=> Less(Pad(p), Pad(q))
<1>0. Len(p) \in Nat /\ Len(q) \in Nat /\ Pad(p) \in [Pos -> Nat] /\ Pad(q) \in [Pos -> Nat]
  BY PadType
<1>1. ASSUME Sooner(p, q) PROVE Less(Pad(p), Pad(q))
  <2>1. PICK k \in 0 .. Len(p) : /\ k <= Len(q) /\ \A i \in 1 .. k : p[i] = q[i]
                                 /\ k = Len(p) \/ (k < Len(q) /\ p[k+1] < q[k+1])
    BY <1>1 DEF Sooner, Precedes
  <2>2. k \in Nat /\ k <= Len(p) /\ k <= Len(q) /\ k+1 \in Pos
    BY <1>0, <2>1 DEF Pos
  <2>3. ASSUME NEW i \in Pos, i < k+1 PROVE Pad(p)[i] = Pad(q)[i]
    <3>1. i \in 1 .. k /\ i <= Len(p) /\ i <= Len(q)
      <4>1. i \in Nat /\ i # 0
        BY DEF Pos
      <4>2. \A a, b \in Nat : a < b+1 => a <= b
        OBVIOUS
      <4>3. \A a, b, c \in Nat : a <= b /\ b <= c => a <= c
        OBVIOUS
      <4> QED BY <1>0, <2>2, <2>3, <4>1, <4>2, <4>3
    <3>2. p[i] = q[i]
      BY <2>1, <3>1
    <3> QED BY <3>1, <3>2, PadType
  <2>4. Pad(p)[k+1] < Pad(q)[k+1]
    <3>1. CASE k = Len(p)
      <4>1. k # Len(q)
        <5> SUFFICES ASSUME k = Len(q) PROVE p = q
          BY <1>1 DEF Sooner
        <5>1. Len(p) = Len(q) /\ \A i \in 1 .. Len(p) : p[i] = q[i]
          BY <2>1, <3>1
        <5> QED BY <5>1
      <4>2. k+1 <= Len(q) /\ ~(k+1 <= Len(p))
        BY <1>0, <2>2, <3>1, <4>1
      <4>3. Pad(p)[k+1] = 0 /\ Pad(q)[k+1] \in Pos
        BY <2>2, <4>2, PadType
      <4> QED BY <4>3 DEF Pos
    <3>2. CASE k # Len(p)
      <4>1. k+1 <= Len(p) /\ k < Len(q) /\ p[k+1] < q[k+1]
        BY <1>0, <2>1, <2>2, <3>2
      <4>2. k+1 <= Len(q)
        BY <1>0, <2>2, <4>1
      <4> QED BY <2>2, <4>1, <4>2, PadType
    <3> QED BY <3>1, <3>2
  <2> QED BY <2>2, <2>3, <2>4 DEF Less
<1>2. ASSUME Less(Pad(p), Pad(q)) PROVE Sooner(p, q)
  <2>1. PICK k \in Pos : Pad(p)[k] < Pad(q)[k] /\ \A i \in Pos : i < k => Pad(p)[i] = Pad(q)[i]
    BY <1>2 DEF Less
  <2> DEFINE m == k - 1
  <2>2. m \in Nat /\ k = m + 1 /\ k \in Nat
    BY DEF Pos
  <2> HIDE DEF m
  <2>3. k <= Len(q)
    <3>1. Pad(q)[k] # 0
      <4>1. Pad(p)[k] \in Nat /\ Pad(q)[k] \in Nat
        BY <1>0
      <4> QED BY <2>1, <4>1
    <3> QED BY <3>1, PadType
  <2>4. m <= Len(p)
    <3> SUFFICES ASSUME Len(p) < m PROVE FALSE
      BY <1>0, <2>2
    <3>1. Len(p)+1 \in Pos /\ Len(p)+1 < k /\ ~(Len(p)+1 <= Len(p)) /\ Len(p)+1 <= Len(q)
      <4>1. \A i \in Nat : i+1 \in Pos /\ ~(i+1 <= i)
        BY DEF Pos
      <4>2. \A i, j \in Nat : i < j => i+1 < j+1
        OBVIOUS
      <4>3. \A i, j, l \in Nat : i < j /\ j+1 <= l => i+1 <= l
        OBVIOUS
      <4> QED BY <1>0, <2>2, <2>3, <4>1, <4>2, <4>3
    <3>2. Pad(p)[Len(p)+1] = 0 /\ Pad(q)[Len(p)+1] \in Pos
      BY <3>1, PadType
    <3>3. Pad(p)[Len(p)+1] = Pad(q)[Len(p)+1]
      BY <2>1, <3>1
    <3> QED BY <3>2, <3>3 DEF Pos
  <2>5. ASSUME NEW i \in 1 .. m PROVE p[i] = q[i]
    <3>1. i \in Pos /\ i < k /\ i <= Len(p) /\ i <= Len(q)
      <4>1. i \in Nat /\ i # 0 /\ i \in Pos /\ i <= m
        BY <2>2 DEF Pos
      <4>2. \A a, b \in Nat : a <= b => a < b+1 /\ a <= b+1
        OBVIOUS
      <4>3. \A a, b, c \in Nat : a <= b /\ b <= c => a <= c
        OBVIOUS
      <4> QED BY <1>0, <2>2, <2>3, <2>4, <4>1, <4>2, <4>3
    <3>2. Pad(p)[i] = Pad(q)[i] /\ Pad(p)[i] = p[i] /\ Pad(q)[i] = q[i]
      BY <2>1, <3>1, PadType
    <3> QED BY <3>2
  <2>6. m # Len(p) => m < Len(q) /\ p[m+1] < q[m+1]
    <3> SUFFICES ASSUME m # Len(p) PROVE m < Len(q) /\ p[m+1] < q[m+1]
      OBVIOUS
    <3>1. k <= Len(p) /\ m < Len(q)
      <4>1. \A i, j \in Nat : i <= j /\ i # j => i+1 <= j
        OBVIOUS
      <4>2. \A i, j \in Nat : i+1 <= j => i < j
        OBVIOUS
      <4> QED BY <1>0, <2>2, <2>3, <2>4, <4>1, <4>2
    <3>2. Pad(p)[k] = p[k] /\ Pad(q)[k] = q[k]
      BY <2>3, <3>1, PadType
    <3> QED BY <2>1, <2>2, <3>1, <3>2
  <2>7. m \in 0 .. Len(p) /\ m <= Len(q)
    BY <1>0, <2>2, <2>3, <2>4
  <2>8. Precedes(p, q)
    BY <2>5, <2>6, <2>7 DEF Precedes
  <2>9. p # q
    <3> SUFFICES ASSUME p = q PROVE FALSE
      OBVIOUS
    <3>1. Less(Pad(p), Pad(p))
      BY <1>2
    <3> QED BY <1>0, <3>1, LessNot
  <2> QED BY <2>8, <2>9 DEF Sooner
<1> QED BY <1>1, <1>2

LEMMA PrecedesSelf == \A p \in Seq(Pos) : Precedes(p, p)
<1> SUFFICES ASSUME NEW p \in Seq(Pos) PROVE Precedes(p, p)
  OBVIOUS
<1>1. Len(p) \in 0 .. Len(p) /\ Len(p) <= Len(p)
  OBVIOUS
<1> QED BY <1>1 DEF Precedes

(* Sooner is a strict total order, Precedes the order that goes with it. *)
LEMMA SoonerOrders ==
  ASSUME NEW p \in Seq(Pos), NEW q \in Seq(Pos)
  PROVE  /\ Sooner(p, q) => ~Precedes(q, p)
         /\ ~Sooner(p, q) => Precedes(q, p)
<1>0. Pad(p) \in [Pos -> Nat] /\ Pad(q) \in [Pos -> Nat]
  BY PadType
<1>1. ASSUME Sooner(p, q), Precedes(q, p) PROVE FALSE
  <2>1. Sooner(q, p)
    BY <1>1 DEF Sooner
  <2>2. Less(Pad(p), Pad(q)) /\ Less(Pad(q), Pad(p))
    BY <1>1, <2>1, SoonerLess
  <2> QED BY <1>0, <2>2, LessOn, LessNot
<1>2. ASSUME ~Sooner(p, q) PROVE Precedes(q, p)
  <2>1. CASE p = q
    BY <2>1, PrecedesSelf
  <2>2. CASE p # q
    <3>1. Pad(p) # Pad(q) /\ ~Less(Pad(p), Pad(q))
      BY <1>2, <2>2, PadAlike, SoonerLess
    <3>2. Less(Pad(q), Pad(p))
      BY <1>0, <3>1, LessTotal
    <3> QED BY <3>2, SoonerLess DEF Sooner
  <2> QED BY <2>1, <2>2
<1> QED BY <1>1, <1>2

LEMMA SoonerOn ==
  ASSUME NEW p \in Seq(Pos), NEW q \in Seq(Pos), NEW r \in Seq(Pos), Sooner(p, q), Sooner(q, r)
  PROVE  Sooner(p, r)
<1>0. Pad(p) \in [Pos -> Nat] /\ Pad(q) \in [Pos -> Nat] /\ Pad(r) \in [Pos -> Nat]
  BY PadType
<1>1. Less(Pad(p), Pad(q)) /\ Less(Pad(q), Pad(r))
  BY SoonerLess
<1>2. Less(Pad(p), Pad(r))
  BY <1>0, <1>1, LessOn
<1> QED BY <1>2, SoonerLess

(* Nothing comes between a path and its first extension. *)
LEMMA SoonerDown ==
  ASSUME NEW p \in Seq(Pos), NEW q \in Seq(Pos)
  PROVE  Sooner(p, Append(q, 1)) <=> Sooner(p, q) \/ p = q
<1> DEFINE r == Append(q, 1)
           n == Len(q)
           a == Pad(p)
           b == Pad(q)
           c == Pad(r)
<1>1. /\ r \in Seq(Pos) /\ Len(r) = n + 1 /\ r[n+1] = 1 /\ n \in Nat /\ n+1 \in Pos
      /\ \A i \in 1 .. n : r[i] = q[i]
  BY DEF Pos
<1>2. a \in [Pos -> Nat] /\ b \in [Pos -> Nat] /\ c \in [Pos -> Nat]
  BY <1>1, PadType
<1>3. \A i \in Pos : ~(i <= n) => b[i] = 0
  BY PadType
<1>4. \A i \in Pos : i <= n => b[i] = c[i]
  <2> SUFFICES ASSUME NEW i \in Pos, i <= n PROVE b[i] = c[i]
    OBVIOUS
  <2>1. i <= Len(r) /\ i \in 1 .. n
    BY <1>1 DEF Pos
  <2>2. r[i] = q[i]
    BY <1>1, <2>1
  <2> QED BY <1>1, <2>1, <2>2, PadType
<1>5. c[n+1] = 1 /\ b[n+1] = 0
  <2>1. n+1 <= Len(r) /\ ~(n+1 <= n)
    BY <1>1
  <2> QED BY <1>1, <1>3, <2>1, PadType
<1>6. \A i \in Pos : ~(i <= n+1) => c[i] = 0
  BY <1>1, PadType
<1>7. ASSUME a[n+1] = 0 PROVE \A i \in Pos : ~(i <= n+1) => a[i] = 0
  <2>1. ~(n+1 <= Len(p))
    <3> SUFFICES ASSUME n+1 <= Len(p) PROVE FALSE
      OBVIOUS
    <3>1. a[n+1] \in Pos
      BY <1>1, PadType
    <3> QED BY <1>7, <3>1 DEF Pos
  <2>2. \A i \in Pos : ~(i <= n+1) => ~(i <= Len(p))
    <3>1. Len(p) \in Nat
      OBVIOUS
    <3> QED BY <1>1, <2>1, <3>1 DEF Pos
  <2> QED BY <2>2, PadType
<1> HIDE DEF r, n, a, b, c
<1>8. ASSUME Less(a, c) PROVE Less(a, b) \/ a = b
  <2>1. PICK k \in Pos : a[k] < c[k] /\ \A i \in Pos : i < k => a[i] = c[i]
    BY <1>8 DEF Less
  <2>2. k \in Nat /\ a[k] \in Nat /\ c[k] \in Nat
    BY <1>2 DEF Pos
  <2>3. k <= n+1
    BY <1>6, <2>1, <2>2
  <2>4. CASE k <= n
    <3>1. \A i \in Pos : i < k => i <= n
      BY <1>1, <2>2, <2>4 DEF Pos
    <3> QED BY <1>4, <2>1, <2>4, <3>1 DEF Less
  <2>5. CASE k = n+1
    <3>1. a[n+1] = 0
      BY <1>5, <2>1, <2>2, <2>5
    <3>2. ASSUME NEW i \in Pos PROVE a[i] = b[i]
      <4>1. i <= n \/ i = n+1 \/ ~(i <= n+1)
        BY <1>1 DEF Pos
      <4>2. CASE i <= n
        <5>1. i < k
          BY <1>1, <2>5, <4>2 DEF Pos
        <5> QED BY <1>4, <2>1, <4>2, <5>1
      <4>3. CASE ~(i <= n+1)
        <5>1. ~(i <= n)
          BY <1>1, <4>3 DEF Pos
        <5> QED BY <1>3, <1>7, <3>1, <4>3, <5>1
      <4> QED BY <1>5, <3>1, <4>1, <4>2, <4>3
    <3> QED BY <1>2, <3>2
  <2>6. k <= n \/ k = n+1
    BY <1>1, <2>2, <2>3
  <2> QED BY <2>4, <2>5, <2>6
<1>9. ASSUME Less(a, b) PROVE Less(a, c)
  <2>1. PICK k \in Pos : a[k] < b[k] /\ \A i \in Pos : i < k => a[i] = b[i]
    BY <1>9 DEF Less
  <2>2. k \in Nat /\ a[k] \in Nat /\ b[k] \in Nat
    BY <1>2 DEF Pos
  <2>3. k <= n
    BY <1>3, <2>1, <2>2
  <2>4. \A i \in Pos : i < k => i <= n
    BY <1>1, <2>2, <2>3 DEF Pos
  <2> QED BY <1>4, <2>1, <2>3, <2>4 DEF Less
<1>10. ASSUME a = b PROVE Less(a, c)
  <2>1. \A i \in Pos : i < n+1 => i <= n
    BY <1>1 DEF Pos
  <2> QED BY <1>1, <1>4, <1>5, <1>10, <2>1 DEF Less
<1>11. Sooner(p, r) <=> Less(a, c)
  BY <1>1, SoonerLess DEF a, c
<1>12. Sooner(p, q) <=> Less(a, b)
  BY SoonerLess DEF a, b
<1>13. p = q <=> a = b
  BY PadAlike DEF a, b
<1> QED BY <1>8, <1>9, <1>10, <1>11, <1>12, <1>13 DEF r

(* Where q ends with a turn and what extends q goes no further than c,     *)
(* what comes before the turn after c comes before the turn after q's.     *)
LEMMA SoonerBack ==
  ASSUME NEW p \in Seq(Pos), NEW q \in Seq(Pos), NEW c \in Nat, q # << >>,
         Len(p) > Len(q) /\ (\A i \in 1 .. Len(q) : p[i] = q[i]) => p[Len(q) + 1] <= c
  PROVE  Sooner(p, Append(q, c + 1))
           <=> Sooner(p, Append(SubSeq(q, 1, Len(q) - 1), q[Len(q)] + 1))
<1> DEFINE n == Len(q) - 1
           d == q[n+1]
           r == Append(q, c + 1)
           t == Append(SubSeq(q, 1, n), d + 1)
           a == Pad(p)
           b == Pad(r)
           z == Pad(t)
<1>1. Len(q) = n + 1 /\ n \in Nat /\ Len(p) \in Nat /\ n+1 \in Pos /\ n+2 \in Pos /\ c+1 \in Pos
      /\ d \in Pos
  <2>1. Len(q) \in Nat /\ Len(q) # 0 /\ Len(p) \in Nat
    OBVIOUS
  <2>2. n+1 = Len(q) /\ n+1 \in 1 .. Len(q)
    BY <2>1
  <2>3. d \in Pos
    BY <2>2
  <2> HIDE DEF d
  <2> QED BY <2>1, <2>2, <2>3 DEF Pos
<1>2. d+1 \in Pos /\ d \in Nat
  BY <1>1 DEF Pos
<1> HIDE DEF d
<1>3. r \in Seq(Pos) /\ Len(r) = n + 2 /\ r[n+2] = c + 1 /\ \A i \in 1 .. n+1 : r[i] = q[i]
  BY <1>1
<1>4. t \in Seq(Pos) /\ Len(t) = n + 1 /\ t[n+1] = d + 1 /\ (\A i \in 1 .. n : t[i] = q[i])
  BY <1>1, <1>2
<1>5. a \in [Pos -> Nat] /\ b \in [Pos -> Nat] /\ z \in [Pos -> Nat]
  BY <1>3, <1>4, PadType
<1> HIDE DEF r, t, n
<1>6. \A i \in Pos : i <= n => b[i] = z[i]
  <2> SUFFICES ASSUME NEW i \in Pos, i <= n PROVE b[i] = z[i]
    OBVIOUS
  <2>1. i \in 1 .. n /\ i \in 1 .. n+1 /\ i <= Len(r) /\ i <= Len(t)
    <3>1. i \in Nat /\ i # 0
      BY DEF Pos
    <3>2. \A x, y \in Nat : x <= y => x <= y+1 /\ x <= y+2
      OBVIOUS
    <3> QED BY <1>1, <1>3, <1>4, <3>1, <3>2
  <2>2. r[i] = t[i]
    BY <1>3, <1>4, <2>1
  <2> QED BY <1>3, <1>4, <2>1, <2>2, PadType
<1>7. b[n+1] = d /\ b[n+2] = c+1 /\ z[n+1] = d+1
  <2>1. n+1 <= Len(r) /\ n+2 <= Len(r) /\ n+1 <= Len(t) /\ n+1 \in 1 .. n+1
    BY <1>1, <1>3, <1>4
  <2>2. r[n+1] = d
    BY <1>3, <2>1 DEF d
  <2>3. b[n+1] = r[n+1] /\ b[n+2] = r[n+2]
    BY <1>1, <1>3, <2>1, PadType
  <2>4. z[n+1] = t[n+1]
    BY <1>1, <1>4, <2>1, PadType
  <2> QED BY <1>3, <1>4, <2>2, <2>3, <2>4
<1>8. /\ \A i \in Pos : ~(i <= n+2) => b[i] = 0
      /\ \A i \in Pos : ~(i <= n+1) => z[i] = 0
  <2>1. \A i \in Pos : ~(i <= Len(r)) => b[i] = 0
    BY <1>3, PadType
  <2>2. \A i \in Pos : ~(i <= Len(t)) => z[i] = 0
    BY <1>4, PadType
  <2> QED BY <1>3, <1>4, <2>1, <2>2
<1>9. ASSUME \A i \in Pos : i <= n+1 => a[i] = b[i] PROVE a[n+2] <= c
  <2>1. CASE n+2 <= Len(p)
    <3>1. ASSUME NEW i \in 1 .. n+1 PROVE p[i] = q[i]
      <4>1. i \in Pos /\ i <= n+1 /\ i <= Len(p) /\ i <= Len(r)
        <5>1. i \in Nat /\ i # 0 /\ i \in Pos /\ i <= n+1
          BY <1>1, SMTT(30) DEF Pos
        <5>2. \A x, y, m \in Nat : x <= y+1 /\ y+2 <= m => x <= m
          OBVIOUS
        <5>3. \A x, y \in Nat : x <= y+1 => x <= y+2
          OBVIOUS
        <5> QED BY <1>1, <1>3, <2>1, <5>1, <5>2, <5>3
      <4>2. a[i] = b[i] /\ a[i] = p[i] /\ b[i] = r[i]
        BY <1>3, <1>9, <4>1, PadType
      <4> QED BY <1>3, <4>2
    <3>2. Len(p) > Len(q) /\ Len(q) + 1 = n+2
      BY <1>1, <2>1
    <3>3. p[n+2] <= c
      BY <1>1, <3>1, <3>2
    <3> QED BY <1>1, <2>1, <3>3, PadType
  <2>2. CASE ~(n+2 <= Len(p))
    <3>1. a[n+2] = 0
      BY <1>1, <2>2, PadType
    <3> QED BY <3>1
  <2> QED BY <2>1, <2>2
<1> HIDE DEF a, b, z
<1>10. ASSUME Less(a, b) PROVE Less(a, z)
  <2>1. PICK k \in Pos : a[k] < b[k] /\ \A i \in Pos : i < k => a[i] = b[i]
    BY <1>10 DEF Less
  <2>2. k \in Nat /\ a[k] \in Nat /\ b[k] \in Nat
    BY <1>5 DEF Pos
  <2>3. k <= n+2
    BY <1>8, <2>1, <2>2
  <2>4. CASE k <= n
    <3>1. \A i \in Pos : i < k => i <= n
      BY <1>1, <2>2, <2>4 DEF Pos
    <3> QED BY <1>6, <2>1, <2>4, <3>1 DEF Less
  <2>5. CASE k = n+1 \/ k = n+2
    <3>1. \A i \in Pos : i < n+1 => i < k /\ i <= n
      BY <1>1, <2>5, SMTT(30) DEF Pos
    <3>2. a[n+1] < d+1
      <4>1. CASE k = n+1
        BY <1>2, <1>7, <2>1, <2>2, <4>1
      <4>2. CASE k = n+2
        <5>1. n+1 < k
          BY <1>1, <4>2
        <5>2. a[n+1] = d
          BY <1>1, <1>7, <2>1, <5>1
        <5> QED BY <1>2, <5>2
      <4> QED BY <2>5, <4>1, <4>2
    <3> QED BY <1>1, <1>6, <1>7, <2>1, <3>1, <3>2 DEF Less
  <2>6. k <= n \/ k = n+1 \/ k = n+2
    BY <1>1, <2>2, <2>3
  <2> QED BY <2>4, <2>5, <2>6
<1>11. ASSUME Less(a, z) PROVE Less(a, b)
  <2>1. PICK k \in Pos : a[k] < z[k] /\ \A i \in Pos : i < k => a[i] = z[i]
    BY <1>11 DEF Less
  <2>2. k \in Nat /\ a[k] \in Nat /\ z[k] \in Nat
    BY <1>5 DEF Pos
  <2>3. k <= n+1
    BY <1>8, <2>1, <2>2
  <2>4. \A i \in Pos : i < k => i <= n
    BY <1>1, <2>2, <2>3 DEF Pos
  <2>5. CASE k <= n
    BY <1>6, <2>1, <2>4, <2>5 DEF Less
  <2>6. CASE k = n+1 /\ a[n+1] < d
    BY <1>6, <1>7, <2>1, <2>4, <2>6 DEF Less
  <2>7. CASE k = n+1 /\ ~(a[n+1] < d)
    <3>1. a[n+1] = d
      BY <1>2, <1>7, <2>1, <2>2, <2>7
    <3>2. \A i \in Pos : i <= n+1 => a[i] = b[i]
      <4> SUFFICES ASSUME NEW i \in Pos, i <= n+1 PROVE a[i] = b[i]
        OBVIOUS
      <4>1. i = n+1 \/ (i < k /\ i <= n)
        BY <1>1, <2>7 DEF Pos
      <4> QED BY <1>6, <1>7, <2>1, <3>1, <4>1
    <3>3. a[n+2] <= c /\ a[n+2] \in Nat
      BY <1>1, <1>5, <1>9, <3>2
    <3>4. a[n+2] < b[n+2]
      BY <1>7, <3>3
    <3>5. \A i \in Pos : i < n+2 => i <= n+1
      BY <1>1 DEF Pos
    <3> QED BY <1>1, <3>2, <3>4, <3>5 DEF Less
  <2>8. k <= n \/ k = n+1
    BY <1>1, <2>2, <2>3
  <2> QED BY <2>5, <2>6, <2>7, <2>8
<1>12. Sooner(p, r) <=> Less(a, b)
  BY <1>3, SoonerLess DEF a, b
<1>13. Sooner(p, t) <=> Less(a, z)
  BY <1>4, SoonerLess DEF a, z
<1>14. r = Append(q, c + 1) /\ t = Append(SubSeq(q, 1, Len(q) - 1), q[Len(q)] + 1)
  BY <1>1 DEF r, t, d, n
<1> QED BY <1>10, <1>11, <1>12, <1>13, <1>14

(* Ways up: the turns p taken from e and the environments w that they lead *)
(* through.                                                                *)
Turn == {1, 2}
Way(s, e, p, w) ==
  /\ p \in Seq(Turn) /\ w \in [0 .. Len(p) -> 1 .. Len(s)] /\ w[0] = e
  /\ \A k \in 1 .. Len(p) : p[k] \in DOMAIN s[w[k-1]].parents /\ w[k] = s[w[k-1]].parents[p[k]]

(* What a lookup depends on: parents are older, and at most two. *)
Ordered(s) ==
  /\ s \in Seq(Environment)
  /\ \A e \in 1 .. Len(s) : s[e].parents \in Seq(1 .. e-1) /\ Len(s[e].parents) <= 2

LEMMA TurnSeq == Seq(Turn) \subseteq Seq(Pos) /\ Seq(Turn) \subseteq Seq(Nat)
<1>1. Turn \subseteq Pos /\ Turn \subseteq Nat
  BY DEF Turn, Pos
<1>2. ASSUME NEW p \in Seq(Turn) PROVE p \in Seq(Pos) /\ p \in Seq(Nat)
  BY <1>1
<1> QED BY <1>2

LEMMA ParentOlder ==
  ASSUME NEW s, Ordered(s), NEW x \in 1 .. Len(s), NEW c \in DOMAIN s[x].parents
  PROVE  s[x].parents[c] \in 1 .. x-1 /\ c \in Turn
<1>1. PICK ps : ps = s[x].parents
  OBVIOUS
<1>2. ps \in Seq(1 .. x-1) /\ Len(ps) <= 2 /\ Len(ps) \in Nat /\ c \in 1 .. Len(ps)
  BY <1>1 DEF Ordered
<1>3. ps[c] \in 1 .. x-1
  BY <1>2
<1> QED BY <1>1, <1>2, <1>3 DEF Turn

LEMMA WaysAgree ==
  ASSUME NEW s, NEW e, NEW p, NEW w, NEW q, NEW v, Way(s, e, p, w), Way(s, e, q, v),
         NEW k \in Nat, k <= Len(p), k <= Len(q), \A i \in 1 .. k : p[i] = q[i]
  PROVE  \A i \in 0 .. k : w[i] = v[i]
<1> DEFINE Wrong == {i \in 0 .. k : w[i] # v[i]}
<1>0. Len(p) \in Nat /\ Len(q) \in Nat
  BY DEF Way
<1>1. 0 \notin Wrong
  BY DEF Way
<1>2. ASSUME NEW i \in 1 .. k, i-1 \notin Wrong PROVE i \notin Wrong
  <2>1. i \in 1 .. Len(p) /\ i \in 1 .. Len(q) /\ i-1 \in 0 .. k
    BY <1>0
  <2>2. w[i-1] = v[i-1] /\ p[i] = q[i]
    BY <1>2, <2>1
  <2>3. w[i] = s[w[i-1]].parents[p[i]] /\ v[i] = s[v[i-1]].parents[q[i]]
    BY <2>1 DEF Way
  <2> QED BY <2>2, <2>3
<1>3. Wrong = {}
  <2> HIDE DEF Wrong
  <2>1. Wrong \in SUBSET (0 .. k)
    BY DEF Wrong
  <2> QED BY <1>1, <1>2, <2>1, FirstWrong
<1> QED BY <1>3

LEMMA WayOn ==
  ASSUME NEW s, Ordered(s), NEW e, NEW p, NEW w, Way(s, e, p, w),
         NEW c \in 1 .. Len(s[w[Len(p)]].parents)
  PROVE  \E v : /\ Way(s, e, Append(p, c), v)
                /\ v[Len(p) + 1] = s[w[Len(p)]].parents[c]
                /\ v[Len(p) + 1] < w[Len(p)]
                /\ \A k \in 0 .. Len(p) : v[k] = w[k]
<1> DEFINE n == Len(p)
           q == Append(p, c)
           x == s[w[n]].parents[c]
           v == [k \in 0 .. n+1 |-> IF k = n+1 THEN x ELSE w[k]]
<1>1. n \in Nat /\ p \in Seq(Turn) /\ w \in [0 .. n -> 1 .. Len(s)] /\ Len(s) \in Nat
  BY DEF Way, Ordered
<1>2. w[n] \in 1 .. Len(s)
  BY <1>1
<1>3. s[w[n]].parents \in Seq(1 .. w[n]-1) /\ Len(s[w[n]].parents) <= 2
  BY <1>2 DEF Ordered
<1>4. x \in 1 .. w[n]-1 /\ c \in Turn /\ c \in DOMAIN s[w[n]].parents
  <2>1. c \in DOMAIN s[w[n]].parents
    BY <1>3
  <2> QED BY <1>2, <2>1, ParentOlder
<1>5. x \in 1 .. Len(s) /\ x < w[n]
  BY <1>1, <1>2, <1>4
<1> HIDE DEF x
<1>6. q \in Seq(Turn) /\ Len(q) = n+1 /\ q[n+1] = c /\ \A k \in 1 .. n : q[k] = p[k]
  BY <1>1, <1>4
<1>7. v \in [0 .. n+1 -> 1 .. Len(s)] /\ v[0] = e
  BY <1>1, <1>5 DEF Way
<1>8. ASSUME NEW k \in 1 .. n+1
      PROVE  q[k] \in DOMAIN s[v[k-1]].parents /\ v[k] = s[v[k-1]].parents[q[k]]
  <2>1. CASE k = n+1
    <3>1. v[k] = x /\ v[k-1] = w[n] /\ q[k] = c
      BY <1>1, <1>6, <2>1
    <3> QED BY <1>4, <3>1 DEF x
  <2>2. CASE k # n+1
    <3>1. k \in 1 .. n /\ v[k] = w[k] /\ v[k-1] = w[k-1] /\ q[k] = p[k]
      BY <1>1, <1>6, <2>2
    <3> QED BY <3>1 DEF Way
  <2> QED BY <2>1, <2>2
<1>9. v[n+1] = x /\ \A k \in 0 .. n : v[k] = w[k]
  BY <1>1
<1> HIDE DEF v, q
<1>10. Way(s, e, q, v)
  BY <1>6, <1>7, <1>8 DEF Way
<1> QED BY <1>5, <1>9, <1>10 DEF q, x

LEMMA WayBack ==
  ASSUME NEW s, NEW e, NEW p, NEW w, Way(s, e, p, w), NEW k \in 0 .. Len(p)
  PROVE  /\ Way(s, e, SubSeq(p, 1, k), [i \in 0 .. k |-> w[i]])
         /\ SubSeq(p, 1, k) \in Seq(Turn) /\ Len(SubSeq(p, 1, k)) = k
         /\ \A i \in 1 .. k : SubSeq(p, 1, k)[i] = p[i]
<1> DEFINE q == SubSeq(p, 1, k)
           v == [i \in 0 .. k |-> w[i]]
<1>1. p \in Seq(Turn) /\ Len(p) \in Nat /\ w \in [0 .. Len(p) -> 1 .. Len(s)] /\ w[0] = e
  BY DEF Way
<1>2. q \in Seq(Turn) /\ Len(q) = k /\ \A i \in 1 .. k : q[i] = p[i]
  BY <1>1
<1>3. v \in [0 .. k -> 1 .. Len(s)] /\ v[0] = e
  BY <1>1
<1>4. ASSUME NEW i \in 1 .. k
      PROVE  q[i] \in DOMAIN s[v[i-1]].parents /\ v[i] = s[v[i-1]].parents[q[i]]
  <2>1. i \in 1 .. Len(p) /\ v[i] = w[i] /\ v[i-1] = w[i-1] /\ q[i] = p[i]
    BY <1>1, <1>2
  <2> QED BY <2>1 DEF Way
<1> HIDE DEF q, v
<1>5. Way(s, e, q, v)
  BY <1>2, <1>3, <1>4 DEF Way
<1> QED BY <1>2, <1>5 DEF q, v

LEMMA WayFalls ==
  ASSUME NEW s, Ordered(s), NEW e, NEW p, NEW w, Way(s, e, p, w)
  PROVE  e \in 1 .. Len(s) /\ Len(p) < e
<1> DEFINE Wrong == {k \in 0 .. Len(p) : ~(w[k] + k <= e)}
<1>1. p \in Seq(Turn) /\ Len(p) \in Nat /\ w \in [0 .. Len(p) -> 1 .. Len(s)] /\ w[0] = e
      /\ Len(s) \in Nat
  BY DEF Way, Ordered
<1>2. 0 \notin Wrong
  BY <1>1
<1>3. ASSUME NEW k \in 1 .. Len(p), k-1 \notin Wrong PROVE k \notin Wrong
  <2>1. k-1 \in 0 .. Len(p) /\ w[k-1] \in 1 .. Len(s) /\ w[k-1] + (k-1) <= e
    BY <1>1, <1>3
  <2>2. s[w[k-1]].parents \in Seq(1 .. w[k-1]-1) /\ p[k] \in DOMAIN s[w[k-1]].parents
        /\ w[k] = s[w[k-1]].parents[p[k]]
    BY <2>1 DEF Ordered, Way
  <2>3. w[k] \in 1 .. w[k-1]-1
    BY <2>1, <2>2, ParentOlder
  <2>4. w[k] \in Nat /\ e \in Nat /\ w[k] <= w[k-1] - 1
    BY <1>1, <2>1, <2>3
  <2> QED BY <2>1, <2>4, SMTT(30)
<1>4. Wrong = {}
  <2> HIDE DEF Wrong
  <2>1. Wrong \in SUBSET (0 .. Len(p))
    BY DEF Wrong
  <2> QED BY <1>1, <1>2, <1>3, <2>1, FirstWrong
<1>5. w[Len(p)] + Len(p) <= e /\ w[Len(p)] \in 1 .. Len(s) /\ e \in 1 .. Len(s)
  BY <1>1, <1>4
<1> QED BY <1>1, <1>5

(* EndOf is where a way ends, and 0 where there is none. *)
Ends(f, e, p) ==
  f = [k \in 0 .. Len(p) |->
        IF k = 0 THEN e
        ELSE IF f[k-1] # 0 /\ p[k] \in DOMAIN envs[f[k-1]].parents
             THEN envs[f[k-1]].parents[p[k]] ELSE 0]

LEMMA EndsExists ==
  ASSUME NEW e, NEW p \in Seq(Turn)
  PROVE  \E f : Ends(f, e, p)
<1> DEFINE Step(x, c) == IF x # 0 /\ c \in DOMAIN envs[x].parents THEN envs[x].parents[c] ELSE 0
           Up(f, n) == f = [k \in 0 .. n |-> IF k = 0 THEN e ELSE Step(f[k-1], p[k])]
           Wrong == {n \in 0 .. Len(p) : ~\E f : Up(f, n)}
<1>0. Len(p) \in Nat
  OBVIOUS
<1> HIDE DEF Step
<1>1. 0 \notin Wrong
  <2>1. Up([k \in 0 .. 0 |-> e], 0)
    OBVIOUS
  <2> QED BY <2>1
<1>2. ASSUME NEW n \in 1 .. Len(p), n-1 \notin Wrong PROVE n \notin Wrong
  <2>1. PICK f : Up(f, n-1)
    BY <1>0, <1>2
  <2> DEFINE g == [k \in 0 .. n |-> IF k < n THEN f[k] ELSE Step(f[n-1], p[n])]
  <2>2. \A k \in 0 .. n-1 : f[k] = IF k = 0 THEN e ELSE Step(f[k-1], p[k])
    BY <2>1
  <2>3. \A k \in 0 .. n : g[k] = IF k = 0 THEN e ELSE Step(g[k-1], p[k])
    BY <1>0, <2>2
  <2>4. Up(g, n)
    BY <2>3
  <2> HIDE DEF g
  <2> QED BY <2>4
<1> HIDE DEF Wrong
<1>3. Wrong = {}
  BY <1>0, <1>1, <1>2, FirstWrong DEF Wrong
<1>4. Len(p) \notin Wrong
  BY <1>3
<1>5. PICK f : Up(f, Len(p))
  BY <1>0, <1>4 DEF Wrong
<1> QED BY <1>5 DEF Ends, Step

LEMMA EndOfEnds ==
  ASSUME NEW e, NEW p \in Seq(Turn)
  PROVE  \E f : Ends(f, e, p) /\ EndOf(e, p) = f[Len(p)]
<1> DEFINE F == CHOOSE f : f = [k \in 0 .. Len(p) |->
                  IF k = 0 THEN e
                  ELSE IF f[k-1] # 0 /\ p[k] \in DOMAIN envs[f[k-1]].parents
                       THEN envs[f[k-1]].parents[p[k]] ELSE 0]
<1>1. EndOf(e, p) = F[Len(p)]
  BY DEF EndOf
<1>2. PICK f : Ends(f, e, p)
  BY EndsExists
<1>3. Ends(F, e, p)
  BY <1>2 DEF Ends
<1> QED BY <1>1, <1>3

LEMMA EndOfWay ==
  ASSUME Ordered(envs), NEW e, NEW p, NEW w, Way(envs, e, p, w)
  PROVE  EndOf(e, p) = w[Len(p)] /\ EndOf(e, p) # 0
<1>1. p \in Seq(Turn) /\ Len(p) \in Nat /\ w \in [0 .. Len(p) -> 1 .. Len(envs)] /\ w[0] = e
  BY DEF Way
<1>2. PICK f : Ends(f, e, p) /\ EndOf(e, p) = f[Len(p)]
  BY <1>1, EndOfEnds
<1>3. \A k \in 0 .. Len(p) : f[k] = IF k = 0 THEN e
        ELSE IF f[k-1] # 0 /\ p[k] \in DOMAIN envs[f[k-1]].parents
             THEN envs[f[k-1]].parents[p[k]] ELSE 0
  BY <1>2 DEF Ends
<1> DEFINE Wrong == {k \in 0 .. Len(p) : f[k] # w[k]}
<1>4. 0 \notin Wrong
  BY <1>1, <1>3
<1>5. ASSUME NEW k \in 1 .. Len(p), k-1 \notin Wrong PROVE k \notin Wrong
  <2>1. k-1 \in 0 .. Len(p) /\ f[k-1] = w[k-1] /\ w[k-1] \in 1 .. Len(envs) /\ k # 0
    BY <1>1, <1>5
  <2>2. w[k-1] # 0
    BY <2>1
  <2>3. p[k] \in DOMAIN envs[w[k-1]].parents /\ w[k] = envs[w[k-1]].parents[p[k]]
    BY DEF Way
  <2>4. k \in 0 .. Len(p)
    BY <1>1
  <2> QED BY <1>3, <2>1, <2>2, <2>3, <2>4
<1>6. Wrong = {}
  <2> HIDE DEF Wrong
  <2>1. Wrong \in SUBSET (0 .. Len(p))
    BY DEF Wrong
  <2> QED BY <1>1, <1>4, <1>5, <2>1, FirstWrong
<1>7. f[Len(p)] = w[Len(p)] /\ w[Len(p)] \in 1 .. Len(envs)
  BY <1>1, <1>6
<1>8. w[Len(p)] # 0
  BY <1>7
<1> QED BY <1>2, <1>7, <1>8

LEMMA WayOfEnd ==
  ASSUME Ordered(envs), NEW e \in 1 .. Len(envs), NEW p \in Seq(Turn), EndOf(e, p) # 0
  PROVE  \E w : Way(envs, e, p, w)
<1>0. Len(p) \in Nat /\ Len(envs) \in Nat
  BY DEF Ordered
<1>1. PICK f : Ends(f, e, p) /\ EndOf(e, p) = f[Len(p)]
  BY EndOfEnds
<1>2. /\ f = [k \in 0 .. Len(p) |-> f[k]]
      /\ \A k \in 0 .. Len(p) : f[k] = IF k = 0 THEN e
           ELSE IF f[k-1] # 0 /\ p[k] \in DOMAIN envs[f[k-1]].parents
                THEN envs[f[k-1]].parents[p[k]] ELSE 0
  BY <1>1 DEF Ends
<1>3. \A k \in 0 .. Len(p) : f[k] # 0
  <2> DEFINE Zero == {m \in 0 .. Len(p) : f[Len(p) - m] = 0}
  <2>1. 0 \notin Zero
    BY <1>0, <1>1
  <2>2. ASSUME NEW m \in 1 .. Len(p), m-1 \notin Zero PROVE m \notin Zero
    <3> DEFINE k == Len(p) - (m-1)
    <3>1. k \in 1 .. Len(p) /\ k \in 0 .. Len(p) /\ Len(p) - m = k-1 /\ m-1 \in 0 .. Len(p) /\ k # 0
      BY <1>0
    <3>2. f[k] # 0
      BY <2>2, <3>1
    <3> HIDE DEF k
    <3>3. f[k-1] # 0
      BY <1>2, <3>1, <3>2
    <3> QED BY <3>1, <3>3
  <2>3. Zero = {}
    <3> HIDE DEF Zero
    <3>1. Zero \in SUBSET (0 .. Len(p))
      BY DEF Zero
    <3> QED BY <1>0, <2>1, <2>2, <3>1, FirstWrong
  <2> SUFFICES ASSUME NEW k \in 0 .. Len(p) PROVE f[k] # 0
    OBVIOUS
  <2>4. Len(p) - k \in 0 .. Len(p) /\ Len(p) - (Len(p) - k) = k
    BY <1>0
  <2> QED BY <2>3, <2>4
<1>4. \A k \in 1 .. Len(p) : p[k] \in DOMAIN envs[f[k-1]].parents /\ f[k] = envs[f[k-1]].parents[p[k]]
  <2> SUFFICES ASSUME NEW k \in 1 .. Len(p)
               PROVE  p[k] \in DOMAIN envs[f[k-1]].parents /\ f[k] = envs[f[k-1]].parents[p[k]]
    OBVIOUS
  <2>1. k \in 0 .. Len(p) /\ k # 0
    BY <1>0
  <2>2. f[k] # 0
    BY <1>3, <2>1
  <2> QED BY <1>2, <2>1, <2>2
<1> DEFINE Wrong == {k \in 0 .. Len(p) : f[k] \notin 1 .. Len(envs)}
<1>5. 0 \notin Wrong /\ f[0] = e
  BY <1>0, <1>2
<1>6. ASSUME NEW k \in 1 .. Len(p), k-1 \notin Wrong PROVE k \notin Wrong
  <2>1. k-1 \in 0 .. Len(p) /\ f[k-1] \in 1 .. Len(envs)
    BY <1>0, <1>6
  <2>2. envs[f[k-1]].parents \in Seq(1 .. f[k-1]-1)
    BY <2>1 DEF Ordered
  <2>3. f[k] \in 1 .. f[k-1]-1
    BY <1>4, <2>1, ParentOlder
  <2>4. f[k] \in 1 .. Len(envs)
    BY <1>0, <2>1, <2>3
  <2> QED BY <2>4
<1>7. Wrong = {}
  <2> HIDE DEF Wrong
  <2>1. Wrong \in SUBSET (0 .. Len(p))
    BY DEF Wrong
  <2> QED BY <1>0, <1>5, <1>6, <2>1, FirstWrong
<1>8. f \in [0 .. Len(p) -> 1 .. Len(envs)]
  BY <1>2, <1>7
<1> QED BY <1>4, <1>5, <1>8 DEF Way
-----------------------------------------------------------------------------
(* The ways that end at a binding, those that fork somewhere, and those of *)
(* them that are searched before the way q.                                *)
Hits(s, e, n) == {p \in Seq(Turn) : \E w : Way(s, e, p, w) /\ n \in DOMAIN s[w[Len(p)]].frame}
Forked(s, e)  == {p \in Seq(Turn) : \E w : /\ Way(s, e, p, w)
                                           /\ \E k \in 0 .. Len(p) - 1 : Len(s[w[k]].parents) > 1}
Ahead(s, e, q) == {p \in Forked(s, e) : Sooner(p, q)}
Counts(S, n)   == IsFiniteSet(S) /\ Cardinality(S) = n

Straight(s, w, b) == \A k \in 0 .. b-1 : Len(s[w[k]].parents) = 1

(* p leads up from e, one parent at a time, past environments that do not  *)
(* bind n.                                                                 *)
Climbs(s, e, n, p, w) ==
  /\ Ordered(s) /\ Way(s, e, p, w) /\ Straight(s, w, Len(p))
  /\ \A k \in 0 .. Len(p) - 1 : n \notin DOMAIN s[w[k]].frame

(* The chain forks behind b turns; from then on all ways that come before  *)
(* the next turn of p have been searched.                                  *)
Searched(s, e, n, p, w, b, c) ==
  /\ Ordered(s) /\ Way(s, e, p, w)
  /\ b \in 0 .. Len(p) /\ Straight(s, w, b) /\ Len(s[w[b]].parents) > 1
  /\ c \in 0 .. Len(s[w[Len(p)]].parents)
  /\ \A q \in Hits(s, e, n) : ~Sooner(q, Append(p, c + 1))

(* The activation of the search at the environment x, t of whose parents   *)
(* have been taken.                                                        *)
Activations == [left : Seq(Nat), visited : SUBSET Nat]
Going(a, s, x, t) ==
  /\ Len(a.left) = Len(s[x].parents) - t
  /\ \A k \in 1 .. Len(a.left) : a.left[k] = s[x].parents[t+k]
  /\ \A y \in a.visited : x <= y

Stacked(st, s, p, w, b, c) ==
  /\ st \in Seq(Activations) /\ Len(st) = Len(p) - b + 1
  /\ \A k \in b .. Len(p) : Going(st[k-b+1], s, w[k], IF k = Len(p) THEN c ELSE p[k+1])

LEMMA WayType ==
  ASSUME NEW s, Ordered(s), NEW e, NEW p, NEW w, Way(s, e, p, w)
  PROVE  /\ p \in Seq(Turn) /\ p \in Seq(Nat) /\ p \in Seq(Pos) /\ Len(p) \in Nat
         /\ \A k \in 0 .. Len(p) : /\ w[k] \in 1 .. Len(s)
                                   /\ s[w[k]].parents \in Seq(1 .. w[k]-1)
                                   /\ Len(s[w[k]].parents) \in Nat
<1>1. p \in Seq(Turn) /\ Len(p) \in Nat /\ w \in [0 .. Len(p) -> 1 .. Len(s)]
  BY DEF Way
<1>2. ASSUME NEW k \in 0 .. Len(p) PROVE s[w[k]].parents \in Seq(1 .. w[k]-1)
  <2>1. w[k] \in 1 .. Len(s)
    BY <1>1
  <2> QED BY <2>1 DEF Ordered
<1>3. p \in Seq(Nat) /\ p \in Seq(Pos)
  BY <1>1, TurnSeq
<1>4. ASSUME NEW k \in 0 .. Len(p) PROVE Len(s[w[k]].parents) \in Nat
  BY <1>2
<1> QED BY <1>1, <1>2, <1>3, <1>4

LEMMA OneWay ==
  ASSUME NEW s, NEW e, NEW p, NEW w, NEW v, Way(s, e, p, w), Way(s, e, p, v)
  PROVE  \A i \in 0 .. Len(p) : w[i] = v[i]
<1>1. Len(p) \in Nat
  BY DEF Way
<1> QED BY <1>1, WaysAgree

(* Along a straight way, every other is part of it or goes on from it. *)
LEMMA StraightWays ==
  ASSUME NEW s, Ordered(s), NEW e, NEW p, NEW w, Way(s, e, p, w), Straight(s, w, Len(p)),
         NEW q, NEW v, Way(s, e, q, v)
  PROVE  \E m \in Nat : /\ m <= Len(p) /\ m <= Len(q) /\ (m = Len(p) \/ m = Len(q))
                        /\ \A i \in 1 .. m : q[i] = p[i]
                        /\ \A i \in 0 .. m : v[i] = w[i]
<1>0. Len(p) \in Nat /\ Len(q) \in Nat
  BY DEF Way
<1> DEFINE m == IF Len(p) <= Len(q) THEN Len(p) ELSE Len(q)
           Wrong == {k \in 0 .. m : ~(v[k] = w[k] /\ (k # 0 => q[k] = p[k]))}
<1>1. m \in Nat /\ m <= Len(p) /\ m <= Len(q) /\ (m = Len(p) \/ m = Len(q))
  BY <1>0
<1> HIDE DEF m
<1>2. 0 \notin Wrong
  BY DEF Way
<1>3. ASSUME NEW k \in 1 .. m, k-1 \notin Wrong PROVE k \notin Wrong
  <2>1. k-1 \in 0 .. m /\ k-1 \in 0 .. Len(p) - 1 /\ k \in 1 .. Len(p) /\ k \in 1 .. Len(q)
        /\ k-1 \in 0 .. Len(p)
    BY <1>0, <1>1
  <2>2. v[k-1] = w[k-1]
    BY <1>3, <2>1
  <2>3. Len(s[w[k-1]].parents) = 1 /\ s[w[k-1]].parents \in Seq(1 .. w[k-1]-1)
    BY <2>1, WayType DEF Straight
  <2>4. DOMAIN s[w[k-1]].parents = {1}
    BY <2>3
  <2>5. p[k] \in DOMAIN s[w[k-1]].parents /\ w[k] = s[w[k-1]].parents[p[k]]
    BY <2>1 DEF Way
  <2>6. q[k] \in DOMAIN s[v[k-1]].parents /\ v[k] = s[v[k-1]].parents[q[k]]
    BY <2>1 DEF Way
  <2>7. p[k] = 1 /\ q[k] = 1
    BY <2>2, <2>4, <2>5, <2>6
  <2> QED BY <2>2, <2>5, <2>6, <2>7
<1>4. Wrong = {}
  <2> HIDE DEF Wrong
  <2>1. Wrong \in SUBSET (0 .. m)
    BY DEF Wrong
  <2> QED BY <1>1, <1>2, <1>3, <2>1, FirstWrong
<1>5. \A k \in 0 .. m : v[k] = w[k] /\ (k # 0 => q[k] = p[k])
  BY <1>4
<1>6. \A i \in 1 .. m : i \in 0 .. m /\ i # 0
  BY <1>1
<1> QED BY <1>1, <1>5, <1>6

LEMMA StraightBefore ==
  ASSUME NEW s, Ordered(s), NEW e, NEW p, NEW w, Way(s, e, p, w), Straight(s, w, Len(p)),
         NEW q, NEW v, Way(s, e, q, v), Precedes(q, p)
  PROVE  Len(q) <= Len(p) /\ \A i \in 0 .. Len(q) : v[i] = w[i]
<1>0. Len(p) \in Nat /\ Len(q) \in Nat /\ p \in Seq(Nat) /\ q \in Seq(Nat)
  BY WayType
<1>1. PICK m \in Nat : /\ m <= Len(p) /\ m <= Len(q) /\ (m = Len(p) \/ m = Len(q))
                       /\ \A i \in 1 .. m : q[i] = p[i]
                       /\ \A i \in 0 .. m : v[i] = w[i]
  BY StraightWays
<1>2. m = Len(q)
  <2> SUFFICES ASSUME m # Len(q) PROVE FALSE
    OBVIOUS
  <2>1. PICK k \in 0 .. Len(q) : /\ k <= Len(p) /\ \A i \in 1 .. k : q[i] = p[i]
                                 /\ k = Len(q) \/ (k < Len(p) /\ q[k+1] < p[k+1])
    BY DEF Precedes
  <2>2. m = Len(p) /\ k < Len(p) /\ k+1 \in 1 .. m /\ q[k+1] < p[k+1]
    BY <1>0, <1>1, <2>1
  <2>3. q[k+1] = p[k+1] /\ p[k+1] \in Nat
    BY <1>0, <1>1, <2>2
  <2> QED BY <2>2, <2>3
<1> QED BY <1>1, <1>2

LEMMA NoneAhead ==
  ASSUME NEW s, Ordered(s), NEW e, NEW p, NEW w, Way(s, e, p, w), Straight(s, w, Len(p))
  PROVE  \A q \in Forked(s, e) : ~Precedes(q, p)
<1> SUFFICES ASSUME NEW q \in Forked(s, e), Precedes(q, p) PROVE FALSE
  OBVIOUS
<1>1. PICK v : Way(s, e, q, v) /\ \E k \in 0 .. Len(q) - 1 : Len(s[v[k]].parents) > 1
  BY DEF Forked
<1>2. PICK k \in 0 .. Len(q) - 1 : Len(s[v[k]].parents) > 1
  BY <1>1
<1>3. Len(q) <= Len(p) /\ \A i \in 0 .. Len(q) : v[i] = w[i]
  BY <1>1, StraightBefore
<1>4. Len(q) \in Nat /\ Len(p) \in Nat
  BY <1>1, WayType
<1>5. k \in 0 .. Len(q) /\ k \in 0 .. Len(p) - 1
  BY <1>3, <1>4
<1>6. Len(s[w[k]].parents) = 1 /\ v[k] = w[k]
  BY <1>3, <1>5 DEF Straight
<1>7. Len(s[w[k]].parents) > 1
  BY <1>2, <1>6, Zenon
<1> QED BY <1>6, <1>7

LEMMA CountsNone == Counts({}, 0)
BY FS_EmptySet DEF Counts

(* What a binding on a straight way comes before. *)
LEMMA ClimbFinds ==
  ASSUME NEW s, NEW e, NEW n, NEW p, NEW w, Climbs(s, e, n, p, w), n \in DOMAIN s[w[Len(p)]].frame
  PROVE  /\ p \in Hits(s, e, n) /\ \A q \in Hits(s, e, n) : Precedes(p, q)
         /\ Counts(Ahead(s, e, p), 0)
<1>0. Ordered(s) /\ Way(s, e, p, w) /\ Straight(s, w, Len(p))
  BY DEF Climbs
<1>1. p \in Hits(s, e, n)
  BY <1>0 DEF Hits, Way
<1>2. ASSUME NEW q \in Hits(s, e, n) PROVE Precedes(p, q)
  <2>1. PICK v : Way(s, e, q, v) /\ n \in DOMAIN s[v[Len(q)]].frame
    BY DEF Hits
  <2>2. PICK m \in Nat : /\ m <= Len(p) /\ m <= Len(q) /\ (m = Len(p) \/ m = Len(q))
                         /\ \A i \in 1 .. m : q[i] = p[i]
                         /\ \A i \in 0 .. m : v[i] = w[i]
    BY <1>0, <2>1, StraightWays
  <2>3. Len(p) \in Nat /\ Len(q) \in Nat
    BY <1>0, <2>1, WayType
  <2>4. m = Len(p)
    <3> SUFFICES ASSUME m # Len(p) PROVE FALSE
      OBVIOUS
    <3>1. m = Len(q) /\ m \in 0 .. Len(p) - 1 /\ m \in 0 .. m
      BY <2>2, <2>3
    <3>2. v[Len(q)] = w[m] /\ n \notin DOMAIN s[w[m]].frame
      BY <2>2, <3>1 DEF Climbs
    <3> QED BY <2>1, <3>2
  <2>5. Len(p) \in 0 .. Len(p) /\ Len(p) <= Len(q) /\ \A i \in 1 .. Len(p) : p[i] = q[i]
    BY <2>2, <2>3, <2>4
  <2> QED BY <2>5 DEF Precedes
<1>3. Ahead(s, e, p) = {}
  BY <1>0, NoneAhead DEF Ahead, Sooner
<1> QED BY <1>1, <1>2, <1>3, CountsNone

LEMMA ClimbEnds ==
  ASSUME NEW s, NEW e, NEW n, NEW p, NEW w, Climbs(s, e, n, p, w),
         n \notin DOMAIN s[w[Len(p)]].frame, s[w[Len(p)]].parents = << >>
  PROVE  Hits(s, e, n) = {} /\ Counts(Forked(s, e), 0)
<1>0. Ordered(s) /\ Way(s, e, p, w) /\ Straight(s, w, Len(p)) /\ Len(p) \in Nat
  BY WayType DEF Climbs
<1>1. ASSUME NEW q, NEW v, Way(s, e, q, v)
      PROVE  Len(q) \in Nat /\ Len(q) <= Len(p) /\ \A i \in 0 .. Len(q) : v[i] = w[i]
  <2>1. PICK m \in Nat : /\ m <= Len(p) /\ m <= Len(q) /\ (m = Len(p) \/ m = Len(q))
                         /\ \A i \in 1 .. m : q[i] = p[i]
                         /\ \A i \in 0 .. m : v[i] = w[i]
    BY <1>0, <1>1, StraightWays
  <2>2. Len(q) \in Nat
    BY <1>0, <1>1, WayType
  <2>3. m = Len(q)
    <3> SUFFICES ASSUME m # Len(q) PROVE FALSE
      OBVIOUS
    <3>1. m = Len(p) /\ m + 1 \in 1 .. Len(q) /\ (m+1)-1 = m /\ m \in 0 .. m
      BY <2>1, <2>2
    <3>2. q[m+1] \in DOMAIN s[v[m]].parents
      BY <1>1, <3>1 DEF Way
    <3>3. v[m] = w[Len(p)]
      BY <2>1, <3>1
    <3> QED BY <3>2, <3>3
  <2> QED BY <2>1, <2>2, <2>3
<1>2. ASSUME NEW q \in Hits(s, e, n) PROVE FALSE
  <2>1. PICK v : Way(s, e, q, v) /\ n \in DOMAIN s[v[Len(q)]].frame
    BY DEF Hits
  <2>2. Len(q) \in Nat /\ Len(q) <= Len(p) /\ \A i \in 0 .. Len(q) : v[i] = w[i]
    BY <1>1, <2>1
  <2>3. v[Len(q)] = w[Len(q)] /\ (Len(q) = Len(p) \/ Len(q) \in 0 .. Len(p) - 1)
    BY <1>0, <2>2
  <2> QED BY <2>1, <2>3 DEF Climbs
<1>3. ASSUME NEW q \in Forked(s, e) PROVE FALSE
  <2>1. PICK v : Way(s, e, q, v) /\ \E k \in 0 .. Len(q) - 1 : Len(s[v[k]].parents) > 1
    BY DEF Forked
  <2>2. PICK k \in 0 .. Len(q) - 1 : Len(s[v[k]].parents) > 1
    BY <2>1
  <2>3. Len(q) \in Nat /\ Len(q) <= Len(p) /\ \A i \in 0 .. Len(q) : v[i] = w[i]
    BY <1>1, <2>1
  <2>4. k \in 0 .. Len(q) /\ k \in 0 .. Len(p) - 1
    BY <1>0, <2>3
  <2>5. v[k] = w[k] /\ Len(s[w[k]].parents) = 1
    BY <1>0, <2>3, <2>4 DEF Straight
  <2> QED BY <2>2, <2>5
<1>4. Forked(s, e) = {} /\ Hits(s, e, n) = {}
  BY <1>2, <1>3
<1> QED BY <1>4, CountsNone

LEMMA ClimbOn ==
  ASSUME NEW s, NEW e, NEW n, NEW p, NEW w, Climbs(s, e, n, p, w),
         n \notin DOMAIN s[w[Len(p)]].frame, Len(s[w[Len(p)]].parents) = 1
  PROVE  \E q, v : Climbs(s, e, n, q, v) /\ v[Len(q)] = s[w[Len(p)]].parents[1]
<1>0. Ordered(s) /\ Way(s, e, p, w) /\ Straight(s, w, Len(p)) /\ Len(p) \in Nat /\ p \in Seq(Turn)
  BY WayType DEF Climbs
<1>1. 1 \in 1 .. Len(s[w[Len(p)]].parents)
  OBVIOUS
<1>2. PICK v : /\ Way(s, e, Append(p, 1), v)
               /\ v[Len(p) + 1] = s[w[Len(p)]].parents[1]
               /\ \A k \in 0 .. Len(p) : v[k] = w[k]
  BY <1>0, <1>1, WayOn
<1>3. Len(Append(p, 1)) = Len(p) + 1
  BY <1>0
<1>4. ASSUME NEW k \in 0 .. Len(p) + 1 - 1
      PROVE  Len(s[v[k]].parents) = 1 /\ n \notin DOMAIN s[v[k]].frame
  <2>1. k \in 0 .. Len(p) /\ (k = Len(p) \/ k \in 0 .. Len(p) - 1)
    BY <1>0
  <2>2. v[k] = w[k]
    BY <1>2, <2>1
  <2> QED BY <1>0, <2>1, <2>2 DEF Climbs, Straight
<1>5. Climbs(s, e, n, Append(p, 1), v)
  BY <1>0, <1>2, <1>3, <1>4 DEF Climbs, Straight
<1> QED BY <1>2, <1>3, <1>5

LEMMA ClimbForks ==
  ASSUME NEW s, NEW e, NEW n, NEW p, NEW w, Climbs(s, e, n, p, w),
         n \notin DOMAIN s[w[Len(p)]].frame, Len(s[w[Len(p)]].parents) > 1
  PROVE  /\ Searched(s, e, n, p, w, Len(p), 0)
         /\ Stacked(<<Activation(s[w[Len(p)]].parents, {})>>, s, p, w, Len(p), 0)
         /\ Counts(Ahead(s, e, Append(p, 0 + 1)), 0)
<1>0. Ordered(s) /\ Way(s, e, p, w) /\ Straight(s, w, Len(p)) /\ Len(p) \in Nat /\ p \in Seq(Pos)
  BY WayType DEF Climbs
<1> DEFINE ps == s[w[Len(p)]].parents
<1>1. ps \in Seq(1 .. w[Len(p)] - 1) /\ w[Len(p)] \in 1 .. Len(s) /\ Len(ps) \in Nat
  <2>1. Len(p) \in 0 .. Len(p)
    BY <1>0
  <2> QED BY <1>0, <2>1, WayType
<1>2. ASSUME NEW q, NEW v, Way(s, e, q, v), Sooner(q, Append(p, 0 + 1)) PROVE Precedes(q, p)
  <2>1. q \in Seq(Pos)
    BY <1>0, <1>2, WayType
  <2>2. Sooner(q, Append(p, 1))
    BY <1>2
  <2>3. Sooner(q, p) \/ q = p
    BY <1>0, <2>1, <2>2, SoonerDown
  <2>4. Precedes(p, p)
    BY <1>0 DEF Precedes
  <2> QED BY <2>3, <2>4 DEF Sooner
<1>3. ASSUME NEW q \in Hits(s, e, n), Sooner(q, Append(p, 0 + 1)) PROVE FALSE
  <2>1. PICK v : Way(s, e, q, v) /\ n \in DOMAIN s[v[Len(q)]].frame
    BY DEF Hits
  <2>2. Len(q) <= Len(p) /\ \A i \in 0 .. Len(q) : v[i] = w[i]
    BY <1>0, <1>2, <1>3, <2>1, StraightBefore
  <2>3. Len(q) \in Nat
    BY <1>0, <2>1, WayType
  <2>4. v[Len(q)] = w[Len(q)] /\ (Len(q) = Len(p) \/ Len(q) \in 0 .. Len(p) - 1)
    BY <1>0, <2>2, <2>3
  <2> QED BY <2>1, <2>4 DEF Climbs
<1>4. Ahead(s, e, Append(p, 0 + 1)) = {}
  <2> SUFFICES ASSUME NEW q \in Ahead(s, e, Append(p, 0 + 1)) PROVE FALSE
    OBVIOUS
  <2>1. q \in Forked(s, e) /\ Sooner(q, Append(p, 0 + 1))
    BY DEF Ahead
  <2>2. \E v : Way(s, e, q, v)
    BY <2>1 DEF Forked
  <2>3. Precedes(q, p)
    BY <1>2, <2>1, <2>2
  <2> QED BY <1>0, <2>1, <2>3, NoneAhead
<1>5. Searched(s, e, n, p, w, Len(p), 0)
  BY <1>0, <1>1, <1>3 DEF Searched
<1>6. Stacked(<<Activation(ps, {})>>, s, p, w, Len(p), 0)
  <2> DEFINE a == Activation(ps, {})
  <2>1. ps \in Seq(Nat)
    BY <1>1
  <2>2. a \in Activations /\ a.left = ps /\ a.visited = {}
    BY <2>1 DEF Activations, Activation
  <2>3. Going(a, s, w[Len(p)], 0)
    <3>1. Len(a.left) = Len(ps) - 0
      BY <1>1, <2>2
    <3>2. \A k \in 1 .. Len(a.left) : a.left[k] = ps[0 + k]
      BY <2>2
    <3>3. \A y \in a.visited : w[Len(p)] <= y
      BY <2>2
    <3> HIDE DEF a
    <3> QED BY <3>1, <3>2, <3>3 DEF Going
  <2> HIDE DEF a
  <2>4. <<a>> \in Seq(Activations) /\ Len(<<a>>) = Len(p) - Len(p) + 1
    BY <1>0, <2>2
  <2>5. ASSUME NEW k \in Len(p) .. Len(p)
        PROVE  Going(<<a>>[k - Len(p) + 1], s, w[k], IF k = Len(p) THEN 0 ELSE p[k+1])
    <3>1. k = Len(p) /\ k - Len(p) + 1 = 1
      BY <1>0
    <3> QED BY <2>3, <3>1
  <2> HIDE DEF ps
  <2>6. Stacked(<<a>>, s, p, w, Len(p), 0)
    BY <2>4, <2>5 DEF Stacked
  <2> QED BY <2>6 DEF a
<1> QED BY <1>4, <1>5, <1>6, CountsNone

(* ------------------------------ the search ------------------------------ *)
LEMMA SearchType ==
  ASSUME NEW s, NEW e, NEW n, NEW p, NEW w, NEW b, NEW c, Searched(s, e, n, p, w, b, c)
  PROVE  /\ Ordered(s) /\ Way(s, e, p, w) /\ p \in Seq(Turn) /\ p \in Seq(Pos) /\ Len(p) \in Nat
         /\ b \in 0 .. Len(p) /\ b \in Nat /\ c \in Nat /\ c + 1 \in Pos
         /\ c <= Len(s[w[Len(p)]].parents)
         /\ w[Len(p)] \in 1 .. Len(s) /\ w[Len(p)] \in Nat
         /\ s[w[Len(p)]].parents \in Seq(1 .. w[Len(p)] - 1) /\ Len(s[w[Len(p)]].parents) \in Nat
         /\ Append(p, c + 1) \in Seq(Pos)
<1>1. Ordered(s) /\ Way(s, e, p, w) /\ b \in 0 .. Len(p) /\ c \in 0 .. Len(s[w[Len(p)]].parents)
  BY DEF Searched
<1>2. p \in Seq(Turn) /\ p \in Seq(Pos) /\ Len(p) \in Nat
  BY <1>1, WayType
<1>3. Len(p) \in 0 .. Len(p)
  BY <1>2
<1>4. w[Len(p)] \in 1 .. Len(s) /\ s[w[Len(p)]].parents \in Seq(1 .. w[Len(p)] - 1)
      /\ Len(s[w[Len(p)]].parents) \in Nat
  BY <1>1, <1>3, WayType
<1>5. w[Len(p)] \in Nat /\ b \in Nat /\ c \in Nat /\ c <= Len(s[w[Len(p)]].parents)
  BY <1>1, <1>2, <1>4
<1>6. c + 1 \in Pos
  BY <1>5 DEF Pos
<1>7. Append(p, c + 1) \in Seq(Pos)
  BY <1>2, <1>6
<1> QED BY <1>1, <1>2, <1>4, <1>5, <1>6, <1>7

LEMMA TopIs ==
  ASSUME NEW st, NEW s, NEW p, NEW w, NEW b \in 0 .. Len(p), NEW c, Stacked(st, s, p, w, b, c),
         Len(p) \in Nat
  PROVE  /\ Len(st) \in Nat \ {0} /\ st \in Seq(Activations) /\ st[Len(st)] \in Activations
         /\ Len(st) = Len(p) - b + 1
         /\ Going(st[Len(st)], s, w[Len(p)], c)
<1>1. st \in Seq(Activations) /\ Len(st) = Len(p) - b + 1
  BY DEF Stacked
<1>2. Len(st) \in Nat \ {0} /\ Len(p) \in b .. Len(p)
  BY <1>1
<1>3. Going(st[Len(p) - b + 1], s, w[Len(p)], c)
  BY <1>2 DEF Stacked
<1>4. st[Len(st)] \in Activations
  BY <1>1, <1>2
<1> QED BY <1>1, <1>2, <1>3, <1>4

(* Where no parent is left at the fork, every way has been searched. *)
LEMMA AllSearched ==
  ASSUME NEW s, NEW e, NEW n, NEW p, NEW w, NEW c, Searched(s, e, n, p, w, Len(p), c),
         c = Len(s[w[Len(p)]].parents), NEW q, NEW v, Way(s, e, q, v)
  PROVE  Sooner(q, Append(p, c + 1))
<1> DEFINE r == Append(p, c + 1)
<1>0. /\ Ordered(s) /\ Way(s, e, p, w) /\ p \in Seq(Pos) /\ Len(p) \in Nat /\ c \in Nat
      /\ s[w[Len(p)]].parents \in Seq(1 .. w[Len(p)] - 1)
  BY SearchType
<1>1. Len(r) = Len(p) + 1 /\ r[Len(p) + 1] = c + 1 /\ \A i \in 1 .. Len(p) : r[i] = p[i]
  BY <1>0
<1> HIDE DEF r
<1>2. Straight(s, w, Len(p))
  BY DEF Searched
<1>3. PICK m \in Nat : /\ m <= Len(p) /\ m <= Len(q) /\ (m = Len(p) \/ m = Len(q))
                       /\ \A i \in 1 .. m : q[i] = p[i]
                       /\ \A i \in 0 .. m : v[i] = w[i]
  BY <1>0, <1>2, StraightWays
<1>4. Len(q) \in Nat
  BY <1>0, WayType
<1>5. \A i \in 1 .. m : q[i] = r[i]
  <2>1. \A i \in 1 .. m : i \in 1 .. Len(p)
    BY <1>0, <1>3
  <2> QED BY <1>1, <1>3, <2>1
<1>6. m \in 0 .. Len(q) /\ m <= Len(r)
  BY <1>0, <1>1, <1>3, <1>4
<1>7. CASE m = Len(q)
  <2>1. Len(q) # Len(r)
    BY <1>0, <1>1, <1>3, <1>7
  <2> QED BY <1>5, <1>6, <1>7, <2>1 DEF Sooner, Precedes, r
<1>8. CASE m # Len(q)
  <2>1. m = Len(p) /\ m+1 \in 1 .. Len(q) /\ (m+1)-1 = m /\ m \in 0 .. m
    BY <1>3, <1>4, <1>8
  <2>2. q[m+1] \in DOMAIN s[v[m]].parents
    BY <2>1 DEF Way
  <2>3. v[m] = w[Len(p)]
    BY <1>3, <2>1
  <2>4. q[m+1] \in 1 .. c
    BY <1>0, <2>2, <2>3
  <2>5. q[m+1] < r[m+1] /\ q[m+1] # r[m+1]
    BY <1>0, <1>1, <2>1, <2>4
  <2>6. m < Len(r) /\ m+1 \in 1 .. Len(r)
    BY <1>0, <1>1, <2>1
  <2> QED BY <1>5, <1>6, <2>5, <2>6 DEF Sooner, Precedes, r
<1> QED BY <1>7, <1>8

LEMMA SearchEnds ==
  ASSUME NEW s, NEW e, NEW n, NEW p, NEW w, NEW c, Searched(s, e, n, p, w, Len(p), c),
         c = Len(s[w[Len(p)]].parents)
  PROVE  Hits(s, e, n) = {} /\ Forked(s, e) = Ahead(s, e, Append(p, c + 1))
<1>1. ASSUME NEW q \in Hits(s, e, n) PROVE FALSE
  <2>1. \E v : Way(s, e, q, v)
    BY DEF Hits
  <2>2. Sooner(q, Append(p, c + 1))
    BY <2>1, AllSearched
  <2> QED BY <2>2 DEF Searched
<1>2. ASSUME NEW q \in Forked(s, e) PROVE Sooner(q, Append(p, c + 1))
  <2>1. \E v : Way(s, e, q, v)
    BY DEF Forked
  <2> QED BY <2>1, AllSearched
<1> QED BY <1>1, <1>2 DEF Ahead

(* The activation around the one that has no parent left goes on. *)
LEMMA SearchBack ==
  ASSUME NEW s, NEW e, NEW n, NEW p, NEW w, NEW b, NEW c, Searched(s, e, n, p, w, b, c),
         c = Len(s[w[Len(p)]].parents), b # Len(p), NEW st, Stacked(st, s, p, w, b, c)
  PROVE  \E q, v, d : /\ Searched(s, e, n, q, v, b, d)
                      /\ Stacked(SubSeq(st, 1, Len(st) - 1), s, q, v, b, d)
                      /\ Ahead(s, e, Append(q, d + 1)) = Ahead(s, e, Append(p, c + 1))
<1> DEFINE m == Len(p) - 1
           q == SubSeq(p, 1, m)
           v == [i \in 0 .. m |-> w[i]]
           d == p[m+1]
<1>0. /\ Ordered(s) /\ Way(s, e, p, w) /\ p \in Seq(Pos) /\ Len(p) \in Nat /\ c \in Nat
      /\ b \in 0 .. Len(p) /\ b \in Nat
  BY SearchType
<1>1. m \in Nat /\ Len(p) = m + 1 /\ m \in 0 .. Len(p) /\ b \in 0 .. m /\ p # << >>
  BY <1>0
<1> HIDE DEF m
<1>2. Way(s, e, q, v) /\ Len(q) = m /\ q \in Seq(Turn) /\ \A i \in 1 .. m : q[i] = p[i]
  BY <1>0, <1>1, WayBack
<1>3. \A i \in 0 .. m : v[i] = w[i]
  OBVIOUS
<1>4. d \in DOMAIN s[w[m]].parents /\ m + 1 \in 1 .. Len(p) /\ (m+1)-1 = m
  <2>1. m + 1 \in 1 .. Len(p) /\ (m+1)-1 = m
    BY <1>1
  <2> QED BY <1>0, <2>1 DEF Way
<1>5. d \in 0 .. Len(s[v[Len(q)]].parents)
  <2>1. s[w[m]].parents \in Seq(1 .. w[m] - 1)
    BY <1>0, <1>1, WayType
  <2>2. d \in 1 .. Len(s[w[m]].parents)
    BY <1>4, <2>1
  <2>3. v[Len(q)] = w[m]
    BY <1>1, <1>2, <1>3
  <2>4. \A i \in Nat : \A j \in 1 .. i : j \in 0 .. i
    OBVIOUS
  <2>5. Len(s[w[m]].parents) \in Nat
    BY <2>1
  <2> HIDE DEF v, d
  <2> QED BY <2>2, <2>3, <2>4, <2>5
<1> HIDE DEF v
<1>6. ASSUME NEW h, NEW u, Way(s, e, h, u)
      PROVE  Sooner(h, Append(p, c + 1)) <=> Sooner(h, Append(q, d + 1))
  <2>1. h \in Seq(Pos) /\ Len(h) \in Nat
    BY <1>0, <1>6, WayType
  <2>2. ASSUME Len(h) > Len(p), \A i \in 1 .. Len(p) : h[i] = p[i] PROVE h[Len(p) + 1] <= c
    <3>1. u[Len(p)] = w[Len(p)]
      <4>1. Len(p) \in 0 .. Len(p) /\ Len(p) <= Len(p) /\ Len(p) <= Len(h)
        BY <1>0, <2>1, <2>2
      <4>2. \A i \in 0 .. Len(p) : u[i] = w[i]
        BY <1>0, <1>6, <2>2, <4>1, WaysAgree
      <4> QED BY <4>1, <4>2
    <3>2. Len(p) + 1 \in 1 .. Len(h) /\ (Len(p)+1)-1 = Len(p)
      BY <1>0, <2>1, <2>2
    <3>3. h[Len(p) + 1] \in DOMAIN s[u[Len(p)]].parents
      BY <1>6, <3>2 DEF Way
    <3>4. s[w[Len(p)]].parents \in Seq(1 .. w[Len(p)] - 1)
      BY SearchType
    <3>5. h[Len(p) + 1] \in 1 .. c
      BY <3>1, <3>3, <3>4
    <3> QED BY <1>0, <3>5
  <2>3. Sooner(h, Append(p, c + 1))
          <=> Sooner(h, Append(SubSeq(p, 1, Len(p) - 1), p[Len(p)] + 1))
    BY <1>0, <1>1, <2>1, <2>2, SoonerBack
  <2>4. Len(p) - 1 = m
    BY <1>1
  <2> QED BY <1>1, <2>3, <2>4
<1>7. Ahead(s, e, Append(q, d + 1)) = Ahead(s, e, Append(p, c + 1))
  <2>1. ASSUME NEW h \in Forked(s, e)
        PROVE  Sooner(h, Append(p, c + 1)) <=> Sooner(h, Append(q, d + 1))
    <3>1. \E u : Way(s, e, h, u)
      BY DEF Forked
    <3> QED BY <1>6, <3>1
  <2> QED BY <2>1 DEF Ahead
<1>8. ASSUME NEW h \in Hits(s, e, n) PROVE ~Sooner(h, Append(q, d + 1))
  <2>1. \E u : Way(s, e, h, u)
    BY DEF Hits
  <2>2. ~Sooner(h, Append(p, c + 1))
    BY DEF Searched
  <2> QED BY <1>6, <2>1, <2>2
<1>9. Straight(s, v, b) /\ Len(s[v[b]].parents) > 1
  <2>1. \A k \in 0 .. b - 1 : k \in 0 .. m
    BY <1>0, <1>1
  <2>2. Straight(s, w, b) /\ Len(s[w[b]].parents) > 1
    BY DEF Searched
  <2>3. v[b] = w[b]
    BY <1>1, <1>3
  <2>4. Straight(s, v, b)
    BY <1>3, <2>1, <2>2 DEF Straight
  <2> QED BY <2>2, <2>3, <2>4
<1>10. Searched(s, e, n, q, v, b, d)
  BY <1>0, <1>1, <1>2, <1>5, <1>8, <1>9 DEF Searched
<1>11. Stacked(SubSeq(st, 1, Len(st) - 1), s, q, v, b, d)
  <2> DEFINE rt == SubSeq(st, 1, Len(st) - 1)
  <2>1. st \in Seq(Activations) /\ Len(st) = Len(p) - b + 1
    BY DEF Stacked
  <2>2. Len(st) - 1 = m - b + 1 /\ m - b + 1 \in Nat
    BY <1>0, <1>1, <2>1
  <2>3. rt \in Seq(Activations) /\ Len(rt) = Len(q) - b + 1
        /\ \A i \in 1 .. m - b + 1 : rt[i] = st[i]
    BY <1>2, <2>1, <2>2
  <2> HIDE DEF rt
  <2>4. ASSUME NEW k \in b .. Len(q)
        PROVE  Going(rt[k-b+1], s, v[k], IF k = Len(q) THEN d ELSE q[k+1])
    <3>1. k \in b .. Len(p) /\ k # Len(p) /\ k-b+1 \in 1 .. m-b+1 /\ k \in 0 .. m
      BY <1>0, <1>1, <1>2
    <3>2. Going(st[k-b+1], s, w[k], p[k+1])
      BY <3>1 DEF Stacked
    <3>3. rt[k-b+1] = st[k-b+1] /\ v[k] = w[k]
      BY <1>3, <2>3, <3>1
    <3>4. p[k+1] = IF k = Len(q) THEN d ELSE q[k+1]
      <4>1. CASE k = Len(q)
        BY <1>2, <4>1
      <4>2. CASE k # Len(q)
        <5>1. k + 1 \in 1 .. m
          BY <1>1, <1>2, <3>1, <4>2
        <5> QED BY <1>2, <4>2, <5>1
      <4> QED BY <4>1, <4>2
    <3> QED BY <3>2, <3>3, <3>4
  <2> QED BY <2>3, <2>4 DEF Stacked, rt
<1> QED BY <1>7, <1>10, <1>11

(* The next parent: the way to it is the next one in order. *)
LEMMA NextWay ==
  ASSUME NEW s, NEW e, NEW n, NEW p, NEW w, NEW b, NEW c, Searched(s, e, n, p, w, b, c),
         c # Len(s[w[Len(p)]].parents)
  PROVE  \E v : /\ Way(s, e, Append(p, c + 1), v)
                /\ v[Len(p) + 1] = s[w[Len(p)]].parents[c + 1]
                /\ v[Len(p) + 1] < w[Len(p)]
                /\ \A k \in 0 .. Len(p) : v[k] = w[k]
                /\ Append(p, c + 1) \in Forked(s, e)
                /\ Len(Append(p, c + 1)) = Len(p) + 1
                /\ Straight(s, v, b) /\ Len(s[v[b]].parents) > 1
<1> DEFINE q == Append(p, c + 1)
<1>0. /\ Ordered(s) /\ Way(s, e, p, w) /\ p \in Seq(Turn) /\ Len(p) \in Nat /\ c \in Nat
      /\ b \in 0 .. Len(p) /\ b \in Nat
  BY SearchType
<1>1. c + 1 \in 1 .. Len(s[w[Len(p)]].parents)
  <2>1. c \in Nat /\ c <= Len(s[w[Len(p)]].parents) /\ Len(s[w[Len(p)]].parents) \in Nat
    BY SearchType
  <2> QED BY <2>1
<1>2. PICK v : /\ Way(s, e, q, v)
               /\ v[Len(p) + 1] = s[w[Len(p)]].parents[c + 1]
               /\ v[Len(p) + 1] < w[Len(p)]
               /\ \A k \in 0 .. Len(p) : v[k] = w[k]
  BY <1>0, <1>1, WayOn
<1>3. Len(q) = Len(p) + 1
  BY <1>0
<1>4. Straight(s, v, b) /\ Len(s[v[b]].parents) > 1
  <2>1. \A k \in 0 .. b - 1 : k \in 0 .. Len(p)
    BY <1>0
  <2>2. Straight(s, w, b) /\ Len(s[w[b]].parents) > 1
    BY DEF Searched
  <2>3. v[b] = w[b]
    BY <1>0, <1>2
  <2>4. Straight(s, v, b)
    BY <1>2, <2>1, <2>2 DEF Straight
  <2> QED BY <2>2, <2>3, <2>4
<1>5. q \in Forked(s, e)
  <2>1. b \in 0 .. Len(q) - 1 /\ q \in Seq(Turn)
    <3>1. q \in Seq(Turn)
      BY <1>0, <1>2, WayType
    <3>2. \A i \in Nat : (i + 1) - 1 = i
      OBVIOUS
    <3> QED BY <1>0, <1>3, <3>1, <3>2
  <2> QED BY <1>2, <1>4, <2>1 DEF Forked
<1> QED BY <1>2, <1>3, <1>4, <1>5

LEMMA SearchFinds ==
  ASSUME NEW s, NEW e, NEW n, NEW p, NEW w, NEW b, NEW c, Searched(s, e, n, p, w, b, c),
         c # Len(s[w[Len(p)]].parents), n \in DOMAIN s[s[w[Len(p)]].parents[c + 1]].frame
  PROVE  \E v : /\ Way(s, e, Append(p, c + 1), v)
                /\ v[Len(Append(p, c + 1))] = s[w[Len(p)]].parents[c + 1]
                /\ Append(p, c + 1) \in Hits(s, e, n)
                /\ \A h \in Hits(s, e, n) : Precedes(Append(p, c + 1), h)
<1> DEFINE q == Append(p, c + 1)
<1>1. PICK v : /\ Way(s, e, q, v) /\ Len(q) = Len(p) + 1
               /\ v[Len(p) + 1] = s[w[Len(p)]].parents[c + 1]
  BY NextWay
<1>2. q \in Seq(Turn) /\ q \in Seq(Pos) /\ Ordered(s)
  BY <1>1, SearchType, WayType
<1>3. q \in Hits(s, e, n)
  BY <1>1, <1>2 DEF Hits
<1>4. ASSUME NEW h \in Hits(s, e, n) PROVE Precedes(q, h)
  <2>1. h \in Seq(Pos)
    BY <1>2, WayType DEF Hits
  <2>2. ~Sooner(h, q)
    BY DEF Searched
  <2> QED BY <1>2, <2>1, <2>2, SoonerOrders
<1> QED BY <1>1, <1>3, <1>4

(* The activation with its next parent taken, and one for that parent. *)
LEMMA SearchOn ==
  ASSUME NEW s, NEW e, NEW n, NEW p, NEW w, NEW b, NEW c, Searched(s, e, n, p, w, b, c),
         c # Len(s[w[Len(p)]].parents), n \notin DOMAIN s[s[w[Len(p)]].parents[c + 1]].frame
  PROVE  /\ \E v : /\ Searched(s, e, n, Append(p, c + 1), v, b, 0)
                   /\ v[Len(p) + 1] = s[w[Len(p)]].parents[c + 1]
                   /\ \A k \in 0 .. Len(p) : v[k] = w[k]
         /\ Append(p, c + 1) \notin Hits(s, e, n)
         /\ Append(p, c + 1) \in Forked(s, e)
         /\ Append(p, c + 1) \notin Ahead(s, e, Append(p, c + 1))
         /\ Ahead(s, e, Append(Append(p, c + 1), 0 + 1))
              = Ahead(s, e, Append(p, c + 1)) \cup {Append(p, c + 1)}
<1> DEFINE q == Append(p, c + 1)
<1>1. PICK v : /\ Way(s, e, q, v)
               /\ v[Len(p) + 1] = s[w[Len(p)]].parents[c + 1]
               /\ \A k \in 0 .. Len(p) : v[k] = w[k]
               /\ q \in Forked(s, e)
               /\ Len(q) = Len(p) + 1
               /\ Straight(s, v, b) /\ Len(s[v[b]].parents) > 1
  BY NextWay
<1>2. /\ q \in Seq(Turn) /\ q \in Seq(Pos) /\ Ordered(s) /\ Len(p) \in Nat /\ b \in 0 .. Len(p)
      /\ b \in Nat
  BY <1>1, SearchType, WayType
<1> HIDE DEF q
<1>3. q \notin Hits(s, e, n)
  <2> SUFFICES ASSUME q \in Hits(s, e, n) PROVE FALSE
    OBVIOUS
  <2>1. PICK u : Way(s, e, q, u) /\ n \in DOMAIN s[u[Len(q)]].frame
    BY DEF Hits
  <2>2. Len(q) \in 0 .. Len(q)
    BY <1>1, <1>2
  <2>3. u[Len(q)] = v[Len(q)]
    BY <1>1, <2>1, <2>2, OneWay
  <2> QED BY <1>1, <2>1, <2>3
<1>4. \A h \in Seq(Pos) : Sooner(h, Append(q, 0 + 1)) <=> Sooner(h, q) \/ h = q
  <2>1. Append(q, 0 + 1) = Append(q, 1)
    OBVIOUS
  <2> QED BY <1>2, <2>1, SoonerDown
<1>5. q \notin Ahead(s, e, q)
  BY DEF Ahead, Sooner
<1>6. \A h \in Forked(s, e) : h \in Seq(Pos)
  BY TurnSeq DEF Forked
<1>7. Ahead(s, e, Append(q, 0 + 1)) = Ahead(s, e, q) \cup {q}
  BY <1>1, <1>4, <1>6 DEF Ahead
<1>8. ASSUME NEW h \in Hits(s, e, n) PROVE ~Sooner(h, Append(q, 0 + 1))
  <2>1. h \in Seq(Pos)
    BY TurnSeq DEF Hits
  <2>2. ~Sooner(h, q)
    BY DEF Searched, q
  <2> QED BY <1>3, <1>4, <2>1, <2>2
<1>9. Searched(s, e, n, q, v, b, 0)
  <2>1. b \in 0 .. Len(q)
    BY <1>1, <1>2
  <2>2. 0 \in 0 .. Len(s[v[Len(q)]].parents)
    <3>1. Len(q) \in 0 .. Len(q)
      BY <1>1, <1>2
    <3>2. Len(s[v[Len(q)]].parents) \in Nat
      BY <1>1, <1>2, <3>1, WayType
    <3> QED BY <3>2
  <2> QED BY <1>1, <1>2, <1>8, <2>1, <2>2 DEF Searched
<1> QED BY <1>1, <1>3, <1>5, <1>7, <1>9 DEF q

Deeper(st, s, x) ==
  LET top == st[Len(st)]
  IN  Append(Append(SubSeq(st, 1, Len(st) - 1), Activation(Tail(top.left), top.visited)),
             Activation(s[x].parents, top.visited \cup {x}))

LEMMA StackOn ==
  ASSUME NEW s, NEW e, NEW n, NEW p, NEW w, NEW b, NEW c, Searched(s, e, n, p, w, b, c),
         NEW st, Stacked(st, s, p, w, b, c), NEW v, NEW x \in Nat,
         c # Len(s[w[Len(p)]].parents),
         Way(s, e, Append(p, c + 1), v), x = v[Len(p) + 1], x < w[Len(p)],
         \A k \in 0 .. Len(p) : v[k] = w[k]
  PROVE  Stacked(Deeper(st, s, x), s, Append(p, c + 1), v, b, 0)
<1> DEFINE top == st[Len(st)]
           q == Append(p, c + 1)
           old == Activation(Tail(top.left), top.visited)
           new == Activation(s[x].parents, top.visited \cup {x})
           rt == SubSeq(st, 1, Len(st) - 1)
           up == Append(Append(rt, old), new)
           m == Len(p) - b
<1>0. /\ Ordered(s) /\ Way(s, e, p, w) /\ p \in Seq(Turn) /\ Len(p) \in Nat /\ c \in Nat
      /\ b \in 0 .. Len(p) /\ b \in Nat /\ w[Len(p)] \in Nat
      /\ c <= Len(s[w[Len(p)]].parents) /\ Len(s[w[Len(p)]].parents) \in Nat
  BY SearchType
<1>1. /\ st \in Seq(Activations) /\ top \in Activations /\ Len(st) = Len(p) - b + 1
      /\ Going(top, s, w[Len(p)], c)
  BY <1>0, TopIs
<1> HIDE DEF top
<1>2. m \in Nat /\ Len(st) = m + 1 /\ Len(p) = b + m
  BY <1>0, <1>1
<1> HIDE DEF m
<1>3. q \in Seq(Turn) /\ Len(q) = Len(p) + 1 /\ q[Len(p) + 1] = c + 1
      /\ \A i \in 1 .. Len(p) : q[i] = p[i]
  <2>1. q \in Seq(Turn)
    BY <1>0, WayType
  <2> QED BY <1>0, <2>1
<1> HIDE DEF q
<1>4. x \in 1 .. Len(s) /\ s[x].parents \in Seq(Nat)
  <2>1. Len(p) + 1 \in 0 .. Len(q)
    BY <1>0, <1>3
  <2>2. x \in 1 .. Len(s) /\ s[x].parents \in Seq(1 .. x-1)
    BY <1>0, <2>1, WayType DEF q
  <2> QED BY <2>2
<1>5. new \in Activations /\ Going(new, s, x, 0)
  <2>1. top.visited \in SUBSET Nat
    BY <1>1 DEF Activations
  <2>2. new \in Activations /\ new.left = s[x].parents /\ new.visited = top.visited \cup {x}
    BY <1>4, <2>1 DEF Activations, Activation
  <2> HIDE DEF new
  <2>3. \A y \in new.visited : x <= y
    <3> SUFFICES ASSUME NEW y \in new.visited PROVE x <= y
      OBVIOUS
    <3>1. CASE y = x
      BY <3>1
    <3>2. CASE y \in top.visited
      <4>1. w[Len(p)] <= y /\ y \in Nat
        BY <1>1, <2>1, <3>2 DEF Going
      <4> QED BY <1>0, <4>1
    <3> QED BY <2>2, <3>1, <3>2
  <2>4. Len(s[x].parents) \in Nat
    BY <1>4
  <2>5. Len(new.left) = Len(s[x].parents) - 0
    BY <2>2, <2>4
  <2>6. \A k \in 1 .. Len(new.left) : new.left[k] = s[x].parents[0 + k]
    BY <2>2
  <2> QED BY <2>2, <2>3, <2>5, <2>6 DEF Going
<1>6. old \in Activations /\ Going(old, s, w[Len(p)], c + 1)
  <2>1. top.left \in Seq(Nat) /\ top.visited \in SUBSET Nat
    BY <1>1 DEF Activations
  <2>2. /\ Len(top.left) = Len(s[w[Len(p)]].parents) - c
        /\ \A k \in 1 .. Len(top.left) : top.left[k] = s[w[Len(p)]].parents[c+k]
        /\ \A y \in top.visited : w[Len(p)] <= y
    BY <1>1 DEF Going
  <2>3. top.left # << >>
    BY <1>0, <2>2
  <2>4. PICK tl : tl = Tail(top.left)
    OBVIOUS
  <2>5. tl \in Seq(Nat) /\ Len(tl) = Len(top.left) - 1 /\ \A k \in 1 .. Len(tl) : tl[k] = top.left[k+1]
    BY <2>1, <2>3, <2>4
  <2>6. old \in Activations /\ old.left = tl /\ old.visited = top.visited
    BY <2>1, <2>4, <2>5 DEF Activations, Activation
  <2>7. Len(old.left) = Len(s[w[Len(p)]].parents) - (c + 1)
    <3>1. \A i, j, k \in Nat : i = j - k => i - 1 = j - (k + 1)
      OBVIOUS
    <3>2. Len(top.left) \in Nat
      BY <2>1
    <3>3. Len(top.left) - 1 = Len(s[w[Len(p)]].parents) - (c + 1)
      BY <1>0, <2>2, <3>1, <3>2, SMTT(30)
    <3> QED BY <2>5, <2>6, <3>3
  <2>8. ASSUME NEW k \in 1 .. Len(old.left) PROVE old.left[k] = s[w[Len(p)]].parents[(c+1)+k]
    <3>1. Len(top.left) \in Nat /\ k \in 1 .. Len(tl)
      BY <2>1, <2>6, <2>8
    <3>2. k + 1 \in 1 .. Len(top.left) /\ c + (k + 1) = (c+1) + k
      <4>1. \A i \in Nat : \A j \in 1 .. i - 1 : j + 1 \in 1 .. i
        OBVIOUS
      <4>2. \A i, j \in Nat : i + (j + 1) = (i+1) + j
        OBVIOUS
      <4>3. k \in 1 .. Len(top.left) - 1
        BY <2>5, <3>1
      <4>4. k \in Nat
        BY <3>1, <4>3
      <4> QED BY <1>0, <3>1, <4>1, <4>2, <4>3, <4>4
    <3> QED BY <2>2, <2>5, <2>6, <3>1, <3>2
  <2> QED BY <2>2, <2>6, <2>7, <2>8 DEF Going
<1> HIDE DEF old, new
<1>7. rt \in Seq(Activations) /\ Len(rt) = m /\ \A i \in 1 .. m : rt[i] = st[i]
  BY <1>1, <1>2
<1> HIDE DEF rt
<1>8. /\ up \in Seq(Activations) /\ Len(up) = m + 2 /\ up[m+1] = old /\ up[m+2] = new
      /\ \A i \in 1 .. m : up[i] = st[i]
  BY <1>2, <1>5, <1>6, <1>7
<1> HIDE DEF up
<1>9. ASSUME NEW k \in b .. Len(q)
      PROVE  Going(up[k-b+1], s, v[k], IF k = Len(q) THEN 0 ELSE q[k+1])
  <2>1. k \in Nat /\ k \in b .. Len(p) + 1
    BY <1>0, <1>3
  <2>2. CASE k = Len(q)
    <3>1. k - b + 1 = m + 2 /\ v[k] = x
      BY <1>0, <1>2, <1>3, <2>2
    <3> QED BY <1>5, <1>8, <2>2, <3>1
  <2>3. CASE k = Len(p)
    <3>1. k - b + 1 = m + 1 /\ k \in 0 .. Len(p) /\ k # Len(q)
      BY <1>0, <1>2, <1>3, <2>3
    <3>2. v[k] = w[Len(p)] /\ q[k+1] = c + 1
      BY <1>3, <2>3, <3>1
    <3> QED BY <1>6, <1>8, <3>1, <3>2
  <2>4. CASE k # Len(p) /\ k # Len(q)
    <3>1. k \in b .. Len(p) /\ k \in 0 .. Len(p) /\ k+1 \in 1 .. Len(p) /\ k-b+1 \in 1 .. m
      <4>1. k # b + m /\ k # (b + m) + 1 /\ k \in b .. (b + m) + 1
        BY <1>2, <1>3, <2>1, <2>4
      <4>2. k \in b .. b+m /\ k \in 0 .. b+m /\ k+1 \in 1 .. b+m /\ k-b+1 \in 1 .. m
        <5>1. b <= k /\ k <= (b + m) + 1 /\ b + m \in Nat
          BY <1>0, <1>2, <2>1, <4>1
        <5>6. \A i, l \in Nat : l <= i + 1 /\ l # i + 1 /\ l # i => l < i
          OBVIOUS
        <5>2. \A i, j, l \in Nat : i <= l /\ l < i + j => l \in i .. i + j /\ l \in 0 .. i + j
          OBVIOUS
        <5>3. \A i, j, l \in Nat : i <= l /\ l < i + j => l + 1 \in 1 .. i + j
          OBVIOUS
        <5>4. \A i, j, l \in Nat : i <= l /\ l < i + j => l - i + 1 \in 1 .. j
          OBVIOUS
        <5>5. b <= k /\ k < b + m
          BY <2>1, <4>1, <5>1, <5>6
        <5> QED BY <1>0, <1>2, <2>1, <5>2, <5>3, <5>4, <5>5
      <4> QED BY <1>2, <4>2
    <3>2. Going(st[k-b+1], s, w[k], p[k+1])
      BY <2>4, <3>1 DEF Stacked
    <3>3. up[k-b+1] = st[k-b+1] /\ v[k] = w[k] /\ q[k+1] = p[k+1]
      BY <1>3, <1>8, <3>1
    <3> QED BY <2>4, <3>2, <3>3
  <2> QED BY <2>2, <2>3, <2>4
<1>10. Len(up) = Len(q) - b + 1
  <2>1. \A y, z \in Nat : z + 2 = ((y + z) + 1) - y + 1
    OBVIOUS
  <2>2. Len(q) = (b + m) + 1
    BY <1>2, <1>3
  <2> QED BY <1>0, <1>2, <1>8, <2>1, <2>2
<1>11. Stacked(up, s, q, v, b, 0)
  BY <1>8, <1>9, <1>10 DEF Stacked
<1> QED BY <1>11 DEF up, rt, old, new, q, top, Deeper
-----------------------------------------------------------------------------
(* What a lookup has answered, or will.                                    *)
Settled(j, s, b, r) ==
  \/ /\ j.answer = "Ok"
     /\ \E p, w : /\ Way(s, j.env, p, w) /\ j.obj = s[w[Len(p)]].frame[j.name]
                  /\ p \in Hits(s, j.env, j.name)
                  /\ \A q \in Hits(s, j.env, j.name) : Precedes(p, q)
                  /\ Counts(Ahead(s, j.env, p), b - r)
  \/ /\ j.answer = "UnboundVariable"
     /\ Hits(s, j.env, j.name) = {} /\ Counts(Forked(s, j.env), b - r)
  \/ /\ j.answer = "OutOfMemory" /\ r = 0
     /\ \E p \in Forked(s, j.env) :
          /\ \A q \in Hits(s, j.env, j.name) : Sooner(p, q)
          /\ Counts(Ahead(s, j.env, p), b)

Looking(j, s, b, r) ==
  j.op = "lookup" =>
    /\ j.env \in 1 .. Len(s) /\ b \in Nat /\ r \in Nat
    /\ j.at \in {"idle", "chain", "dfs"}
    /\ j.at \in {"chain", "dfs"} => j.answer = "Ok"
    /\ j.at = "chain" => b = r /\ \E p, w : Climbs(s, j.env, j.name, p, w) /\ j.cur = w[Len(p)]
    /\ j.at = "dfs" => \E p, w, f, c : /\ Searched(s, j.env, j.name, p, w, f, c)
                                       /\ Stacked(j.stack, s, p, w, f, c)
                                       /\ Counts(Ahead(s, j.env, Append(p, c + 1)), b - r)
    /\ j.at = "idle" => Settled(j, s, b, r)

Narrow(s) == \A e \in 1 .. Len(s) : Len(s[e].parents) <= 2

LookInv ==
  /\ MatchInv /\ Narrow(envs)
  /\ Looking(job, envs, before.room, room)

LEMMA OrderedNow == TypeInv /\ Narrow(envs) => Ordered(envs)
<1> SUFFICES ASSUME TypeInv, Narrow(envs) PROVE Ordered(envs)
  OBVIOUS
<1>1. envs \in Seq(Environment) /\ \A e \in DOMAIN envs : envs[e].parents \in Seq(1 .. e-1)
  BY DEF TypeInv, SealInv, EnvsOK, Memory
<1> QED BY <1>1 DEF Ordered, Narrow

LEMMA JobFields ==
  ASSUME TypeInv
  PROVE  /\ JobShape(job)
         /\ \A o, a : LET j == [job EXCEPT !.at = "idle", !.obj = o, !.stack = a]
                      IN  j.at = "idle" /\ j.obj = o /\ j.op = job.op /\ j.env = job.env
                          /\ j.name = job.name /\ j.answer = job.answer
         /\ \A a : LET j == [job EXCEPT !.at = "dfs", !.stack = a]
                   IN  j.at = "dfs" /\ j.stack = a /\ j.op = job.op /\ j.env = job.env
                       /\ j.name = job.name /\ j.answer = job.answer
         /\ \A e : LET j == [job EXCEPT !.cur = e]
                   IN  j.at = job.at /\ j.cur = e /\ j.op = job.op /\ j.env = job.env
                       /\ j.name = job.name /\ j.answer = job.answer
         /\ \A x : LET j == [job EXCEPT !.at = "idle", !.answer = x, !.todo = << >>,
                                         !.seen = {}, !.stack = << >>]
                   IN  j.at = "idle" /\ j.answer = x /\ j.op = job.op /\ j.env = job.env
                       /\ j.name = job.name
<1>1. JobShape(job)
  BY DEF TypeInv, SealInv, JobOK
<1>2. \A o, a : LET j == [job EXCEPT !.at = "idle", !.obj = o, !.stack = a]
                IN  j.at = "idle" /\ j.obj = o /\ j.op = job.op /\ j.env = job.env
                    /\ j.name = job.name /\ j.answer = job.answer
  BY <1>1 DEF JobShape
<1>3. \A a : LET j == [job EXCEPT !.at = "dfs", !.stack = a]
             IN  j.at = "dfs" /\ j.stack = a /\ j.op = job.op /\ j.env = job.env
                 /\ j.name = job.name /\ j.answer = job.answer
  BY <1>1 DEF JobShape
<1>4. \A e : LET j == [job EXCEPT !.cur = e]
             IN  j.at = job.at /\ j.cur = e /\ j.op = job.op /\ j.env = job.env
                 /\ j.name = job.name /\ j.answer = job.answer
  BY <1>1 DEF JobShape
<1>5. \A x : LET j == [job EXCEPT !.at = "idle", !.answer = x, !.todo = << >>,
                                   !.seen = {}, !.stack = << >>]
             IN  j.at = "idle" /\ j.answer = x /\ j.op = job.op /\ j.env = job.env
                 /\ j.name = job.name
  BY <1>1 DEF JobShape
<1> QED BY <1>1, <1>2, <1>3, <1>4, <1>5

LEMMA ChainLooks ==
  ASSUME LookInv, Chain
  PROVE  Looking(job', envs', before'.room, room')
<1>0. /\ TypeInv /\ Ordered(envs) /\ job.at = "chain" /\ job.op = "lookup"
      /\ job.env \in 1 .. Len(envs) /\ before.room \in Nat /\ room \in Nat /\ job.answer = "Ok"
      /\ before.room = room /\ UNCHANGED <<envs, room, before>>
  BY OrderedNow DEF LookInv, MatchInv, BindInv, Looking, Chain
<1>1. PICK p, w : Climbs(envs, job.env, job.name, p, w) /\ job.cur = w[Len(p)]
  BY <1>0 DEF LookInv, Looking
<1> DEFINE x == w[Len(p)]
<1>2. /\ Way(envs, job.env, p, w) /\ Len(envs[x].parents) \in Nat
      /\ envs[x].parents \in Seq(1 .. x - 1)
  <2>1. Way(envs, job.env, p, w)
    BY <1>1 DEF Climbs
  <2>2. Len(p) \in 0 .. Len(p)
    BY <1>0, <2>1, WayType
  <2> QED BY <1>0, <2>1, <2>2, WayType
<1>3. room - room = 0
  BY <1>0
<1>4. CASE job.name \in DOMAIN envs[x].frame /\ Found(x)
  <2>1. job' = [job EXCEPT !.at = "idle", !.obj = envs[x].frame[job.name], !.stack = << >>]
    BY <1>4 DEF Found
  <2>2. job'.at = "idle" /\ job'.obj = envs[x].frame[job.name] /\ job'.op = "lookup"
        /\ job'.env = job.env /\ job'.name = job.name /\ job'.answer = "Ok"
    BY <1>0, <2>1, JobFields
  <2>3. /\ p \in Hits(envs, job.env, job.name)
        /\ \A q \in Hits(envs, job.env, job.name) : Precedes(p, q)
        /\ Counts(Ahead(envs, job.env, p), 0)
    BY <1>1, <1>4, ClimbFinds
  <2>4. Settled(job', envs, room, room)
    BY <1>2, <1>3, <2>2, <2>3 DEF Settled
  <2> QED BY <1>0, <2>2, <2>4 DEF Looking
<1>5. CASE job.name \notin DOMAIN envs[x].frame /\ envs[x].parents = << >> /\ Finish("UnboundVariable")
  <2>1. job'.at = "idle" /\ job'.op = "lookup"
        /\ job'.env = job.env /\ job'.name = job.name /\ job'.answer = "UnboundVariable"
    BY <1>0, <1>5, JobFields DEF Finish
  <2>2. Hits(envs, job.env, job.name) = {} /\ Counts(Forked(envs, job.env), 0)
    BY <1>1, <1>5, ClimbEnds
  <2>3. Settled(job', envs, room, room)
    BY <1>3, <2>1, <2>2 DEF Settled
  <2> QED BY <1>0, <2>1, <2>3 DEF Looking
<1>6. CASE /\ job.name \notin DOMAIN envs[x].frame /\ Len(envs[x].parents) = 1
           /\ job' = [job EXCEPT !.cur = envs[x].parents[1]]
  <2>1. job'.at = "chain" /\ job'.op = "lookup" /\ job'.cur = envs[x].parents[1]
        /\ job'.env = job.env /\ job'.name = job.name /\ job'.answer = "Ok"
    BY <1>0, <1>6, JobFields
  <2>2. \E q, v : Climbs(envs, job.env, job.name, q, v) /\ v[Len(q)] = envs[x].parents[1]
    BY <1>1, <1>6, ClimbOn
  <2> QED BY <1>0, <2>1, <2>2 DEF Looking
<1>7. CASE /\ job.name \notin DOMAIN envs[x].frame /\ Len(envs[x].parents) > 1
           /\ Search(<<Activation(envs[x].parents, {})>>)
  <2>1. job'.at = "dfs" /\ job'.op = "lookup" /\ job'.stack = <<Activation(envs[x].parents, {})>>
        /\ job'.env = job.env /\ job'.name = job.name /\ job'.answer = "Ok"
    BY <1>0, <1>7, JobFields DEF Search
  <2>2. /\ Searched(envs, job.env, job.name, p, w, Len(p), 0)
        /\ Stacked(<<Activation(envs[x].parents, {})>>, envs, p, w, Len(p), 0)
        /\ Counts(Ahead(envs, job.env, Append(p, 0 + 1)), 0)
    BY <1>1, <1>7, ClimbForks
  <2> QED BY <1>0, <1>3, <2>1, <2>2 DEF Looking
<1> QED BY <1>1, <1>4, <1>5, <1>6, <1>7 DEF Chain, Bound

(* What holds when a step of the search is taken. *)
LEMMA SearchNow ==
  ASSUME LookInv, job.at = "dfs"
  PROVE  \E p, w, f, c :
           /\ Searched(envs, job.env, job.name, p, w, f, c)
           /\ Stacked(job.stack, envs, p, w, f, c)
           /\ Counts(Ahead(envs, job.env, Append(p, c + 1)), before.room - room)
           /\ Len(job.stack) \in Nat \ {0} /\ Len(job.stack) = Len(p) - f + 1
           /\ job.stack \in Seq(Activations) /\ job.stack[Len(job.stack)] \in Activations
           /\ Going(job.stack[Len(job.stack)], envs, w[Len(p)], c)
           /\ c = Len(envs[w[Len(p)]].parents) <=> job.stack[Len(job.stack)].left = << >>
<1>1. PICK p, w, f, c : /\ Searched(envs, job.env, job.name, p, w, f, c)
                        /\ Stacked(job.stack, envs, p, w, f, c)
                        /\ Counts(Ahead(envs, job.env, Append(p, c + 1)), before.room - room)
  BY DEF LookInv, MatchInv, BindInv, Looking
<1>2. f \in 0 .. Len(p) /\ Len(p) \in Nat /\ c \in Nat /\ Len(envs[w[Len(p)]].parents) \in Nat
  BY <1>1, SearchType
<1>3. /\ Len(job.stack) \in Nat \ {0} /\ Len(job.stack) = Len(p) - f + 1
      /\ job.stack \in Seq(Activations) /\ job.stack[Len(job.stack)] \in Activations
      /\ Going(job.stack[Len(job.stack)], envs, w[Len(p)], c)
  BY <1>1, <1>2, TopIs
<1>4. c = Len(envs[w[Len(p)]].parents) <=> job.stack[Len(job.stack)].left = << >>
  <2>1. PICK l : l = job.stack[Len(job.stack)].left
    OBVIOUS
  <2>2. l \in Seq(Nat) /\ Len(l) = Len(envs[w[Len(p)]].parents) - c
    BY <1>3, <2>1 DEF Activations, Going
  <2>3. l = << >> <=> Len(l) = 0
    BY <2>2
  <2> QED BY <1>2, <2>1, <2>2, <2>3
<1> QED BY <1>1, <1>3, <1>4

LEMMA ReturnLooks ==
  ASSUME LookInv, Return
  PROVE  Looking(job', envs', before'.room, room')
<1>0. /\ TypeInv /\ Ordered(envs) /\ job.at = "dfs" /\ job.op = "lookup"
      /\ job.env \in 1 .. Len(envs) /\ before.room \in Nat /\ room \in Nat /\ job.answer = "Ok"
      /\ UNCHANGED <<envs, room, before>>
  BY OrderedNow DEF LookInv, MatchInv, BindInv, Looking, Return
<1>1. PICK p, w, f, c :
        /\ Searched(envs, job.env, job.name, p, w, f, c)
        /\ Stacked(job.stack, envs, p, w, f, c)
        /\ Counts(Ahead(envs, job.env, Append(p, c + 1)), before.room - room)
        /\ Len(job.stack) \in Nat \ {0} /\ Len(job.stack) = Len(p) - f + 1
        /\ c = Len(envs[w[Len(p)]].parents) <=> job.stack[Len(job.stack)].left = << >>
  BY <1>0, SearchNow
<1>2. c = Len(envs[w[Len(p)]].parents)
  BY <1>1 DEF Return
<1>3. f \in 0 .. Len(p) /\ Len(p) \in Nat
  BY <1>1, SearchType
<1>4. CASE Len(job.stack) = 1 /\ Finish("UnboundVariable")
  <2>1. job'.at = "idle" /\ job'.op = "lookup"
        /\ job'.env = job.env /\ job'.name = job.name /\ job'.answer = "UnboundVariable"
    BY <1>0, <1>4, JobFields DEF Finish
  <2>2. f = Len(p)
    BY <1>1, <1>3, <1>4
  <2>3. /\ Hits(envs, job.env, job.name) = {}
        /\ Forked(envs, job.env) = Ahead(envs, job.env, Append(p, c + 1))
    BY <1>1, <1>2, <2>2, SearchEnds
  <2>4. Settled(job', envs, before.room, room)
    BY <1>1, <2>1, <2>3 DEF Settled
  <2> QED BY <1>0, <2>1, <2>4 DEF Looking
<1>5. CASE Len(job.stack) # 1 /\ Search(SubSeq(job.stack, 1, Len(job.stack) - 1))
  <2>1. job'.at = "dfs" /\ job'.op = "lookup"
        /\ job'.stack = SubSeq(job.stack, 1, Len(job.stack) - 1)
        /\ job'.env = job.env /\ job'.name = job.name /\ job'.answer = "Ok"
    BY <1>0, <1>5, JobFields DEF Search
  <2>2. f # Len(p)
    BY <1>1, <1>3, <1>5
  <2>3. PICK q, v, d :
          /\ Searched(envs, job.env, job.name, q, v, f, d)
          /\ Stacked(SubSeq(job.stack, 1, Len(job.stack) - 1), envs, q, v, f, d)
          /\ Ahead(envs, job.env, Append(q, d + 1)) = Ahead(envs, job.env, Append(p, c + 1))
    <3>1. PICK st : st = job.stack
      OBVIOUS
    <3>2. Searched(envs, job.env, job.name, p, w, f, c) /\ Stacked(st, envs, p, w, f, c)
      BY <1>1, <3>1
    <3>3. \E q, v, d :
            /\ Searched(envs, job.env, job.name, q, v, f, d)
            /\ Stacked(SubSeq(st, 1, Len(st) - 1), envs, q, v, f, d)
            /\ Ahead(envs, job.env, Append(q, d + 1)) = Ahead(envs, job.env, Append(p, c + 1))
      BY <1>2, <2>2, <3>2, SearchBack
    <3> QED BY <3>1, <3>3
  <2>4. Counts(Ahead(envs, job.env, Append(q, d + 1)), before.room - room)
    BY <1>1, <2>3
  <2> QED BY <1>0, <2>1, <2>3, <2>4 DEF Looking
<1> QED BY <1>4, <1>5 DEF Return

LEMMA DescendLooks ==
  ASSUME LookInv, Descend
  PROVE  Looking(job', envs', before'.room, room')
<1>0. /\ TypeInv /\ Ordered(envs) /\ job.at = "dfs" /\ job.op = "lookup"
      /\ job.env \in 1 .. Len(envs) /\ before.room \in Nat /\ room \in Nat /\ job.answer = "Ok"
      /\ UNCHANGED <<envs, before>>
  BY OrderedNow DEF LookInv, MatchInv, BindInv, Looking, Descend
<1>1. PICK p, w, f, c :
        /\ Searched(envs, job.env, job.name, p, w, f, c)
        /\ Stacked(job.stack, envs, p, w, f, c)
        /\ Counts(Ahead(envs, job.env, Append(p, c + 1)), before.room - room)
        /\ Len(job.stack) \in Nat \ {0}
        /\ job.stack[Len(job.stack)] \in Activations
        /\ Going(job.stack[Len(job.stack)], envs, w[Len(p)], c)
        /\ c = Len(envs[w[Len(p)]].parents) <=> job.stack[Len(job.stack)].left = << >>
  BY <1>0, SearchNow
<1> DEFINE q == Append(p, c + 1)
           top == job.stack[Len(job.stack)]
           x == envs[w[Len(p)]].parents[c + 1]
           rest == Append(SubSeq(job.stack, 1, Len(job.stack) - 1),
                          Activation(Tail(top.left), top.visited))
           more == Append(rest, Activation(envs[x].parents, top.visited \cup {x}))
<1>2. top.left # << >> /\ c # Len(envs[w[Len(p)]].parents)
  BY <1>1 DEF Descend
<1>3. PICK v : /\ Way(envs, job.env, q, v) /\ v[Len(p) + 1] = x /\ x < w[Len(p)]
               /\ \A k \in 0 .. Len(p) : v[k] = w[k]
               /\ q \in Forked(envs, job.env) /\ Len(q) = Len(p) + 1
  BY <1>1, <1>2, NextWay
<1>4. w[Len(p)] \in Nat /\ Len(p) \in Nat /\ c \in Nat /\ q \in Seq(Pos)
  BY <1>1, SearchType
<1>5. x \in 1 .. Len(envs) /\ x \in Nat
  <2>1. Len(q) = Len(p) + 1 /\ Way(envs, job.env, q, v) /\ v[Len(p) + 1] = x
    BY <1>3
  <2> HIDE DEF x, q
  <2>2. \A k \in 0 .. Len(q) : v[k] \in 1 .. Len(envs)
    BY <1>0, <2>1, WayType
  <2>3. Len(q) \in 0 .. Len(q)
    BY <1>4, <2>1
  <2>4. x \in 1 .. Len(envs)
    BY <2>1, <2>2, <2>3
  <2> QED BY <2>4
<1>6. Head(top.left) = x
  <2>1. PICK l : l = top.left
    OBVIOUS
  <2>2. l \in Seq(Nat) /\ l # << >> /\ \A k \in 1 .. Len(l) : l[k] = envs[w[Len(p)]].parents[c+k]
    BY <1>1, <1>2, <2>1 DEF Activations, Going
  <2>3. Head(l) = l[1] /\ 1 \in 1 .. Len(l)
    BY <2>2
  <2> QED BY <2>1, <2>2, <2>3
<1>7. x \notin top.visited
  <2> SUFFICES ASSUME x \in top.visited PROVE FALSE
    OBVIOUS
  <2>1. w[Len(p)] <= x
    BY <1>1 DEF Going
  <2> QED BY <1>3, <1>4, <1>5, <2>1
<1> HIDE DEF x, q
<1>8. \/ job.name \in DOMAIN envs[x].frame /\ Found(x) /\ UNCHANGED room
      \/ job.name \notin DOMAIN envs[x].frame /\ Afford(1) /\ Search(more)
      \/ job.name \notin DOMAIN envs[x].frame /\ Short(1) /\ Finish("OutOfMemory")
  BY <1>6, <1>7 DEF Descend, Bound
<1>9. CASE job.name \in DOMAIN envs[x].frame /\ Found(x) /\ UNCHANGED room
  <2>1. job'.at = "idle" /\ job'.obj = envs[x].frame[job.name] /\ job'.op = "lookup"
        /\ job'.env = job.env /\ job'.name = job.name /\ job'.answer = "Ok"
    BY <1>0, <1>9, JobFields DEF Found
  <2>2. PICK u : /\ Way(envs, job.env, q, u) /\ u[Len(q)] = x
                 /\ q \in Hits(envs, job.env, job.name)
                 /\ \A h \in Hits(envs, job.env, job.name) : Precedes(q, h)
    BY <1>1, <1>2, <1>9, SearchFinds DEF q, x
  <2>3. Counts(Ahead(envs, job.env, q), before.room - room)
    BY <1>1 DEF q
  <2>4. Settled(job', envs, before.room, room)
    BY <2>1, <2>2, <2>3 DEF Settled
  <2> QED BY <1>0, <1>9, <2>1, <2>4 DEF Looking
<1>10. ASSUME job.name \notin DOMAIN envs[x].frame
       PROVE  /\ \E u : /\ Searched(envs, job.env, job.name, q, u, f, 0)
                        /\ u[Len(p) + 1] = x /\ \A k \in 0 .. Len(p) : u[k] = w[k]
              /\ q \notin Hits(envs, job.env, job.name)
              /\ q \notin Ahead(envs, job.env, q)
              /\ Ahead(envs, job.env, Append(q, 0 + 1)) = Ahead(envs, job.env, q) \cup {q}
  BY <1>1, <1>2, <1>10, SearchOn DEF q, x
<1>11. CASE job.name \notin DOMAIN envs[x].frame /\ Afford(1) /\ Search(more)
  <2>1. job'.at = "dfs" /\ job'.op = "lookup" /\ job'.stack = more
        /\ job'.env = job.env /\ job'.name = job.name /\ job'.answer = "Ok"
    BY <1>0, <1>11, JobFields DEF Search
  <2>2. PICK u : /\ Searched(envs, job.env, job.name, q, u, f, 0)
                 /\ u[Len(p) + 1] = x /\ \A k \in 0 .. Len(p) : u[k] = w[k]
    BY <1>10, <1>11
  <2>3. Way(envs, job.env, q, u)
    BY <2>2 DEF Searched
  <2>4. Stacked(more, envs, q, u, f, 0)
    <3>1. PICK st, y : st = job.stack /\ y = x
      OBVIOUS
    <3>2. /\ Searched(envs, job.env, job.name, p, w, f, c) /\ Stacked(st, envs, p, w, f, c)
          /\ c # Len(envs[w[Len(p)]].parents) /\ Way(envs, job.env, Append(p, c + 1), u)
          /\ y \in Nat /\ y = u[Len(p) + 1] /\ y < w[Len(p)] /\ \A k \in 0 .. Len(p) : u[k] = w[k]
      BY <1>1, <1>2, <1>3, <1>5, <2>2, <2>3, <3>1 DEF q
    <3>3. Stacked(Deeper(st, envs, y), envs, Append(p, c + 1), u, f, 0)
      BY <3>2, StackOn
    <3>4. more = Deeper(st, envs, y)
      BY <3>1 DEF Deeper
    <3> QED BY <3>3, <3>4 DEF q
  <2>5. room' = room - 1 /\ room' \in Nat
    BY <1>0, <1>11 DEF Afford
  <2>6. Counts(Ahead(envs, job.env, Append(q, 0 + 1)), before.room - room')
    <3>1. Counts(Ahead(envs, job.env, q), before.room - room)
      BY <1>1 DEF q
    <3>2. IsFiniteSet(Ahead(envs, job.env, q)) /\ Cardinality(Ahead(envs, job.env, q)) = before.room - room
      BY <3>1 DEF Counts
    <3>3. /\ Ahead(envs, job.env, Append(q, 0 + 1)) = Ahead(envs, job.env, q) \cup {q}
          /\ q \notin Ahead(envs, job.env, q)
      BY <1>10, <1>11
    <3>4. /\ IsFiniteSet(Ahead(envs, job.env, q) \cup {q})
          /\ Cardinality(Ahead(envs, job.env, q) \cup {q}) = before.room - room + 1
      BY <3>2, <3>3, FS_AddElement
    <3>5. before.room - room' = before.room - room + 1
      BY <1>0, <2>5
    <3> QED BY <3>3, <3>4, <3>5 DEF Counts
  <2> QED BY <1>0, <2>1, <2>2, <2>4, <2>5, <2>6 DEF Looking
<1>12. CASE job.name \notin DOMAIN envs[x].frame /\ Short(1) /\ Finish("OutOfMemory")
  <2>1. job'.at = "idle" /\ job'.op = "lookup"
        /\ job'.env = job.env /\ job'.name = job.name /\ job'.answer = "OutOfMemory"
    BY <1>0, <1>12, JobFields DEF Finish
  <2>2. room = 0 /\ room' = 0
    BY <1>0, <1>12 DEF Short
  <2>3. ASSUME NEW h \in Hits(envs, job.env, job.name) PROVE Sooner(q, h)
    <3>1. h \in Seq(Pos)
      BY TurnSeq DEF Hits
    <3>2. ~Sooner(h, q)
      BY <1>1 DEF Searched, q
    <3>3. h # q
      BY <1>10, <1>12
    <3> QED BY <1>4, <3>1, <3>2, <3>3, SoonerOrders DEF Sooner
  <2>4. Counts(Ahead(envs, job.env, q), before.room)
    <3>1. before.room - room = before.room
      BY <1>0, <2>2
    <3> QED BY <1>1, <3>1 DEF q
  <2>5. Settled(job', envs, before.room, 0)
    BY <1>3, <2>1, <2>3, <2>4 DEF Settled
  <2> QED BY <1>0, <2>1, <2>2, <2>5 DEF Looking
<1> QED BY <1>8, <1>9, <1>11, <1>12
-----------------------------------------------------------------------------
(* No operation gives an environment more than two parents. *)
LEMMA NarrowKeeps ==
  ASSUME NEW s, Narrow(s), NEW t, Len(t) <= Len(s), Len(t) \in Nat, Len(s) \in Nat,
         \A e \in 1 .. Len(t) : t[e].parents = s[e].parents
  PROVE  Narrow(t)
<1>1. \A e \in 1 .. Len(t) : e \in 1 .. Len(s)
  OBVIOUS
<1> QED BY <1>1 DEF Narrow

LEMMA NarrowFrames ==
  ASSUME TypeInv, Narrow(envs), NEW i, NEW f, envs' = [envs EXCEPT ![i].frame = f]
  PROVE  Narrow(envs')
<1>1. envs \in Seq(Environment) /\ Len(envs) \in Nat
  BY DEF TypeInv, SealInv, EnvsOK
<1>2. \A e \in 1 .. Len(envs) : envs[e] \in Environment
  BY <1>1
<1>3. DOMAIN envs = 1 .. Len(envs)
  BY <1>1
<1> DEFINE x == [envs[i] EXCEPT !.frame = f]
<1>4. i \in 1 .. Len(envs) => x.parents = envs[i].parents
  BY <1>2 DEF Environment
<1> HIDE DEF x
<1>5. envs' = [envs EXCEPT ![i] = x]
  BY DEF x
<1>6. Len(envs') = Len(envs)
  BY <1>1, <1>5
<1>7. \A e \in 1 .. Len(envs) : envs'[e] = IF e = i THEN x ELSE envs[e]
  BY <1>3, <1>5
<1>8. \A e \in 1 .. Len(envs') : envs'[e].parents = envs[e].parents
  BY <1>4, <1>6, <1>7
<1>9. Len(envs') <= Len(envs) /\ Len(envs') \in Nat
  BY <1>1, <1>6
<1>10. PICK t : t = envs'
  OBVIOUS
<1>11. Len(t) <= Len(envs) /\ Len(t) \in Nat /\ \A e \in 1 .. Len(t) : t[e].parents = envs[e].parents
  BY <1>8, <1>9, <1>10
<1>12. Narrow(t)
  BY <1>1, <1>11, NarrowKeeps
<1> QED BY <1>10, <1>12

LEMMA NarrowGrows ==
  ASSUME TypeInv, Narrow(envs), NEW x, Len(x.parents) <= 2, envs' = Append(envs, x)
  PROVE  Narrow(envs')
<1>1. envs \in Seq(Environment) /\ Len(envs) \in Nat
  BY DEF TypeInv, SealInv, EnvsOK
<1>2. Len(envs') = Len(envs) + 1 /\ envs'[Len(envs) + 1] = x
      /\ \A e \in 1 .. Len(envs) : envs'[e] = envs[e]
  BY <1>1
<1>3. \A e \in 1 .. Len(envs') : e = Len(envs) + 1 \/ e \in 1 .. Len(envs)
  BY <1>1, <1>2
<1> QED BY <1>2, <1>3 DEF Narrow

LEMMA NarrowFails ==
  ASSUME TypeInv, Narrow(envs), NEW x, Fail(x)
  PROVE  Narrow(envs')
<1>1. envs \in Seq(Environment) /\ Len(envs) \in Nat
  BY DEF TypeInv, SealInv, EnvsOK
<1>2. CASE envs' = envs
  BY <1>2
<1>3. CASE envs' = SubSeq(envs, 1, Len(envs) - 1)
  <2>1. PICK m \in Nat : m + 1 = Len(envs)
    <3>1. Len(envs) >= 2 /\ Len(envs) \in Nat
      BY <1>1 DEF TypeInv, SealInv, EnvsOK, GLOBAL
    <3>2. Len(envs) - 1 \in Nat /\ (Len(envs) - 1) + 1 = Len(envs)
      BY <3>1
    <3> QED BY <3>2
  <2>2. PICK t : t = SubSeq(envs, 1, m)
    OBVIOUS
  <2>3. Len(t) = m /\ \A e \in 1 .. m : t[e] = envs[e]
    BY <1>1, <2>1, <2>2
  <2>4. m <= Len(envs) /\ Len(envs) - 1 = m
    BY <1>1, <2>1
  <2>5. Narrow(t)
    BY <1>1, <2>3, <2>4, NarrowKeeps
  <2> QED BY <1>3, <2>2, <2>4, <2>5
<1> QED BY <1>2, <1>3 DEF Fail

LEMMA NarrowStep ==
  ASSUME TypeInv, Narrow(envs), [EnvNext]_envVars
  PROVE  Narrow(envs')
<1>1. CASE UNCHANGED envs
  BY <1>1
<1>2. CASE \E ps \in Parents : MakeEnvironment(ps)
  <2>1. PICK ps \in Parents : MakeEnvironment(ps)
    BY <1>2
  <2>2. PICK k \in 0 .. 2 : ps \in [1 .. k -> held]
    BY DEF Parents
  <2>3. Len(ps) = k /\ k <= 2
    BY <2>2
  <2> DEFINE x == [parents |-> ps, frame |-> [n \in {} |-> Nil]]
  <2>4. Len(x.parents) <= 2
    BY <2>3
  <2>5. envs' = envs \/ envs' = Append(envs, x)
    BY <2>1 DEF MakeEnvironment
  <2> HIDE DEF x
  <2> QED BY <1>1, <2>4, <2>5, NarrowGrows
<1>3. CASE \E t \in Given, n \in Name, v \in Given : Set(t, n, v)
  <2>1. PICK t, n, v : Set(t, n, v)
    BY <1>3
  <2>2. CASE envs' = [envs EXCEPT ![t.env].frame[n] = v]
    <3>1. envs' = [envs EXCEPT ![t.env].frame = [envs[t.env].frame EXCEPT ![n] = v]]
      BY <2>2
    <3> QED BY <3>1, NarrowFrames
  <2> QED BY <1>1, <2>1, <2>2 DEF Set
<1>4. ASSUME NEW e, NEW n, NEW v, Binds(e, n, v) PROVE Narrow(envs')
  <2> DEFINE f == [m \in DOMAIN envs[e].frame \cup {n} |-> IF m = n THEN v ELSE envs[e].frame[m]]
  <2>1. envs' = [envs EXCEPT ![e].frame = f]
    BY <1>4 DEF Binds
  <2> HIDE DEF f
  <2> QED BY <2>1, NarrowFrames
<1>5. CASE Validate \/ Validated
  BY <1>1, <1>5, NarrowFails DEF Validate, Validated
<1>6. CASE Enter
  <2> DEFINE x == [parents |-> <<job.cur>>, frame |-> [n \in {} |-> Nil]]
  <2>1. Len(x.parents) <= 2
    OBVIOUS
  <2>2. envs' = envs \/ envs' = Append(envs, x)
    BY <1>6 DEF Enter
  <2> HIDE DEF x
  <2> QED BY <1>1, <2>1, <2>2, NarrowGrows
<1>7. CASE Match
  BY <1>1, <1>4, <1>7, NarrowFails DEF Match
<1>8. CASE Matched
  BY <1>1, <1>4, <1>8, NarrowFails DEF Matched
<1>9. CASE \/ \E e \in held, p \in Trees :
                \/ \E v \in Given : BeginDefine(e, p, v) \/ BeginLambda(e, p, v)
                \/ \E c \in held, n \in EnvParams, v \in Objects : BeginVau(c, e, p, n, v)
           \/ \E e \in held, n \in Name : BeginLookup(e, n)
           \/ Chain \/ Return \/ Descend \/ Collect \/ UNCHANGED envVars
  BY <1>1, <1>9 DEF BeginDefine, BeginLambda, BeginVau, BeginLookup, Chain, Return, Descend,
                    Collect, envVars
<1> QED BY <1>2, <1>3, <1>5, <1>6, <1>7, <1>8, <1>9 DEF EnvNext

(* A lookup begins where it is asked for, nothing searched. *)
LEMMA BeginLooks ==
  ASSUME LookInv, NEW e \in held, NEW n \in Name, BeginLookup(e, n)
  PROVE  Looking(job', envs', before'.room, room')
<1>1. /\ TypeInv /\ Ordered(envs) /\ e \in 1 .. Len(envs) /\ room \in Nat
      /\ UNCHANGED <<envs, room>> /\ before'.room = room
  <2>1. TypeInv /\ Ordered(envs)
    BY OrderedNow DEF LookInv, MatchInv
  <2>2. e \in 1 .. Len(envs) /\ room \in Nat
    BY <2>1 DEF TypeInv, Memory, Ordered
  <2> QED BY <2>1, <2>2 DEF BeginLookup, Begin
<1>2. /\ job'.at = "chain" /\ job'.op = "lookup" /\ job'.env = e /\ job'.name = n /\ job'.cur = e
      /\ job'.answer = "Ok"
  BY DEF BeginLookup, Begin, NoJob
<1> DEFINE w == [k \in 0 .. 0 |-> e]
<1>3. Climbs(envs, e, n, << >>, w)
  <2>1. << >> \in Seq(Turn) /\ Len(<< >>) = 0
    OBVIOUS
  <2>2. w \in [0 .. 0 -> 1 .. Len(envs)] /\ w[0] = e
    BY <1>1
  <2> HIDE DEF w
  <2>3. Way(envs, e, << >>, w)
    BY <2>1, <2>2 DEF Way
  <2> QED BY <1>1, <2>1, <2>3 DEF Climbs, Straight
<1>4. w[Len(<< >>)] = e
  OBVIOUS
<1> HIDE DEF w
<1>5. \E p, u : Climbs(envs, e, n, p, u) /\ e = u[Len(p)]
  BY <1>3, <1>4
<1> QED BY <1>1, <1>2, <1>5 DEF Looking

LEMMA OthersLook ==
  ASSUME LookInv, EnvNext, ~(\E e \in held, n \in Name : BeginLookup(e, n)),
         ~(Chain \/ Return \/ Descend)
  PROVE  job'.op # "lookup"
<1>1. JobShape(job) /\ (job.at \in Binding => job.op \in {"define", "vau", "lambda"})
  BY DEF LookInv, MatchInv, TypeInv, SealInv, JobOK, BindInv
<1>2. CASE \E ps \in Parents : MakeEnvironment(ps)
  BY <1>2 DEF MakeEnvironment, Begin, NoJob
<1>3. CASE \E t \in Given, n \in Name, v \in Given : Set(t, n, v)
  <2>1. PICK t, n, v : Set(t, n, v)
    BY <1>3
  <2>2. ASSUME NEW x, NEW e, Begin([NoJob EXCEPT !.op = "set", !.env = e, !.name = n,
                                                 !.obj = v, !.answer = x])
        PROVE  job'.op = "set"
    BY <2>2 DEF Begin, NoJob
  <2>3. job'.op = "set"
    BY <2>1, <2>2 DEF Set
  <2> QED BY <2>3
<1>4. CASE \E e \in held, p \in Trees :
             \/ \E v \in Given : BeginDefine(e, p, v) \/ BeginLambda(e, p, v)
             \/ \E c \in held, n \in EnvParams, v \in Objects : BeginVau(c, e, p, n, v)
  <2>1. ASSUME NEW e, NEW p, NEW v, BeginDefine(e, p, v) PROVE job'.op = "define"
    BY <2>1 DEF BeginDefine, Begin, NoJob
  <2>2. ASSUME NEW e, NEW p, NEW v, BeginLambda(e, p, v) PROVE job'.op = "lambda"
    BY <2>2 DEF BeginLambda, Begin, NoJob
  <2>3. ASSUME NEW c, NEW e, NEW p, NEW n, NEW v, BeginVau(c, e, p, n, v) PROVE job'.op = "vau"
    BY <2>3 DEF BeginVau, Begin, NoJob
  <2> QED BY <1>4, <2>1, <2>2, <2>3
<1>5. CASE Collect
  BY <1>5 DEF Collect, NoJob
<1>6. ASSUME job.at \in Binding, job'.op = job.op PROVE job'.op # "lookup"
  BY <1>1, <1>6
<1>7. ASSUME NEW x, Finish(x) PROVE job'.op = job.op
  BY <1>1, <1>7, FinishSays
<1>8. ASSUME NEW x, Fail(x) PROVE job'.op = job.op
  BY <1>7, <1>8 DEF Fail
<1>9. CASE Validate
  <2>1. job.at \in Binding
    BY <1>9 DEF Validate, Binding
  <2>2. job'.op = job.op
    BY <1>1, <1>8, <1>9 DEF Validate, JobShape
  <2> QED BY <1>6, <2>1, <2>2
<1>10. CASE Validated
  <2>1. job.at \in Binding
    BY <1>10 DEF Validated, Binding
  <2>2. job'.op = job.op
    BY <1>1, <1>8, <1>10 DEF Validated, JobShape
  <2> QED BY <1>6, <2>1, <2>2
<1>11. CASE Enter
  <2>1. job.at \in Binding
    BY <1>11 DEF Enter, Binding
  <2>2. job'.op = job.op
    BY <1>1, <1>7, <1>11 DEF Enter, JobShape
  <2> QED BY <1>6, <2>1, <2>2
<1>12. CASE Match
  <2>1. job.at \in Binding
    BY <1>12 DEF Match, Binding
  <2>2. job'.op = job.op
    BY <1>1, <1>8, <1>12 DEF Match, JobShape
  <2> QED BY <1>6, <2>1, <2>2
<1>13. CASE Matched
  <2>1. job.at \in Binding
    BY <1>13 DEF Matched, Binding
  <2>2. job'.op = job.op
    BY <1>7, <1>8, <1>13 DEF Matched
  <2> QED BY <1>6, <2>1, <2>2
<1> QED BY <1>2, <1>3, <1>4, <1>5, <1>9, <1>10, <1>11, <1>12, <1>13 DEF EnvNext

LEMMA InitLooks == EnvInit => LookInv
<1> SUFFICES ASSUME EnvInit PROVE LookInv
  OBVIOUS
<1>1. job.at = "idle" /\ job.op = "none"
  BY DEF EnvInit, NoJob
<1>2. BindInv /\ DefineMatches /\ TypeInv
  BY <1>1, InitMemory DEF BindInv, DefineMatches, Binding
<1>3. Narrow(envs)
  BY DEF EnvInit, Narrow
<1>4. Looking(job, envs, before.room, room)
  BY <1>1 DEF Looking
<1> QED BY <1>2, <1>3, <1>4 DEF LookInv, MatchInv

LEMMA StepLooks == LookInv /\ [EnvNext]_envVars => LookInv'
<1> SUFFICES ASSUME LookInv, [EnvNext]_envVars PROVE LookInv'
  OBVIOUS
<1>1. MatchInv' /\ Narrow(envs')
  BY StepBinds, NarrowStep DEF LookInv, MatchInv
<1>2. CASE UNCHANGED envVars
  <2>1. Looking(job', envs', before'.room, room')
    BY <1>2 DEF LookInv, envVars
  <2> QED BY <1>1, <2>1 DEF LookInv
<1>3. ASSUME EnvNext PROVE Looking(job', envs', before'.room, room')
  <2>1. CASE \E e \in held, n \in Name : BeginLookup(e, n)
    BY <2>1, BeginLooks
  <2>2. CASE Chain \/ Return \/ Descend
    BY <2>2, ChainLooks, ReturnLooks, DescendLooks
  <2>3. CASE ~(\E e \in held, n \in Name : BeginLookup(e, n)) /\ ~(Chain \/ Return \/ Descend)
    BY <1>3, <2>3, OthersLook DEF Looking
  <2> QED BY <2>1, <2>2, <2>3
<1> QED BY <1>1, <1>2, <1>3 DEF LookInv
-----------------------------------------------------------------------------
(* What the property names: the paths, those to a binding, those that fork. *)
LEMMA PathsFinite ==
  ASSUME Len(envs) \in Nat
  PROVE  IsFiniteSet(Paths) /\ Paths \subseteq Seq(Turn)
<1> DEFINE N == Len(envs)
           D == (0 .. N) \X SUBSET (1 .. N)
           f == [x \in D |-> [i \in 1 .. x[1] |-> IF i \in x[2] THEN 1 ELSE 2]]
<1>1. IsFiniteSet(D)
  <2>1. IsFiniteSet(0 .. N) /\ IsFiniteSet(1 .. N)
    <3>1. 0 \in Int /\ 1 \in Int /\ N \in Int
      OBVIOUS
    <3> HIDE DEF N
    <3> QED BY <3>1, FS_Interval
  <2>2. IsFiniteSet(SUBSET (1 .. N))
    BY <2>1, FS_SUBSET
  <2> QED BY <2>1, <2>2, FS_Product
<1>2. f \in [D -> Paths]
  <2> SUFFICES ASSUME NEW x \in D
               PROVE  [i \in 1 .. x[1] |-> IF i \in x[2] THEN 1 ELSE 2] \in Paths
    OBVIOUS
  <2>1. x[1] \in 0 .. Len(envs)
    OBVIOUS
  <2>2. [i \in 1 .. x[1] |-> IF i \in x[2] THEN 1 ELSE 2] \in [1 .. x[1] -> 1 .. 2]
    OBVIOUS
  <2> QED BY <2>1, <2>2 DEF Paths
<1>3. ASSUME NEW p \in Paths PROVE \E x \in D : f[x] = p
  <2>1. PICK k \in 0 .. N : p \in [1 .. k -> 1 .. 2]
    BY DEF Paths
  <2> DEFINE S == {i \in 1 .. k : p[i] = 1}
  <2>2. S \in SUBSET (1 .. N)
    OBVIOUS
  <2>3. <<k, S>> \in D
    BY <2>2
  <2>4. f[<<k, S>>] = [i \in 1 .. k |-> IF i \in S THEN 1 ELSE 2]
    BY <2>3
  <2>5. \A i \in 1 .. k : p[i] = IF i \in S THEN 1 ELSE 2
    <3>1. \A i \in 1 .. k : p[i] = 1 \/ p[i] = 2
      BY <2>1
    <3> QED BY <3>1
  <2>6. f[<<k, S>>] = p
    BY <2>1, <2>4, <2>5
  <2> QED BY <2>3, <2>6
<1> HIDE DEF f, D
<1>4. f \in Surjection(D, Paths)
  BY <1>2, <1>3 DEF Surjection
<1>5. IsFiniteSet(Paths)
  BY <1>1, <1>4, FS_Surjection
<1>6. ASSUME NEW p \in Paths PROVE p \in Seq(Turn)
  <2>1. PICK k \in 0 .. N : p \in [1 .. k -> 1 .. 2]
    BY DEF Paths
  <2>2. k \in Nat /\ p \in [1 .. k -> Turn]
    <3>1. 1 .. 2 = Turn
      BY DEF Turn
    <3> QED BY <2>1, <3>1
  <2> QED BY <2>2, SeqDef
<1> QED BY <1>5, <1>6

LEMMA PathsAreWays ==
  ASSUME Ordered(envs), NEW e \in 1 .. Len(envs)
  PROVE  /\ {p \in Paths : EndOf(e, p) # 0} = {p \in Seq(Turn) : \E w : Way(envs, e, p, w)}
         /\ \A n : {p \in Paths : EndOf(e, p) # 0 /\ n \in Bound(EndOf(e, p))} = Hits(envs, e, n)
         /\ {p \in Paths : /\ EndOf(e, p) # 0
                           /\ \E k \in 0 .. Len(p) - 1 :
                                Len(envs[EndOf(e, SubSeq(p, 1, k))].parents) > 1}
              = Forked(envs, e)
<1>0. Len(envs) \in Nat
  BY DEF Ordered
<1>1. ASSUME NEW p \in Paths, EndOf(e, p) # 0 PROVE p \in Seq(Turn) /\ \E w : Way(envs, e, p, w)
  <2>1. p \in Seq(Turn)
    BY <1>0, PathsFinite
  <2> QED BY <1>1, <2>1, WayOfEnd
<1>2. ASSUME NEW p, NEW w, Way(envs, e, p, w)
      PROVE  p \in Paths /\ p \in Seq(Turn) /\ EndOf(e, p) # 0 /\ EndOf(e, p) = w[Len(p)]
  <2>1. p \in Seq(Turn) /\ Len(p) \in Nat /\ EndOf(e, p) # 0 /\ EndOf(e, p) = w[Len(p)]
    BY <1>2, EndOfWay, WayType
  <2>2. Len(p) < e
    BY <1>2, WayFalls
  <2>3. Len(p) \in 0 .. Len(envs)
    BY <1>0, <2>1, <2>2
  <2>4. p \in [1 .. Len(p) -> 1 .. 2]
    <3>1. Turn = 1 .. 2
      BY DEF Turn
    <3> QED BY <2>1, <3>1
  <2> QED BY <2>1, <2>3, <2>4 DEF Paths
<1>3. ASSUME NEW p, NEW w, Way(envs, e, p, w), NEW k \in 0 .. Len(p) - 1
      PROVE  EndOf(e, SubSeq(p, 1, k)) = w[k]
  <2>1. Len(p) \in Nat
    BY <1>3, WayType
  <2>2. k \in 0 .. Len(p) /\ k \in 0 .. k
    BY <2>1
  <2> DEFINE q == SubSeq(p, 1, k)
             v == [i \in 0 .. k |-> w[i]]
  <2>3. Way(envs, e, q, v) /\ Len(q) = k
    BY <1>3, <2>2, WayBack
  <2>4. v[k] = w[k]
    BY <2>2
  <2> HIDE DEF q, v
  <2>5. EndOf(e, q) = w[k]
    BY <2>3, <2>4, EndOfWay
  <2> QED BY <2>5 DEF q
<1>4. {p \in Paths : EndOf(e, p) # 0} = {p \in Seq(Turn) : \E w : Way(envs, e, p, w)}
  BY <1>1, <1>2
<1>5. ASSUME NEW n
      PROVE  {p \in Paths : EndOf(e, p) # 0 /\ n \in Bound(EndOf(e, p))} = Hits(envs, e, n)
  <2>1. ASSUME NEW p \in Paths, EndOf(e, p) # 0, n \in Bound(EndOf(e, p)) PROVE p \in Hits(envs, e, n)
    <3>1. PICK w : Way(envs, e, p, w)
      BY <1>1, <2>1
    <3>2. p \in Seq(Turn) /\ EndOf(e, p) = w[Len(p)]
      BY <1>2, <3>1
    <3> QED BY <2>1, <3>1, <3>2 DEF Hits, Bound
  <2>2. ASSUME NEW p \in Hits(envs, e, n)
        PROVE  p \in Paths /\ EndOf(e, p) # 0 /\ n \in Bound(EndOf(e, p))
    <3>1. PICK w : Way(envs, e, p, w) /\ n \in DOMAIN envs[w[Len(p)]].frame
      BY DEF Hits
    <3> QED BY <1>2, <3>1 DEF Bound
  <2> QED BY <2>1, <2>2
<1>6. ASSUME NEW p, NEW w, Way(envs, e, p, w)
      PROVE  (\E k \in 0 .. Len(p) - 1 : Len(envs[EndOf(e, SubSeq(p, 1, k))].parents) > 1)
               <=> (\E k \in 0 .. Len(p) - 1 : Len(envs[w[k]].parents) > 1)
  BY <1>3, <1>6
<1> DEFINE Shares(p) == \E k \in 0 .. Len(p) - 1 : Len(envs[EndOf(e, SubSeq(p, 1, k))].parents) > 1
<1>7. {p \in Paths : EndOf(e, p) # 0 /\ Shares(p)} = Forked(envs, e)
  <2>1. ASSUME NEW p \in Paths, EndOf(e, p) # 0, Shares(p) PROVE p \in Forked(envs, e)
    <3>1. PICK w : Way(envs, e, p, w)
      BY <1>1, <2>1
    <3>2. \E k \in 0 .. Len(p) - 1 : Len(envs[w[k]].parents) > 1
      BY <1>6, <2>1, <3>1
    <3>3. p \in Seq(Turn)
      BY <1>2, <3>1
    <3> QED BY <3>1, <3>2, <3>3 DEF Forked
  <2>2. ASSUME NEW p \in Forked(envs, e) PROVE p \in Paths /\ EndOf(e, p) # 0 /\ Shares(p)
    <3>1. PICK w : Way(envs, e, p, w) /\ \E k \in 0 .. Len(p) - 1 : Len(envs[w[k]].parents) > 1
      BY DEF Forked
    <3>2. Shares(p)
      BY <1>6, <3>1
    <3> HIDE DEF Shares
    <3> QED BY <1>2, <3>1, <3>2
  <2> HIDE DEF Shares
  <2> QED BY <2>1, <2>2
<1> QED BY <1>4, <1>5, <1>7

(* A finite set of paths has a first one. *)
LEMMA FirstOf ==
  ASSUME NEW S \in SUBSET Seq(Pos), IsFiniteSet(S), S # {}
  PROVE  \E p \in S : \A q \in S : Precedes(p, q)
<1> DEFINE Under(p) == {q \in S : Sooner(q, p)}
           Sizes == {Cardinality(Under(p)) : p \in S}
<1>1. \A p \in S : IsFiniteSet(Under(p)) /\ Cardinality(Under(p)) \in Nat
  <2> SUFFICES ASSUME NEW p \in S PROVE IsFiniteSet(Under(p)) /\ Cardinality(Under(p)) \in Nat
    OBVIOUS
  <2>1. Under(p) \in SUBSET S
    OBVIOUS
  <2> HIDE DEF Under
  <2>2. IsFiniteSet(Under(p))
    BY <2>1, FS_Subset
  <2> QED BY <2>2, FS_CardinalityType
<1>2. Sizes \in SUBSET Nat /\ Sizes # {}
  <2> HIDE DEF Under
  <2>1. PICK p : p \in S
    OBVIOUS
  <2>2. Cardinality(Under(p)) \in Sizes
    BY <2>1
  <2>3. Sizes \in SUBSET Nat
    BY <1>1
  <2> QED BY <2>2, <2>3
<1>3. PICK m \in Sizes : \A k \in Sizes : ~(k < m)
  <2> HIDE DEF Sizes
  <2> QED BY <1>2, LeastNumber
<1>4. PICK p \in S : Cardinality(Under(p)) = m
  BY <1>3
<1>5. ASSUME NEW q \in S, ~Precedes(p, q) PROVE FALSE
  <2>1. Sooner(q, p)
    BY <1>5, SoonerOrders
  <2>2. Under(q) \cup {q} \in SUBSET Under(p)
    <3>1. ASSUME NEW h \in Under(q) PROVE h \in Under(p)
      <4>1. h \in S /\ Sooner(h, q)
        BY <3>1
      <4>2. Sooner(h, p)
        BY <2>1, <4>1, SoonerOn
      <4> QED BY <4>1, <4>2
    <3>2. q \in Under(p)
      BY <2>1
    <3> QED BY <3>1, <3>2
  <2>3. q \notin Under(q)
    BY DEF Sooner
  <2> HIDE DEF Under
  <2>4. Cardinality(Under(q) \cup {q}) = Cardinality(Under(q)) + 1
    BY <1>1, <2>3, FS_AddElement
  <2>5. Cardinality(Under(q) \cup {q}) <= Cardinality(Under(p))
    BY <1>1, <2>2, FS_Subset
  <2>6. Cardinality(Under(q)) < m
    BY <1>1, <1>4, <2>4, <2>5
  <2>7. Cardinality(Under(q)) \in Sizes
    OBVIOUS
  <2> QED BY <1>3, <2>6, <2>7
<1> QED BY <1>5

LEMMA TheFirst ==
  ASSUME NEW S \in SUBSET Seq(Pos), NEW p \in S, \A q \in S : Precedes(p, q)
  PROVE  (CHOOSE x \in S : \A q \in S : Precedes(x, q)) = p
<1> DEFINE f == CHOOSE x \in S : \A q \in S : Precedes(x, q)
<1>1. f \in S /\ \A q \in S : Precedes(f, q)
  <2>1. \E x \in S : \A q \in S : Precedes(x, q)
    OBVIOUS
  <2> QED BY <2>1
<1> HIDE DEF f
<1>2. Precedes(p, f) /\ Precedes(f, p)
  BY <1>1
<1>3. p = f
  BY <1>1, <1>2, SoonerOrders DEF Sooner
<1> QED BY <1>3 DEF f

LEMMA LookedRight == LookInv => LookupRight
<1> SUFFICES ASSUME LookInv, job.at = "idle", job.op = "lookup" PROVE LookupRight
  BY DEF LookupRight
<1> DEFINE e       == job.env
           n       == job.name
           paths   == {p \in Paths : EndOf(job.env, p) # 0}
           binding == {p \in paths : job.name \in Bound(EndOf(job.env, p))}
           shared  == {p \in paths : \E k \in 0 .. Len(p) - 1 :
                                       Len(envs[EndOf(job.env, SubSeq(p, 1, k))].parents) > 1}
           first   == CHOOSE p \in binding : \A q \in binding : Precedes(p, q)
           vain    == IF binding = {} THEN shared
                      ELSE {p \in shared : p # first /\ Precedes(p, first)}
           paid    == before.room - room
           Right1  == /\ job.answer = "Ok"
                      /\ binding # {}
                      /\ job.obj = envs[EndOf(job.env, first)].frame[job.name]
                      /\ paid = Cardinality(vain)
           Right2  == job.answer = "UnboundVariable" /\ binding = {} /\ paid = Cardinality(vain)
           Right3  == job.answer = "OutOfMemory" /\ room = 0 /\ paid < Cardinality(vain)
<1>0. /\ Ordered(envs) /\ e \in 1 .. Len(envs) /\ before.room \in Nat /\ room \in Nat
      /\ Settled(job, envs, before.room, room)
  BY OrderedNow DEF LookInv, MatchInv, Looking
<1>1. binding = Hits(envs, e, n)
  <2>1. {p \in Paths : EndOf(e, p) # 0 /\ n \in Bound(EndOf(e, p))} = Hits(envs, e, n)
    BY <1>0, PathsAreWays
  <2> QED BY <2>1
<1>2. shared = Forked(envs, e)
  <2>1. {p \in Paths : /\ EndOf(e, p) # 0
                       /\ \E k \in 0 .. Len(p) - 1 :
                            Len(envs[EndOf(e, SubSeq(p, 1, k))].parents) > 1} = Forked(envs, e)
    BY <1>0, PathsAreWays
  <2> QED BY <2>1
<1>3. binding \in SUBSET Seq(Pos) /\ IsFiniteSet(binding) /\ IsFiniteSet(shared)
      /\ shared \in SUBSET Seq(Pos)
  <2>1. IsFiniteSet(Paths) /\ Paths \subseteq Seq(Turn)
    BY <1>0, PathsFinite DEF Ordered
  <2>2. binding \in SUBSET Paths /\ shared \in SUBSET Paths
    OBVIOUS
  <2> HIDE DEF binding, shared
  <2>3. IsFiniteSet(binding) /\ IsFiniteSet(shared)
    BY <2>1, <2>2, FS_Subset
  <2>4. binding \in SUBSET Seq(Pos) /\ shared \in SUBSET Seq(Pos)
    BY <2>1, <2>2, TurnSeq
  <2> QED BY <2>3, <2>4
<1> HIDE DEF binding, shared, paths
<1>4. ASSUME NEW p \in binding, \A q \in binding : Precedes(p, q)
      PROVE  first = p /\ vain = Ahead(envs, e, p)
  <2>1. first = p
    BY <1>3, <1>4, TheFirst
  <2> HIDE DEF first
  <2>2. vain = {q \in shared : q # p /\ Precedes(q, p)}
    BY <1>4, <2>1
  <2> QED BY <1>2, <2>1, <2>2 DEF Ahead, Sooner
<1>5. ASSUME job.answer = "Ok" PROVE Right1
  <2>1. PICK p, w : /\ Way(envs, e, p, w) /\ job.obj = envs[w[Len(p)]].frame[n]
                    /\ p \in Hits(envs, e, n)
                    /\ \A q \in Hits(envs, e, n) : Precedes(p, q)
                    /\ Counts(Ahead(envs, e, p), before.room - room)
    BY <1>0, <1>5 DEF Settled
  <2>2. first = p /\ vain = Ahead(envs, e, p)
    BY <1>1, <1>4, <2>1
  <2>3. EndOf(e, p) = w[Len(p)]
    BY <1>0, <2>1, EndOfWay
  <2>4. binding # {}
    BY <1>1, <2>1
  <2> HIDE DEF first, vain
  <2>5. job.obj = envs[EndOf(job.env, first)].frame[job.name]
    BY <2>1, <2>2, <2>3
  <2>6. paid = Cardinality(vain)
    BY <2>1, <2>2 DEF Counts
  <2> QED BY <1>5, <2>4, <2>5, <2>6
<1>6. ASSUME job.answer = "UnboundVariable" PROVE Right2
  <2>1. Hits(envs, e, n) = {} /\ Counts(Forked(envs, e), before.room - room)
    BY <1>0, <1>6 DEF Settled
  <2>2. binding = {} /\ vain = Forked(envs, e)
    BY <1>1, <1>2, <2>1
  <2> HIDE DEF vain
  <2> QED BY <1>6, <2>1, <2>2 DEF Counts
<1>7. ASSUME job.answer = "OutOfMemory" PROVE Right3
  <2>1. PICK p \in Forked(envs, e) : /\ \A q \in Hits(envs, e, n) : Sooner(p, q)
                                     /\ Counts(Ahead(envs, e, p), before.room)
    BY <1>0, <1>7 DEF Settled
  <2>2. room = 0
    BY <1>0, <1>7 DEF Settled
  <2>3. Ahead(envs, e, p) \cup {p} \subseteq vain /\ vain \in SUBSET shared
    <3>1. CASE binding = {}
      <4>1. vain = shared
        BY <3>1
      <4> HIDE DEF vain
      <4> QED BY <1>2, <4>1 DEF Ahead
    <3>2. CASE binding # {}
      <4>1. PICK g \in binding : \A q \in binding : Precedes(g, q)
        BY <1>3, <3>2, FirstOf
      <4>2. vain = Ahead(envs, e, g)
        BY <1>4, <4>1
      <4> HIDE DEF vain
      <4>3. Sooner(p, g)
        BY <1>1, <2>1, <4>1
      <4>4. p \in Seq(Pos) /\ g \in Seq(Pos)
        BY <1>2, <1>3
      <4>5. ASSUME NEW q \in Ahead(envs, e, p) PROVE q \in Ahead(envs, e, g)
        <5>1. q \in Forked(envs, e) /\ Sooner(q, p) /\ q \in Seq(Pos)
          BY <1>2, <1>3 DEF Ahead
        <5>2. Sooner(q, g)
          BY <4>3, <4>4, <5>1, SoonerOn
        <5> QED BY <5>1, <5>2 DEF Ahead
      <4>6. p \in Ahead(envs, e, g)
        BY <4>3 DEF Ahead
      <4>7. Ahead(envs, e, g) \subseteq shared
        BY <1>2 DEF Ahead
      <4> QED BY <4>2, <4>5, <4>6, <4>7
    <3> QED BY <3>1, <3>2
  <2> HIDE DEF vain
  <2>4. IsFiniteSet(vain)
    BY <1>3, <2>3, FS_Subset
  <2>5. p \notin Ahead(envs, e, p)
    BY DEF Ahead, Sooner
  <2>6. IsFiniteSet(Ahead(envs, e, p)) /\ Cardinality(Ahead(envs, e, p)) = before.room
    BY <2>1 DEF Counts
  <2>7. Cardinality(Ahead(envs, e, p) \cup {p}) = before.room + 1
    <3>1. PICK A : A = Ahead(envs, e, p)
      OBVIOUS
    <3>2. IsFiniteSet(A) /\ Cardinality(A) = before.room /\ p \notin A
      BY <2>5, <2>6, <3>1
    <3>3. Cardinality(A \cup {p}) = Cardinality(A) + 1
      BY <3>2, FS_AddElement
    <3>4. Cardinality(A \cup {p}) = before.room + 1
      BY <3>2, <3>3
    <3> QED BY <3>1, <3>4
  <2>8. Cardinality(Ahead(envs, e, p) \cup {p}) <= Cardinality(vain)
    BY <2>3, <2>4, FS_Subset
  <2>9. Cardinality(vain) \in Nat
    BY <2>4, FS_CardinalityType
  <2>10. paid < Cardinality(vain)
    BY <1>0, <2>2, <2>7, <2>8, <2>9
  <2> QED BY <1>7, <2>2, <2>10
<1>8. Right1 \/ Right2 \/ Right3
  <2>1. job.answer = "Ok" \/ job.answer = "UnboundVariable" \/ job.answer = "OutOfMemory"
    BY <1>0 DEF Settled
  <2> HIDE DEF Right1, Right2, Right3
  <2> QED BY <1>5, <1>6, <1>7, <2>1
<1> QED BY <1>8 DEF LookupRight, paths, binding, shared

(* Looking a name up finds the binding that is first in depth-first order, *)
(* parents from left to right, in whatever graph of environments a program *)
(* has built, and reports the name unbound only when no environment above  *)
(* binds it; from the first environment with two parents on it takes one   *)
(* cell for every way to an environment searched in vain, and runs out of  *)
(* memory exactly when fewer are left (env_lookup, env_lookup_dfs and      *)
(* env_lookup_dfs_parents, lisp.rs).                                       *)
THEOREM LookupsAreRight == EnvSpec => []LookupRight
BY InitLooks, StepLooks, LookedRight, PTL DEF EnvSpec
=============================================================================
