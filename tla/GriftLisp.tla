----------------------------- MODULE GriftLisp ----------------------------
(***************************************************************************)
(* The Lisp heap of grift: what cells hold, and the helpers of lisp.rs and *)
(* eval.rs that read, allocate and rewrite cells without evaluating        *)
(* anything.  The arena underneath is the free list and the partial map    *)
(* that GriftArena keeps intact.                                           *)
(*                                                                         *)
(* A helper maps a memory "m" to a memory.  Besides the cells and the free *)
(* list m carries what all other slots hold (rest), the number of open     *)
(* files, what the helper returns (val, and env where it returns a pair)   *)
(* and the error that ended it: an erring helper keeps what it did before  *)
(* the error, and the helpers after it, like those after Rust's "?", do    *)
(* nothing.                                                                *)
(***************************************************************************)
EXTENDS GriftCells, Integers, SequencesExt

CONSTANTS Slots,        \* the slots a program may use, in ascending order
          SymbolNames   \* the program's own symbols; taken as interned already

(* The slots no program rewrites: the singletons, the interned symbols and *)
(* the builtins that the ground environment binds.  They are reachable     *)
(* from the singleton roots of every collection.                           *)
Operatives   == {"quote", "if", "define!", "set!", "lambda", "begin", "cond", "and", "or",
                 "let", "vau", "current-environment", "load"}
Comparisons  == {"=", "<", ">", "<=", ">="}
Applicatives == {"cons", "+", "-", "*", "/", "car", "cdr", "list", "null?", "not", "pair?",
                 "number?", "symbol?", "boolean?", "inert?", "ignore?", "eq?", "equal?", "eval",
                 "wrap", "unwrap", "operative?", "applicative?", "make-environment",
                 "make-empty-environment", "environment?", "gc-collect", "error", "apply"}
                \cup Comparisons
Keywords     == Operatives \cup Applicatives \cup {"fn", "else"}

BuiltinOf(s) == "builtin " \o s
WrappedOf(s) == "wrapped " \o s
NameOf(i)    == CHOOSE s \in Keywords : i \in {BuiltinOf(s), WrappedOf(s)}
BuiltinIds   == {BuiltinOf(s) : s \in Operatives \cup Applicatives}
WrappedIds   == {WrappedOf(s) : s \in Applicatives}

Fixed == [i \in {"nil"} |-> Cell("Nil", "nil", "nil")]
      @@ [i \in {"#t", "#f"} |-> Cell("Boolean", i, "nil")]
      @@ [i \in {"#inert"} |-> Cell("Inert", "nil", "nil")]
      @@ [i \in {"#ignore"} |-> Cell("Ignore", "nil", "nil")]
      @@ [i \in {"ground"} |-> Environ("nil", "nil")]
      @@ [i \in {"global-parents"} |-> Pair("ground", "nil")]
      @@ [i \in Keywords \cup SymbolNames |-> Cell("Symbol", i, "nil")]
      @@ [i \in BuiltinIds |-> Cell("Builtin", NameOf(i), "nil")]
      @@ [i \in WrappedIds |-> Cell("Applicative", BuiltinOf(NameOf(i)), "nil")]

GroundValue == [s \in Operatives |-> BuiltinOf(s)] @@ [s \in Applicatives |-> WrappedOf(s)]

FreshMem == [i \in {"global"} |-> Environ("nil", "global-parents")]
         @@ [i \in {"gc_roots"} |-> Pair("nil", "nil")]

Unoccupied == Fixed @@ [i \in ToSet(Slots) |-> FreeCell]
At(m, i)   == IF i \in DOMAIN m.mem THEN m.mem[i] ELSE m.rest[i]
Kind(m, i) == At(m, i).kind
-----------------------------------------------------------------------------
Failed(m)      == m.err # "ok"
Fail(m, e)     == IF Failed(m) THEN m ELSE [m EXCEPT !.err = e]
Give(m, i)     == IF Failed(m) THEN m ELSE [m EXCEPT !.val = i]
InEnv(m, i, e) == IF Failed(m) THEN m ELSE [m EXCEPT !.val = i, !.env = e]
OneOf(m, k, ks)  == IF Failed(m) THEN m
                    ELSE IF k = "Free" THEN Fail(m, "IndexNotAllocated")
                    ELSE IF k \notin ks THEN Fail(m, "TypeError") ELSE m
Expect(m, i, ks) == OneOf(m, Kind(m, i), ks)
Get(m, i) == IF Kind(m, i) = "Free" THEN Fail(m, "IndexNotAllocated") ELSE Give(m, i)

(* Field access: car, cdr, cadr; CarOf and CdrOf of what was returned. *)
Car(m, i)  == Give(Expect(m, i, {"Cons"}), At(m, i).a)
Cdr(m, i)  == Give(Expect(m, i, {"Cons"}), At(m, i).d)
CarOf(m)   == Car(m, m.val)
CdrOf(m)   == Cdr(m, m.val)
Cadr(m, i) == CarOf(Cdr(m, i))

Store(m, i, c) == IF Failed(m) THEN m ELSE [m EXCEPT !.mem[i] = c]

(* A mutant of Alloc: the head of the free list is not unlinked. *)
AllocKeepsHead(m, c) ==
  IF Failed(m) THEN m
  ELSE IF m.free = << >> THEN Fail(m, "OutOfMemory")
  ELSE [m EXCEPT !.mem = (Head(m.free) :> c) @@ @, !.val = Head(m.free)]

Alloc(m, c) ==
  IF Failed(m) THEN m
  ELSE IF m.free = << >> THEN Fail(m, "OutOfMemory")
  ELSE [m EXCEPT !.mem  = (Head(m.free) :> c) @@ @,
                 !.free = Tail(@),
                 !.val  = Head(m.free)]

NewCons(m, car, cdr) == Alloc(m, Pair(car, cdr))
Prepend(m, l)        == NewCons(m, m.val, l)    \* what was returned, before l

(* The elements of a chain of pairs, as list_contains walks it: the walk   *)
(* ends, without an error, at anything that is not a pair.                 *)
RECURSIVE Elements(_, _)
Elements(m, l) == IF Kind(m, l) # "Cons" THEN << >>
                  ELSE <<At(m, l).a>> \o Elements(m, At(m, l).d)
ListContains(m, l, i) == i \in ToSet(Elements(m, l))

(* reverse_chain turns the cdr of each cell round, in place, in lists and  *)
(* in strings.                                                             *)
RECURSIVE ReverseOnto(_, _, _)
ReverseOnto(m, l, prev) ==
  IF Failed(m) \/ l = "nil" THEN Give(m, prev)
  ELSE ReverseOnto(Store(Expect(m, l, {"Cons", "CharPair"}), l, [At(m, l) EXCEPT !.d = prev]),
                   At(m, l).d, l)
ReverseChain(m, l) == ReverseOnto(m, l, "nil")

(* collect_string: the characters of a string, if its chain holds nothing  *)
(* else.                                                                   *)
RECURSIVE StringChain(_, _), Characters(_, _)
StringChain(m, i) == IF Failed(m) \/ i = "nil" THEN m
                     ELSE StringChain(Expect(m, i, {"CharPair"}), At(m, i).d)
Characters(m, i)  == IF i = "nil" THEN << >> ELSE <<At(m, i).a>> \o Characters(m, At(m, i).d)

(* map_list with the element itself, its car or its cadr: new cells, built *)
(* in reverse and turned round.                                            *)
Selected(m, f) == CASE f = "car"  -> CarOf(m)
                    [] f = "cadr" -> CarOf(CdrOf(m))
                    [] OTHER      -> m
RECURSIVE MapOnto(_, _, _)
MapOnto(m, l, f) ==    \* m.val is the list so far
  IF Failed(m) THEN m
  ELSE IF l = "nil" THEN ReverseChain(m, m.val)
  ELSE MapOnto(Prepend(Selected(Car(m, l), f), m.val), At(m, l).d, f)
MapList(m, l, f) == MapOnto(Give(m, "nil"), l, f)
-----------------------------------------------------------------------------
(* The root stack: a list in the heap, whose head GC_ROOTS holds. *)
RootsHead(m)       == At(m, "gc_roots").a
SetRootsHead(m, i) == [m EXCEPT !.mem["gc_roots"] = Pair(i, "nil")]

SetRoots(m)        == IF Failed(m) THEN m ELSE SetRootsHead(m, m.val)

PushRoot(m, i) == SetRoots(NewCons(m, i, RootsHead(m)))

RECURSIVE PopRoots(_, _)
PopRoots(m, n) ==
  IF Failed(m) \/ n = 0 \/ Kind(m, RootsHead(m)) # "Cons" THEN m
  ELSE PopRoots(SetRootsHead(m, At(m, RootsHead(m)).d), n - 1)

(* collect_with_roots: what the singleton roots and the extra ones do not  *)
(* reach is freed.  The sweep ascends and pushes each slot it frees, so    *)
(* that the highest of them is the next to be allocated.                   *)
RECURSIVE ReachFrom(_, _)
ReachFrom(m, S) ==
  LET T == S \cup (UNION {References(m.mem[i]) : i \in S} \cap DOMAIN m.mem)
  IN  IF T = S THEN S ELSE ReachFrom(m, T)
Live(m, extra) == ReachFrom(m, ({"global", "gc_roots"} \cup extra) \cap DOMAIN m.mem)

Collect(m, extra) ==
  LET live  == Live(m, extra)
      freed == SelectSeq(Slots, LAMBDA i : i \in DOMAIN m.mem \ live)
  IN  [m EXCEPT !.mem = Restrict(@, live), !.free = Reverse(freed) \o @]
-----------------------------------------------------------------------------
(* Environments: an alist of bindings and a list of parents. *)
MakeEnv(m, parents) == Alloc(m, Environ("nil", parents))
MakeEnvOf(m)        == MakeEnv(m, m.val)
MakeChildEnv(m, parent) ==
  IF parent = "nil" THEN MakeEnv(m, "nil")
  ELSE MakeEnvOf(NewCons(m, parent, "nil"))

(* find_binding: the first pair of the alist for a name, or nil.  The      *)
(* bindings of the ground environment are GroundValue.                     *)
Binding(m, e, s) ==
  LET bs == SelectSeq(Elements(m, At(m, e).a), LAMBDA b : At(m, b).a = s)
  IN  IF bs = << >> THEN "nil" ELSE bs[1]
OwnValue(m, e, s) ==    \* the value bound in e's own frame, or "unbound"
  IF e = "ground" THEN IF s \in DOMAIN GroundValue THEN GroundValue[s] ELSE "unbound"
  ELSE IF Binding(m, e, s) = "nil" THEN "unbound" ELSE At(m, Binding(m, e, s)).d

Bind(m, e, ps)   == Store(m, e, Environ(m.val, ps))
EnvDefine(m, e, s, v) ==
  LET x == Expect(m, e, {"Environment"})
      b == Binding(m, e, s)
  IN  IF Failed(x) THEN x
      ELSE IF b # "nil" THEN Store(m, b, Pair(s, v))
      ELSE Bind(Prepend(NewCons(m, s, v), At(m, e).a), e, At(m, e).d)

EnvSet(m, e, s, v) ==
  LET x == Expect(m, e, {"Environment"})
      b == Binding(m, e, s)
  IN  IF Failed(x) THEN x
      ELSE IF b = "nil" THEN Fail(m, "UnboundVariable") ELSE Store(m, b, Pair(s, v))

(* env_lookup_dfs(_parents): depth first, with a list in the heap of the   *)
(* environments on the path (not of all those visited).  UnboundVariable   *)
(* below one parent sends the search to the next; the cells it allocated   *)
(* stay allocated.                                                         *)
RECURSIVE LookupDfs(_, _, _, _), LookupParents(_, _, _, _)
LookupDfs(m, e, s, visited) ==
  LET x == Expect(m, e, {"Environment"})
      v == OwnValue(m, e, s)
      c == NewCons(m, e, visited)
  IN  IF Failed(m) THEN m
      ELSE IF e = "nil" \/ ListContains(m, visited, e) THEN Fail(m, "UnboundVariable")
      ELSE IF Failed(x) THEN x
      ELSE IF v # "unbound" THEN Give(m, v)
      ELSE LookupParents(c, At(m, e).d, s, c.val)
LookupParents(m, ps, s, visited) ==
  LET p == Car(m, ps)
      r == LookupDfs(p, p.val, s, visited)
  IN  IF Failed(m) THEN m
      ELSE IF ps = "nil" THEN Fail(m, "UnboundVariable")
      ELSE IF r.err = "UnboundVariable"
           THEN LookupParents([r EXCEPT !.err = "ok"], At(m, ps).d, s, visited)
           ELSE r

(* env_lookup: along single parents without allocating, by DFS from the    *)
(* first environment that has several.                                     *)
RECURSIVE Lookup(_, _, _)
Lookup(m, e, s) ==
  LET x  == Expect(m, e, {"Environment"})
      v  == OwnValue(m, e, s)
      ps == Elements(m, At(m, e).d)
  IN  IF e = "nil" THEN Fail(m, "UnboundVariable")
      ELSE IF Failed(x) THEN x
      ELSE IF v # "unbound" THEN Give(m, v)
      ELSE IF Len(ps) <= 1 THEN IF ps = << >> THEN Fail(m, "UnboundVariable")
                                              ELSE Lookup(m, ps[1], s)
      ELSE LookupParents(m, At(m, e).d, s, "nil")
-----------------------------------------------------------------------------
(* Combiners. *)
Wrap(m)      == Alloc(m, Cell("Applicative", m.val, "nil"))
Unwrap(m, i) == Give(Expect(m, i, {"Applicative"}), At(m, i).a)

Vau(m, params, env_param, body, env) ==
  LET p == NewCons(m, params, env_param)
      b == NewCons(p, body, env)
  IN  Alloc(b, Cell("Operative", p.val, b.val))

(* Lambda, of the body that was returned. *)
Lambda(m, params, env) == Wrap(Vau(m, params, "nil", m.val, env))

WrapBegin(m, l) ==
  LET rest == Cdr(m, l)
  IN  IF Failed(m) \/ l = "nil" THEN Give(m, l)
      ELSE IF rest.val = "nil" THEN Car(rest, l)
      ELSE NewCons(rest, "begin", l)
WrapBeginOf(m) == WrapBegin(m, m.val)

(* validate_ptree: the parameter tree is acyclic and names no symbol twice.*)
(* Returns the list of its symbols.                                        *)
RECURSIVE ValidateInner(_, _, _, _)
ValidateInner(m, p, visited, seen) ==
  LET k == Kind(m, p) IN
  CASE Failed(m) -> m
    [] k \in {"Nil", "Ignore"} -> Give(m, seen)
    [] k = "Symbol" -> IF ListContains(m, seen, p) THEN Fail(m, "InvalidArgument")
                       ELSE NewCons(m, p, seen)
    [] k = "Cons" -> IF ListContains(m, visited, p) THEN Fail(m, "Cyclic")
                     ELSE LET v == NewCons(m, p, visited)
                              l == ValidateInner(v, At(m, p).a, v.val, seen)
                          IN  ValidateInner(l, At(m, p).d, v.val, l.val)
    [] OTHER -> Expect(m, p, {})
ValidatePtree(m, p) == ValidateInner(m, p, "nil", "nil")

(* match_ptree: binds as it goes; what it bound before an error stays. *)
RECURSIVE MatchPtree(_, _, _, _)
MatchPtree(m, p, obj, e) ==
  LET k == Kind(m, p) IN
  CASE Failed(m) -> m
    [] k = "Nil" -> IF obj = "nil" THEN m ELSE Fail(m, "TypeError")
    [] k = "Ignore" -> m
    [] k = "Symbol" -> EnvDefine(m, e, p, obj)
    [] k = "Cons" -> LET x == Expect(m, obj, {"Cons"})
                     IN  MatchPtree(MatchPtree(x, At(m, p).a, At(m, obj).a, e),
                                    At(m, p).d, At(m, obj).d, e)
    [] OTHER -> Expect(m, p, {})

(* invoke_operative: returns the body (val) and the environment (env) to   *)
(* evaluate it in.                                                         *)
InvokeOperative(m, op, args, caller_env) ==
  LET o    == At(m, op)
      tree == At(m, o.a)    \* (params . env_param)
      code == At(m, o.d)    \* (body . closed environment)
      x    == Expect(Expect(Expect(m, op, {"Operative"}), o.a, {"Cons"}), o.d, {"Cons"})
      matched(c) == MatchPtree(c, tree.a, args, c.val)
      entered(c) ==
        IF tree.d = "nil" THEN InEnv(matched(c), code.a, c.val)
        ELSE InEnv(EnvDefine(matched(c), c.val, tree.d, caller_env), code.a, c.val)
  IN  entered(MakeChildEnv(x, code.d))
-----------------------------------------------------------------------------
(* The parser, on syntax trees instead of characters:                      *)
(*   [k |-> "sym", s |-> name], [k |-> "num", n |-> numeral],              *)
(*   [k |-> "str", cs |-> characters], [k |-> "list", l |-> the trees].    *)
(* An atom's spelling is built in the heap (one cell here, whatever its    *)
(* length) and is garbage once the atom is classified.  A string grows at  *)
(* its head and is turned round.  A list is parsed element by element and  *)
(* consed from its end.                                                    *)
RECURSIVE StringOnto(_, _, _)
StringOnto(m, s, head) ==
  LET c == Alloc(m, Cell("CharPair", Head(s), head))
  IN  IF Failed(m) \/ s = << >> THEN ReverseChain(m, head) ELSE StringOnto(c, Tail(s), c.val)

RECURSIVE Parse(_, _)
Parse(m, t) ==
  CASE t.k = "sym" -> Give(Alloc(m, Cell("CharPair", "nil", "nil")), t.s)
    [] t.k = "num" -> Alloc(Alloc(m, Cell("CharPair", "nil", "nil")), Cell("Number", t.n, "nil"))
    [] t.k = "str" -> StringOnto(m, t.cs, "nil")
    [] t.k = "list" /\ t.l = << >> -> Give(m, "nil")
    [] OTHER -> LET h == Parse(m, t.l[1])
                    r == Parse(h, [t EXCEPT !.l = Tail(@)])
                IN  NewCons(r, h.val, r.val)

(* The list of all the expressions of a file; one that is not "whole" ends *)
(* within an expression.                                                   *)
ParseAll(m, file) ==
  LET list[i \in 0 .. Len(file.trees)] ==
        IF i = 0 THEN Give(m, "nil")
        ELSE LET p == Parse(list[i - 1], file.trees[i]) IN NewCons(p, p.val, list[i - 1].val)
      all == list[Len(file.trees)]
  IN  IF file.whole THEN ReverseChain(all, all.val) ELSE Fail(all, "ParseError")
============================================================================
