----------------------------- MODULE Interpreter -----------------------------
(***************************************************************************)
(* The configuration language: atlantide/lang/interp evaluates a module    *)
(* that atlantide/lang/validate has accepted.  A program is evaluated      *)
(* twice, as it is by a plan and by the apply that checks the plan still   *)
(* holds, in two processes whose hash seeds and addresses differ.          *)
(*                                                                         *)
(* A node is a record whose field t is its ast type.  Eval and Exec are    *)
(* big-step: each handler returns what the node comes to and the state it  *)
(* leaves (see InterpValues).  Dicts, a slice's step and negative bounds,  *)
(* attributes other than methods, imports and EnvSchema classes are not    *)
(* modelled.                                                               *)
(***************************************************************************)
EXTENDS InterpValues

CONSTANT Programs   \* records [body, fuel]

VARIABLES prog, phase, planned, applied

vars == <<prog, phase, planned, applied>>

RECURSIVE Perform(_, _), ExecAll(_, _, _), Take(_, _, _, _, _), Bind(_, _, _, _), SetsAsLists(_, _),
          Published(_, _), RunComp(_, _, _, _), CompFrom(_, _, _, _, _, _), Loop(_, _, _, _, _), AfterBody(_, _, _, _, _),
          ExpandChunks(_, _, _, _), EnterAll(_, _, _, _)

\* Evaluation, execution and native calls reach one another through Perform alone.
Eval(e, sc, S) == Perform([do |-> "eval", node |-> e, sc |-> sc], S)
Exec(st, sc, S) == Perform([do |-> "exec", node |-> st, sc |-> sc], S)
CallValue(f, args, S) == Perform([do |-> "call", f |-> f, args |-> args], S)
RunNative(f, args, kws, S) == Perform([do |-> "native", f |-> f, args |-> args, kws |-> kws], S)

\* Op on each of xs from left to right; the first failure ends it.
Each(Op(_, _), xs, S) ==
    FoldLeft(LAMBDA m, x : Then(m, LAMBDA ys, T : Then(Op(x, T), LAMBDA y, U : Val(Append(ys, y), U))),
             Val(<<>>, S), xs)
EvalAll(es, sc, S) == Each(LAMBDA e, T : Eval(e, sc, T), es, S)

ExecAll(body, sc, S) ==
    IF body = <<>> THEN Val(None, S)
    ELSE Then(Exec(Head(body), sc, S), LAMBDA u, T : ExecAll(Tail(body), sc, T))

(***************************************************************************)
(* Iteration.  A set is walked in the order it renders in; a list as it is *)
(* at each step, so that a loop sees what its body appends.                *)
(***************************************************************************)
Iter(v, S) ==
    CASE IsSet(v, S) -> Then(SortedSet(v, S), LAMBDA xs, T : Val(Tup(xs), T))
      [] v.k = "str" -> Val(Tup([i \in 1..Len(v.t) |-> Str(<<v.t[i]>>)]), S)
      [] v.k \in {"tuple", "range"} \/ IsCell(v, "list", S) \/ IsCell(v, "map", S) -> Val(v, S)
      [] OTHER -> Err("not iterable", S)

\* The i-th item as <<item>>, or <<>> at the end.  A map calls its function now.
NextItem(it, i, S) ==
    CASE IsCell(it, "map", S) ->
           LET m == S.heap[it.a]
           IN IF m.xs = <<>> THEN Val(<<>>, S)
              ELSE Then(CallValue(m.f, <<Head(m.xs)>>, [S EXCEPT !.heap[it.a].xs = Tail(@)]),
                        LAMBDA v, T : Val(<<v>>, T))
      [] it.k = "range" -> Val(IF i <= it.n THEN <<Num(it.lo + i - 1)>> ELSE <<>>, S)
      [] OTHER -> LET xs == Held(it, S)
                  IN Val(IF i <= Len(xs) THEN <<xs[i]>> ELSE <<>>, S)

\* The items of it from the i-th up to the n-th, cost steps charged for each.
Take(it, i, n, cost, S) ==
    IF i > n THEN Val(<<>>, S)
    ELSE Then(NextItem(it, i, S), LAMBDA item, T :
         IF item = <<>> THEN Val(<<>>, T)
         ELSE Then(Tick(cost, T), LAMBDA u, U :
              Then(Take(it, i + 1, n, cost, U), LAMBDA rest, W : Val(item \o rest, W))))
Unbounded == 1000000

(***************************************************************************)
(* Binding                                                                 *)
(***************************************************************************)
EvalSlice(e, sc, S) ==
    IF e.t # "Slice" THEN Eval(e, sc, S)
    ELSE Then(EvalAll(e.lower, sc, S), LAMBDA lo, T :
         Then(EvalAll(e.upper, sc, T), LAMBDA hi, U :
              Val(SliceOf(IF lo = <<>> THEN None ELSE lo[1], IF hi = <<>> THEN None ELSE hi[1]), U)))
\* A container and a key: the key hashed, and what a slice of it would read charged.
Subscripted(e, sc, S) ==
    Then(Eval(e.e, sc, S), LAMBDA xs, T :
    Then(EvalSlice(e.i, sc, T), LAMBDA i, U :
    Then(ChargeKey(i, U), LAMBDA u, W :
    Then(Tick(SliceCost(xs, i, W), W), LAMBDA w, X : Val(<<xs, i>>, X)))))
InRange(at, S) == at[2].k = "int" /\ at[2].n < Len(Held(at[1], S))
Part(xs, at) == SubSeq(xs, at.first, at.last)
Sliced(v, key, S) ==
    LET at == SliceBounds(key, Len(Held(v, S)) + SizeOf(v))
    IN CASE v.k = "tuple" -> Val(Tup(Part(v.xs, at)), S)
         [] v.k = "str" -> Val(Str(Part(v.t, at)), S)
         [] v.k = "range" -> Val(RangeFrom(v.lo + at.first - 1, at.last + 1 - at.first), S)
         [] IsCell(v, "list", S) -> NewList(Part(Held(v, S), at), S)
         [] OTHER -> Err("bad index", S)
Item(at, S) == CASE IsSlice(at[2]) -> Sliced(at[1], at[2], S)
                 [] InRange(at, S) /\ ~IsSet(at[1], S) -> Val(Held(at[1], S)[at[2].n + 1], S)
                 [] OTHER -> Err("bad index", S)

\* What a native iterates: a set in hash order, anything else as config does.
Drain(v, S) ==
    Then(IF IsSet(v, S) THEN Val(Tup(HashOrder(Els(v, S), S)), S) ELSE Iter(v, S), LAMBDA it, T :
    Then(Take(it, 1, Unbounded, 0, T), LAMBDA xs, U : Val(xs, Worked(Len(xs), U))))

\* list.__setitem__ drains v itself: nothing sorts it and nothing pays for it.
SetSlice(list, key, v, S) ==
    Then(Drain(v, S), LAMBDA xs, T :
        LET old == T.heap[list.a].xs
            at == SliceBounds(key, Len(old))
        IN Val(None, [T EXCEPT !.heap[list.a].xs = SubSeq(old, 1, at.first - 1) \o xs
                                                       \o SubSeq(old, at.last + 1, Len(old)),
                               !.spliced = @ + Len(xs), !.setSpliced = @ \/ IsSet(v, S)]))
SetItem(at, v, S) ==
    CASE ~IsCell(at[1], "list", S) -> Err("bad index", S)
      [] IsSlice(at[2]) -> SetSlice(at[1], at[2], v, S)
      [] InRange(at, S) -> Val(None, [S EXCEPT !.heap[at[1].a].xs[at[2].n + 1] = v])
      [] OTHER -> Err("bad index", S)

IsStar(e) == e.t = "Starred"
Unpack(elts, v, S) ==
    LET count == Len(elts)
        stars == {i \in 1..count : IsStar(elts[i])}
    IN Then(Iter(v, S), LAMBDA it, T :
       CASE stars = {} ->
              Then(Take(it, 1, count + 1, 0, T), LAMBDA xs, U :
                  IF Len(xs) = count THEN Val(xs, U) ELSE Err("wrong number of values", U))
         [] Cardinality(stars) > 1 -> Err("multiple starred", T)
         [] OTHER ->
              Then(Take(it, 1, Unbounded, 1, T), LAMBDA xs, U :
                  LET star == CHOOSE i \in stars : TRUE
                      after == count - star
                  IN IF Len(xs) < count - 1 THEN Err("wrong number of values", U)
                     ELSE Then(NewList(SubSeq(xs, star, Len(xs) - after), U), LAMBDA rest, W :
                          Val(SubSeq(xs, 1, star - 1) \o <<rest>>
                                  \o SubSeq(xs, Len(xs) - after + 1, Len(xs)), W))))

Bind(target, v, sc, S) ==
    CASE target.t = "Name" -> Val(None, SetName(target.id, v, sc, S))
      [] target.t = "Starred" -> Bind(target.e, v, sc, S)
      [] target.t = "Subscript" -> Then(Subscripted(target, sc, S), LAMBDA at, T : SetItem(at, v, T))
      [] target.t \in {"Tuple", "List"} ->
           Then(Unpack(target.es, v, S), LAMBDA xs, T :
               FoldLeft(LAMBDA m, i : Then(m, LAMBDA u, U : Bind(target.es[i], xs[i], sc, U)),
                        Val(None, T), [i \in 1..Len(xs) |-> i]))
      [] OTHER -> Err("cannot assign", S)

(***************************************************************************)
(* Calls of a config function.  kws is a sequence of <<name, value>>.      *)
(***************************************************************************)
BindParams(fn, args, kws, S) ==
    LET n == Len(fn.params)
        required == n - Len(fn.defaults)
        named == {kws[i][1] : i \in 1..Len(kws)}
        taken == {fn.params[i] : i \in {j \in 1..n : j > Len(args)}} \cap named
        Value(i) == CASE i <= Len(args) -> args[i]
                      [] i > Len(args) /\ fn.params[i] \in named ->
                           kws[CHOOSE j \in 1..Len(kws) : kws[j][1] = fn.params[i]][2]
                      [] OTHER -> fn.defaults[i - required]
    IN CASE \E i \in (Len(args) + 1)..required : fn.params[i] \notin named -> Err("missing argument", S)
         [] Len(args) > n -> Err("surplus arguments", S)
         [] named \ taken # {} -> Err("unexpected keyword", S)
         [] OTHER -> Then(NewScope(fn.scope, S), LAMBDA sc, T :
                Val(sc, [T EXCEPT !.scopes[sc].vars =
                    [p \in ToSet(fn.params) |-> Value(CHOOSE i \in 1..n : fn.params[i] = p)]]))

Returned(r) ==
    CASE r.x = "return" -> Val(r.v, r.s)
      [] r.x \in {"break", "continue"} -> Err("stray signal", r.s)
      [] r.x = "val" -> Val(None, r.s)
      [] OTHER -> r
Invoke(fn, args, kws, S) ==
    Then(BindParams(fn, args, kws, S), LAMBDA sc, T :
        IF fn.isDef THEN Returned(ExecAll(fn.body, sc, T)) ELSE Eval(fn.body, sc, T))

MakeClosure(params, defaults, body, isDef, sc, S) ==
    Then(EvalAll(defaults, sc, S), LAMBDA ds, T :
        New([c |-> "fn", params |-> params, defaults |-> ds, body |-> body,
             isDef |-> isDef, scope |-> sc], T))

(***************************************************************************)
(* Calls of native code: priced, and its arguments put in order, first.    *)
(***************************************************************************)
NormalizeArg(v, S) ==
    IF IsSet(v, S) THEN Then(SortedSet(v, S), LAMBDA xs, T : NewList(xs, T)) ELSE Val(v, S)

\* A model's argument: every set in it a list in iteration order.
SetsAsLists(v, S) ==
    LET Lowered(xs, T) == Each(LAMBDA x, U : SetsAsLists(x, U), xs, T)
    IN CASE IsSet(v, S) -> Then(SortedSet(v, S), LAMBDA xs, T :
                           Then(Lowered(xs, T), LAMBDA ys, U : NewList(ys, U)))
         [] IsCell(v, "list", S) -> Then(Lowered(Held(v, S), S), LAMBDA ys, T : NewList(ys, T))
         [] v.k = "tuple" -> Then(Lowered(v.xs, S), LAMBDA ys, T : Val(Tup(ys), T))
         [] OTHER -> Val(v, S)

ReceiverFree == {"append", "add"}
ChargeReceiver(f, S) ==
    IF f.k = "method" /\ IsNested(f.recv, S) /\ f.name \notin ReceiverFree
    THEN Tick(DeepCost(f.recv, Remaining(S), S), S) ELSE Val(None, S)

\* Mutant: a native handed to map or sorted is called without the interpreter.
CallbackAsIs(f, S) == f
\* A native handed to a native that calls it back is called as config would call it.
Callback(f, S) == IF f.k = "none" \/ IsFn(f, S) THEN f ELSE [k |-> "callback", f |-> f]

CallbackSlot(f) ==
    CASE f = NativeFn("map") -> "first"
      [] f \in {NativeFn("sorted"), NativeFn("min")} -> "key"
      [] OTHER -> "none"

NativePrepared(f, args, kws, S) ==
    Then(Tick(NativeCallCost(f, args \o [i \in 1..Len(kws) |-> kws[i][2]], S), S), LAMBDA u, T :
    Then(ChargeReceiver(f, T), LAMBDA w, U :
    LET Calls(xs) == IF CallbackSlot(f) = "first" /\ xs # <<>> THEN [xs EXCEPT ![1] = Callback(@, U)] ELSE xs
        Keys(ks) == IF CallbackSlot(f) = "key"
                    THEN [i \in 1..Len(ks) |-> IF ks[i][1] = "key" THEN <<"key", Callback(ks[i][2], U)>>
                                               ELSE ks[i]]
                    ELSE ks
        popping == f.k \in {"native", "method"} /\ f.name = "pop"
    IN CASE f = NativeFn("str") \/ popping ->
              Val([args |-> args, kws |-> kws], U)
         [] f = NativeFn("Model") ->
              Then(Each(SetsAsLists, args, U), LAMBDA xs, W : Val([args |-> xs, kws |-> kws], W))
         [] OTHER ->
              Then(Each(NormalizeArg, args, U), LAMBDA xs, W :
                  Val([args |-> Calls(xs), kws |-> Keys(kws)], W))))

MakeSet(xs, S) ==
    Then(Each(LAMBDA x, T : ChargeKey(x, T), xs, S), LAMBDA u, T :
        IF \A i \in 1..Len(xs) : Hashable(xs[i], T) THEN NewSet(ToSet(xs), T) ELSE Err("unhashable", T))

SetPop(v, S) ==
    IF ~IsCell(v, "set", S) \/ Els(v, S) = {} THEN Err("cannot pop", S)
    ELSE Then(SortedSet(v, S), LAMBDA xs, T : Val(xs[1], [T EXCEPT !.heap[v.a].els = @ \ {xs[1]}]))

Sorted(xs, kws, S) ==
    Then(IF kws = <<>> THEN Val(xs, S)
         ELSE Each(LAMBDA x, T : CallValue(kws[1][2], <<x>>, T), xs, S), LAMBDA keys, T :
        LET at == [i \in 1..Len(xs) |-> i]
            Less(i, j) == LET a == Repr(keys[i], T)
                              b == Repr(keys[j], T)
                          IN Before(a, b) \/ (a = b /\ i < j)
            kinds == {keys[i].k : i \in DOMAIN keys}
        IN IF Len(xs) > 1 /\ (Cardinality(kinds) > 1 \/ kinds \cap {"obj", "ref", "frozenset"} # {})
           THEN Err("not comparable", T)
           ELSE Val([i \in 1..Len(xs) |-> xs[SortSeq(at, Less)[i]]], T))

\* What a resource keeps of an argument: pydantic makes a list of any set in it.
Published(v, S) ==
    IF IsNested(v, S)
    THEN [k |-> "list", xs |-> [i \in 1..Len(Held(v, S)) |-> Published(Held(v, S)[i], S)]]
    ELSE IF v.k = "ref" THEN [k |-> "other"] ELSE v

\* What f makes of the items it has drained
Collect(f, args, kws, xs, S) ==
    CASE f.name = "list" -> NewList(xs, S)
      [] f.name = "tuple" -> Val(Tup(xs), S)
      [] f.name = "set" -> IF \A i \in 1..Len(xs) : Hashable(xs[i], S) THEN NewSet(ToSet(xs), S)
                           ELSE Err("unhashable", S)
      [] f.name = "map" -> New([c |-> "map", f |-> args[1], xs |-> xs], S)
      [] f.name = "min" /\ xs = <<>> -> Err("empty", S)
      [] OTHER -> Then(Sorted(xs, kws, S), LAMBDA ys, T :
                       IF f.name = "min" THEN Val(ys[1], T) ELSE NewList(ys, T))

NativeResult(f, args, kws, S) ==
    CASE f.k \notin {"native", "method"} \/ (f.k = "native" /\ Len(args) < (IF f.name = "map" THEN 2 ELSE 1)) ->
           Err("bad call", S)
      [] OTHER ->
    CASE f.name \in {"list", "tuple", "set", "sorted", "min", "map"} ->
           Then(Drain(IF f.name = "map" THEN args[2] ELSE args[1], S), LAMBDA xs, T : Collect(f, args, kws, xs, T))
      [] f.name = "len" -> IF IsNested(args[1], S) THEN Val(Num(Len(Held(args[1], S))), S)
                           ELSE Err("no len", S)
      [] f.name = "range" -> IF args[1].k = "int" THEN Val(RangeOf(args[1].n), S)
                             ELSE Err("not an integer", S)
      [] f.name = "str" -> Render(args[1], S)
      [] f.name = "pop" -> SetPop(IF f.k = "method" THEN f.recv ELSE args[1], S)
      [] f.name = "append" ->
           IF Len(args) # 1 THEN Err("bad call", S)
           ELSE Val(None, [S EXCEPT !.heap[f.recv.a].xs = Append(@, args[1])])
      [] f.name = "copy" -> NewList(Held(f.recv, S), Worked(Nodes(f.recv, S), S))
      [] f.name = "Model" ->
           Val(None, [S EXCEPT !.made = Append(@, [i \in 1..Len(args) |-> Published(args[i], S)])])

CallNative(f, args, kws, S) ==
    Then(NativePrepared(f, args, kws, S), LAMBDA p, T : RunNative(f, p.args, p.kws, T))

\* f(*args), as native code calls it
CallFromNative(f, args, S) ==
    CASE IsFn(f, S) -> Invoke(S.heap[f.a], args, <<>>, S)
      [] f.k = "callback" -> CallNative(f.f, args, <<>>, S)
      [] OTHER -> RunNative(f, args, <<>>, S)

(***************************************************************************)
(* Expressions                                                             *)
(***************************************************************************)
\* An unsized iterator is charged by the chunk as it is drained.
ExpandChunks(it, i, out, S) ==
    Then(Take(it, i, i + StarChunk - 1, 0, S), LAMBDA xs, T :
    Then(Tick(Len(xs), Worked(Len(xs), T)), LAMBDA u, U :
        IF Len(xs) < StarChunk THEN Val(out \o xs, U)
        ELSE ExpandChunks(it, i + StarChunk, out \o xs, U)))
\* Mutant: the items of *value are charged for once they are there.
ExpandStarThenCharge(v, out, S) ==
    Then(Iter(v, S), LAMBDA it, T :
    Then(Take(it, 1, Unbounded, 0, T), LAMBDA xs, U :
    Then(Tick(Len(xs), Worked(Len(xs), U)), LAMBDA u, W : Val(out \o xs, W))))
ExpandStar(v, out, S) ==
    IF IsNested(v, S) \/ v.k \in {"str", "range"}
    THEN Then(Tick(Len(Held(v, S)) + SizeOf(v), S), LAMBDA u, T :
         Then(Iter(v, T), LAMBDA it, U :
         Then(Take(it, 1, Unbounded, 0, U), LAMBDA xs, W : Val(out \o xs, Worked(Len(xs), W)))))
    ELSE Then(Iter(v, S), LAMBDA it, T : ExpandChunks(it, 1, out, T))

CallArgs(args, sc, S) ==
    FoldLeft(LAMBDA m, a : Then(m, LAMBDA out, T :
                 IF IsStar(a) THEN Then(Eval(a.e, sc, T), LAMBDA v, U : ExpandStar(v, out, U))
                 ELSE Then(Eval(a, sc, T), LAMBDA v, U : Val(Append(out, v), U))),
             Val(<<>>, S), args)

ExCall(e, sc, S) ==
    Then(Eval(e.func, sc, S), LAMBDA f, T :
    Then(CallArgs(e.args, sc, T), LAMBDA args, U :
    Then(EvalAll([i \in 1..Len(e.kws) |-> e.kws[i][2]], sc, U), LAMBDA vs, W :
        LET kws == [i \in 1..Len(vs) |-> <<e.kws[i][1], vs[i]>>]
        IN IF IsFn(f, W) THEN Invoke(W.heap[f.a], args, kws, W) ELSE CallNative(f, args, kws, W))))

ExFormattedValue(e, sc, S) ==
    Then(Eval(e.e, sc, S), LAMBDA v, T :
        IF e.conversion = "r"
        THEN Then(Render(v, T), LAMBDA text, U : Val(Str(Repr(v, U)), U))
        ELSE Render(v, T))
ExJoinedStr(e, sc, S) ==
    Then(EvalAll(e.es, sc, S), LAMBDA parts, T :
        Val(Str(FlattenSeq([i \in 1..Len(parts) |-> parts[i].t])), T))

ApplyBinop(op, l, r, S) ==
    LET Repeated(xs, n) == FlattenSeq([i \in 1..n |-> xs])
    IN IF TooLarge(op, l, r) THEN Err(Exhausted, S)
       ELSE Then(Tick(BinopCost(op, l, r, S), S), LAMBDA u, T :
            CASE op = "Add" /\ l.k = "int" /\ r.k = "int" -> Val(Num(l.n + r.n), T)
              [] op = "Mult" /\ l.k = "int" /\ r.k = "int" -> Val(Num(l.n * r.n), T)
              [] op = "Add" /\ IsCell(l, "list", T) /\ IsCell(r, "list", T) ->
                   NewList(Held(l, T) \o Held(r, T), T)
              [] op = "Add" /\ l.k = "str" /\ r.k = "str" -> Val(Str(l.t \o r.t), T)
              [] op = "Mult" /\ IsCell(l, "list", T) /\ r.k = "int" ->
                   NewList(Repeated(Held(l, T), r.n), T)
              [] op = "Mod" /\ l.k = "str" ->
                   Then(Render(r, T), LAMBDA text, U : Val(Str(l.t \o text.t), U))
              [] OTHER -> Err("unsupported operands", T))

Bool(b) == Num(IF b THEN 1 ELSE 0)
\* The first operand that decides, or the last.
ExBoolOp(e, sc, S) ==
    Then(FoldLeft(LAMBDA m, operand : Then(m, LAMBDA acc, T :
                      IF acc.decided THEN Val(acc, T)
                      ELSE Then(Eval(operand, sc, T), LAMBDA v, U :
                           Val([decided |-> Truth(v, U) = (e.op = "Or"), v |-> v], U))),
                  Val([decided |-> FALSE, v |-> None], S), e.es),
         LAMBDA acc, T : Val(acc.v, T))

Compares(op, l, r, S) ==
    CASE op = "Eq" -> Whole(l, S) = Whole(r, S)
      [] op = "In" -> \E i \in 1..Len(Held(r, S)) : Whole(Held(r, S)[i], S) = Whole(l, S)
ExCompare(e, sc, S) ==
    Then(Eval(e.l, sc, S), LAMBDA first, T0 :
    Then(FoldLeft(LAMBDA m, i : Then(m, LAMBDA acc, T :
                      IF ~acc.holds THEN Val(acc, T)
                      ELSE Then(Eval(e.es[i], sc, T), LAMBDA r, U :
                           Then(Tick(CompareCost(e.ops[i], acc.l, r, U), U), LAMBDA u, W :
                           Val([holds |-> Compares(e.ops[i], acc.l, r, W), l |-> r], W)))),
                  Val([holds |-> TRUE, l |-> first], T0), [i \in 1..Len(e.es) |-> i]),
         LAMBDA acc, T : Val(Bool(acc.holds), T)))

CompFrom(gens, elt, it, i, sc, S) ==
    LET g == Head(gens)
        Body(inner, T) ==
            IF Len(gens) > 1 THEN RunComp(Tail(gens), elt, inner, T)
            ELSE Then(Eval(elt, inner, T), LAMBDA v, U : Val(<<v>>, U))
        Chosen(inner, T) ==
            FoldLeft(LAMBDA m, c : Then(m, LAMBDA ok, U : IF ~ok THEN Val(FALSE, U)
                                        ELSE Then(Eval(c, inner, U), LAMBDA v, W : Val(Truth(v, W), W))),
                     Val(TRUE, T), g.ifs)
    IN Then(NextItem(it, i, S), LAMBDA item, T :
       IF item = <<>> THEN Val(<<>>, T)
       ELSE Then(Tick(1, T), LAMBDA u, U :
            Then(NewScope(sc, U), LAMBDA inner, W :
            Then(Bind(g.target, item[1], inner, W), LAMBDA w, X :
            Then(Chosen(inner, X), LAMBDA ok, Y :
            Then(IF ok THEN Body(inner, Y) ELSE Val(<<>>, Y), LAMBDA xs, Z :
            Then(CompFrom(gens, elt, it, i + 1, sc, Z), LAMBDA rest, R : Val(xs \o rest, R))))))))
RunComp(gens, elt, sc, S) ==
    Then(Eval(Head(gens).iter, sc, S), LAMBDA v, T :
    Then(Iter(v, T), LAMBDA it, U : CompFrom(gens, elt, it, 1, sc, U)))

Methods == [list |-> {"append", "copy"}, set |-> {"pop"}]
ExAttribute(e, sc, S) ==
    Then(Eval(e.e, sc, S), LAMBDA v, T :
        IF \E c \in DOMAIN Methods : IsCell(v, c, T) /\ e.name \in Methods[c]
        THEN Val([k |-> "method", recv |-> v, name |-> e.name], T) ELSE Err("no such attribute", T))

EvalNode(e, sc, S0) ==
    Then(Tick(1, S0), LAMBDA u, S :
    CASE e.t = "Constant" -> Val(e.v, S)
      [] e.t = "Name" -> Lookup(e.id, sc, S)
      [] e.t = "Call" -> ExCall(e, sc, S)
      [] e.t = "List" -> Then(EvalAll(e.es, sc, S), LAMBDA xs, T : NewList(xs, T))
      [] e.t = "Tuple" -> Then(EvalAll(e.es, sc, S), LAMBDA xs, T : Val(Tup(xs), T))
      [] e.t = "Set" -> Then(EvalAll(e.es, sc, S), LAMBDA xs, T : MakeSet(xs, T))
      [] e.t = "JoinedStr" -> ExJoinedStr(e, sc, S)
      [] e.t = "FormattedValue" -> ExFormattedValue(e, sc, S)
      [] e.t = "BinOp" -> Then(EvalAll(<<e.l, e.r>>, sc, S), LAMBDA xs, T : ApplyBinop(e.op, xs[1], xs[2], T))
      [] e.t = "BoolOp" -> ExBoolOp(e, sc, S)
      [] e.t = "Not" -> Then(Eval(e.e, sc, S), LAMBDA v, T : Val(Bool(~Truth(v, T)), T))
      [] e.t = "Compare" -> ExCompare(e, sc, S)
      [] e.t = "IfExp" -> Then(Eval(e.test, sc, S), LAMBDA v, T :
                               Eval(IF Truth(v, T) THEN e.l ELSE e.r, sc, T))
      [] e.t = "Attribute" -> ExAttribute(e, sc, S)
      [] e.t = "Subscript" -> Then(Subscripted(e, sc, S), LAMBDA at, T : Item(at, T))
      [] e.t = "Lambda" -> MakeClosure(e.params, e.es, e.e, FALSE, sc, S)
      [] e.t = "ListComp" -> Then(RunComp(e.gens, e.elt, sc, S), LAMBDA xs, T : NewList(xs, T))
      [] e.t = "SetComp" -> Then(RunComp(e.gens, e.elt, sc, S), LAMBDA xs, T : MakeSet(xs, T))
      [] OTHER -> Err("cannot evaluate", S))

(***************************************************************************)
(* Statements                                                              *)
(***************************************************************************)
Augmented(st, current, sc, S) ==
    Then(Eval(st.e, sc, S), LAMBDA v, T : ApplyBinop(st.op, current, v, T))
StAugAssign(st, sc, S) ==
    IF st.target.t = "Subscript"
    THEN Then(Subscripted(st.target, sc, S), LAMBDA at, T :
         Then(Item(at, T), LAMBDA current, U :
         Then(Augmented(st, current, sc, U), LAMBDA w, W : SetItem(at, w, W))))
    ELSE Then(Lookup(st.target.id, sc, S), LAMBDA current, T :
         Then(Augmented(st, current, sc, T), LAMBDA w, U : Bind(st.target, w, sc, U)))

\* The loop from its i-th item on.  `break` skips the else, `continue` does not.
Loop(st, it, i, sc, S) ==
    Then(NextItem(it, i, S), LAMBDA item, T :
        IF item = <<>> THEN ExecAll(st.orelse, sc, T)
        ELSE Then(Tick(1, T), LAMBDA u, U :
             Then(Bind(st.target, item[1], sc, U), LAMBDA w, W :
             AfterBody(ExecAll(st.body, sc, W), st, it, i, sc))))
AfterBody(r, st, it, i, sc) ==
    CASE r.x = "break" -> Val(None, r.s)
      [] r.x \in {"val", "continue"} -> Loop(st, it, i + 1, sc, r.s)
      [] OTHER -> r

Log(event, S) == [S EXCEPT !.log = Append(@, event)]
NoError == "no error"

BindAs(item, cm, sc, S) ==
    IF item.target = <<>> THEN Val(None, S) ELSE Bind(item.target[1], Num(cm.id), sc, S)
AfterBind(bound, items, entered, sc) ==
    IF bound.x = "val" THEN EnterAll(Tail(items), entered, sc, bound.s)
    ELSE [m |-> bound, entered |-> entered]
\* Mutant: a manager counts as entered once its target is bound.
AfterEnterOnceBound(opened, items, entered, sc) ==
    IF opened.x = "val" /\ BindAs(Head(items), opened.v, sc, opened.s).x = "val"
    THEN AfterBind(BindAs(Head(items), opened.v, sc, opened.s), items, Append(entered, opened.v), sc)
    ELSE [m |-> IF opened.x = "val" THEN BindAs(Head(items), opened.v, sc, opened.s) ELSE opened,
          entered |-> entered]
\* A manager is entered before its target is bound.
AfterEnter(opened, items, entered, sc) ==
    IF opened.x = "val"
    THEN AfterBind(BindAs(Head(items), opened.v, sc, opened.s), items, Append(entered, opened.v), sc)
    ELSE [m |-> opened, entered |-> entered]
\* Managers enter left to right: how that ended, and the managers then entered.
EnterAll(items, entered, sc, S) ==
    IF items = <<>> THEN [m |-> Val(None, S), entered |-> entered]
    ELSE AfterEnter(Then(Eval(Head(items).e, sc, S), LAMBDA cm, T :
                         CASE cm.k # "manager" -> Err("not a manager", T)
                           [] cm.k = "manager" /\ cm.enter = "raises" ->
                                Err("enter failed", Log(<<"enter failed", cm.id>>, T))
                           [] OTHER -> Val(cm, Log(<<"enter", cm.id>>, T))),
                    items, entered, sc)

\* _exit_managers: the error still active once every one of ms has exited.
ExitManagers(ms, error, S) ==
    FoldLeft(LAMBDA acc, cm :
                 [error |-> CASE cm.exit = "raises" -> "exit failed"
                              [] cm.exit = "suppresses" -> NoError
                              [] OTHER -> acc.error,
                  s |-> Log(<<"exit", cm.id, acc.error>>, acc.s)],
             [error |-> error, s |-> S], Reverse(ms))

\* What the body came to, once the managers have seen it.
AfterExit(body, left) ==
    CASE left.error # NoError -> Err(left.error, left.s)
      [] left.error = NoError /\ body.x = "err" -> Val(None, left.s)   \* suppressed
      [] OTHER -> [body EXCEPT !.s = left.s]   \* a signal is raised again
Leave(body, entered) ==
    AfterExit(body, ExitManagers(entered, IF body.x = "err" THEN body.v ELSE NoError,
                                 Log(<<"left by", body.x>>, body.s)))
Within(r, body, sc) ==
    Leave(IF r.m.x = "val" THEN ExecAll(body, sc, r.m.s) ELSE r.m, r.entered)
StWith(st, sc, S) == Within(EnterAll(st.items, <<>>, sc, S), st.body, sc)

ExecNode(st, sc, S0) ==
    Then(Tick(1, S0), LAMBDA u, S :
    CASE st.t = "Pass" -> Val(None, S)
      [] st.t = "Expr" -> Eval(st.e, sc, S)
      [] st.t = "Assign" -> Then(Eval(st.e, sc, S), LAMBDA v, T : Bind(st.target, v, sc, T))
      [] st.t = "AugAssign" -> StAugAssign(st, sc, S)
      [] st.t = "If" -> Then(Eval(st.e, sc, S), LAMBDA v, T :
                             ExecAll(IF Truth(v, T) THEN st.body ELSE st.orelse, sc, T))
      [] st.t = "For" -> Then(Eval(st.e, sc, S), LAMBDA v, T :
                         Then(Iter(v, T), LAMBDA it, U : Loop(st, it, 1, sc, U)))
      [] st.t = "With" -> StWith(st, sc, S)
      [] st.t \in {"Break", "Continue"} -> Signal(IF st.t = "Break" THEN "break" ELSE "continue", None, S)
      [] st.t = "Return" -> Then(Eval(st.e, sc, S), LAMBDA v, T : Signal("return", v, T))
      [] st.t = "FunctionDef" -> Then(MakeClosure(st.params, st.es, st.body, TRUE, sc, S),
                                      LAMBDA f, T : Val(None, SetName(st.name, f, sc, T)))
      [] OTHER -> Err("cannot execute", S))

Perform(task, S) ==
    CASE task.do = "eval" -> EvalNode(task.node, task.sc, S)
      [] task.do = "exec" -> ExecNode(task.node, task.sc, S)
      [] task.do = "native" -> NativeResult(task.f, task.args, task.kws, S)
      [] task.do = "call" -> CallFromNative(task.f, task.args, S)

(***************************************************************************)
(* validate: what is refused before anything is evaluated                  *)
(***************************************************************************)
AllowedNodes ==
    {"Pass", "Expr", "Assign", "AugAssign", "If", "For", "With", "Break", "Continue", "Return",
     "FunctionDef", "Constant", "Name", "Call", "List", "Tuple", "Set", "JoinedStr", "FormattedValue",
     "BinOp", "BoolOp", "Not", "Compare", "IfExp", "Attribute", "Subscript", "Lambda", "ListComp",
     "SetComp", "Starred", "Slice"}
ForbiddenNames == {"eval", "open", "getattr", "type"}

RECURSIVE ValidExpr(_), ValidAll(_, _, _)
ValidExpr(e) ==
    LET kids == {e[f] : f \in DOMAIN e \cap {"e", "l", "r", "i", "func", "test", "elt"}}
                \cup UNION {ToSet(e[f]) : f \in DOMAIN e \cap {"es", "args", "lower", "upper"}}
                \cup (IF e.t = "Call" THEN {e.kws[i][2] : i \in 1..Len(e.kws)} ELSE {})
                \cup (IF e.t \in {"ListComp", "SetComp"}
                      THEN UNION {{g.iter, g.target} \cup ToSet(g.ifs) : g \in ToSet(e.gens)} ELSE {})
    IN /\ e.t \in AllowedNodes
       /\ e.t = "Name" => e.id \notin ForbiddenNames
       /\ \A kid \in kids : ValidExpr(kid)

\* A def starts outside any loop; the else of a loop is outside it.
ValidDef(st) == ValidAll(st.body, TRUE, FALSE)
ValidFor(st, inFunction, inLoop) ==
    ValidAll(st.body, inFunction, TRUE) /\ ValidAll(st.orelse, inFunction, inLoop)
ValidAll(body, inFunction, inLoop) ==
    \A i \in 1..Len(body) :
        LET st == body[i]
            exprs == {st[f] : f \in DOMAIN st \cap {"e", "target"}}
                     \cup UNION {ToSet(st[f]) : f \in DOMAIN st \cap {"es"}}
        IN /\ st.t \in AllowedNodes
           /\ \A e \in exprs : ValidExpr(e)
           /\ CASE st.t \in {"Break", "Continue"} -> inLoop
                [] st.t = "Return" -> inFunction
                [] st.t = "FunctionDef" -> ValidDef(st)
                [] st.t = "For" -> ValidFor(st, inFunction, inLoop)
                [] st.t = "If" -> ValidAll(st.body, inFunction, inLoop)
                                  /\ ValidAll(st.orelse, inFunction, inLoop)
                [] st.t = "With" -> ValidAll(st.body, inFunction, inLoop)
                                    /\ \A j \in 1..Len(st.items) : ValidExpr(st.items[j].e)
                [] OTHER -> TRUE

(***************************************************************************)
(* Evaluating a source: what comes out is the resources it made, or an     *)
(* error; `x`, the name config assigns its results to, is observed too.    *)
(***************************************************************************)
Natives == {"list", "tuple", "set", "sorted", "min", "len", "range", "map", "str", "pop", "Model"}
Contained(r) == IF r.x \in {"val", "err"} THEN r ELSE Err("stray signal", r.s)
Run(body, fuel, seed) ==
    Contained(ExecAll(body, 1,
        [heap |-> <<>>, scopes |-> <<[vars |-> [n \in Natives |-> NativeFn(n)], parent |-> 0]>>,
         spent |-> 0, work |-> 0, spliced |-> 0, setSpliced |-> FALSE, fuel |-> fuel, seed |-> seed, log |-> <<>>, made |-> <<>>]))

Report(r) ==
    LET names == r.s.scopes[1].vars
        lists == {i \in 1..Len(r.s.heap) : r.s.heap[i].c = "list"}
    IN [error |-> IF r.x = "err" THEN r.v ELSE NoError, left |-> Remaining(r.s), work |-> r.s.work,
        spliced |-> r.s.spliced, setSpliced |-> r.s.setSpliced, log |-> r.s.log, made |-> r.s.made,
        x |-> IF "x" \in DOMAIN names THEN Whole(names["x"], r.s) ELSE None,
        lengths |-> {0} \cup {Len(r.s.heap[i].xs) : i \in lists}]
NoReport == [error |-> "not run", spliced |-> 0, setSpliced |-> FALSE]

Init == prog \in Programs /\ phase = "source" /\ planned = NoReport /\ applied = NoReport

Accept ==
    /\ phase = "source" /\ ValidAll(prog.body, FALSE, FALSE)
    /\ phase' = "valid"
    /\ UNCHANGED <<prog, planned, applied>>

Reject ==
    /\ phase = "source" /\ ~ValidAll(prog.body, FALSE, FALSE)
    /\ phase' = "rejected"
    /\ UNCHANGED <<prog, planned, applied>>

Plan ==
    /\ phase = "valid"
    /\ planned' = Report(Run(prog.body, prog.fuel, 1))
    /\ phase' = "planned"
    /\ UNCHANGED <<prog, applied>>

Apply ==
    /\ phase = "planned"
    /\ applied' = Report(Run(prog.body, prog.fuel, 2))
    /\ phase' = "applied"
    /\ UNCHANGED <<prog, planned>>

Next == Accept \/ Reject \/ Plan \/ Apply

Spec == Init /\ [][Next]_vars

(***************************************************************************)
(* Properties                                                              *)
(***************************************************************************)
\* A config is a function of its inputs: another process, walking its sets in
\* another order and placing its objects elsewhere, makes the same resources,
\* or fails the same way, for the same fuel.  The one exception is a config that
\* stores a set into a slice of a list, which then holds it in hash order.
SameTwice == phase = "applied" => applied = planned
Deterministic == ~planned.setSpliced => SameTwice

\* Fuel is charged before the work it pays for, so evaluation ends having done
\* no more than its budget, whatever a single node asks of native code, and no
\* list outgrows it.  Only a star over an unsized iterator runs a chunk ahead, and
\* what is stored into a slice (`spliced` items) is paid for by nothing.
WithinBudget(free) ==
    phase \in {"planned", "applied"} =>
        /\ planned.work <= prog.fuel + StarChunk + free
        /\ \A n \in planned.lengths : n <= FreeConcat + free \/ n <= OutputRate * (prog.fuel + 1) + free
WithinFuel == WithinBudget(planned.spliced)

\* What costs.py says of every piece of native work: it is priced before it runs.
\* A store into a slice is priced by what the slice reads, not by what it writes.
NativePriced == WithinBudget(0)

\* Every manager entered is left once, and `with a, b:` is `with a:` around
\* `with b:`, whichever of entering, binding, the body and leaving fails.  The one
\* exception: a body left by break, continue or return whose inner manager raises
\* and whose outer one suppresses goes on after the nested form and leaves with
\* the signal from the flat one.
RECURSIVE NestAll(_)
Nested(st) ==
    IF st.t # "With" \/ Len(st.items) = 1
    THEN IF st.t \in {"For", "FunctionDef", "With"} THEN [st EXCEPT !.body = NestAll(@)] ELSE st
    ELSE [st EXCEPT !.items = <<Head(@)>>, !.body = NestAll(<<[st EXCEPT !.items = Tail(@)]>>)]
NestAll(body) == [i \in 1..Len(body) |-> Nested(body[i])]
Observed(report) ==
    [report EXCEPT !.left = 0, !.log = SelectSeq(@, LAMBDA event : event[1] # "left by")]
Regained(log) ==
    \E i, j \in 1..Len(log) : /\ i < j /\ log[i] \in {<<"left by", g>> : g \in {"break", "continue", "return"}}
                              /\ log[j][1] = "exit" /\ log[j][3] = "exit failed"
Count(event, log) == Cardinality({i \in 1..Len(log) : log[i][1] = event})
WithAsNested ==
    phase = "planned" /\ planned.log # <<>> =>
        /\ Count("enter", planned.log) = Count("exit", planned.log)
        /\ ~Regained(planned.log) =>
             Observed(Report(Run(NestAll(prog.body), 2 * prog.fuel, 1))) = Observed(planned)

\* A break, continue or return that validation let through never reaches a loop
\* or a call other than its own.
SignalsStayHome ==
    phase \in {"planned", "applied"} => planned.error \notin {"stray signal", "cannot execute"}
=============================================================================
