---------------------------- MODULE InterpValues ----------------------------
(***************************************************************************)
(* The values a configuration computes with, their text, their order and   *)
(* what native work on them costs: atlantide/lang/interp/scope.py,         *)
(* stability.py and costs.py.                                              *)
(*                                                                         *)
(* A value is a record whose field k says what it is.  Lists, sets and     *)
(* functions are cells of a heap and a value refers to them by address, so *)
(* that two names can share one.  A text is a sequence of numbers standing *)
(* for its characters.  S is the state of the evaluator: heap, scopes,     *)
(* fuel and what has been spent of it, `work` (what natives have done),    *)
(* `spliced` (the items slice stores drained) and whether one was a set,   *)
(* the hash seed of the process, the log of what context managers saw and  *)
(* the resources made.                                                     *)
(***************************************************************************)
EXTENDS Integers, Sequences, FiniteSets, TLC, SequencesExt

CONSTANTS
    FreeConcat,  \* costs.py _FREE_CONCAT: a concatenation this long is free
    OutputRate,  \* costs.py _OUTPUT_RATE: elements of output one step pays for
    FirstBound,  \* costs.py: where the doubling walk of a comparison starts
    StarChunk,   \* expressions.py _STAR_CHUNK: items expanded between charges
    MaxIntBits   \* costs.py MAX_INT_BITS

ASSUME CostAssumption ==
    /\ {FreeConcat, OutputRate, FirstBound, StarChunk, MaxIntBits} \subseteq Nat \ {0}

Num(n) == [k |-> "int", n |-> n]
Str(t) == [k |-> "str", t |-> t]
None == [k |-> "none"]
Tup(xs) == [k |-> "tuple", xs |-> xs]
Frozen(els) == [k |-> "frozenset", els |-> els]
RangeFrom(lo, n) == [k |-> "range", lo |-> lo, n |-> n]
RangeOf(n) == RangeFrom(0, n)
SliceOf(lo, hi) == [k |-> "slice", lo |-> lo, hi |-> hi]   \* numbers or None; no step
NativeFn(name) == [k |-> "native", name |-> name]
Obj(id, t) == [k |-> "obj", id |-> id, t |-> t]   \* its repr is t, whatever its id
Manager(id, enter, exit) == [k |-> "manager", id |-> id, enter |-> enter, exit |-> exit]

(***************************************************************************)
(* What a step of evaluation comes to: a value, an error, or one of the    *)
(* signals that unwind control flow (scope.py Signal).                     *)
(***************************************************************************)
Val(v, S) == [x |-> "val", v |-> v, s |-> S]
Err(e, S) == [x |-> "err", v |-> e, s |-> S]
Signal(g, v, S) == [x |-> g, v |-> v, s |-> S]
Then(m, K(_, _)) == IF m.x = "val" THEN K(m.v, m.s) ELSE m

Exhausted == "fuel exhausted"
Tick(cost, S) ==
    LET T == [S EXCEPT !.spent = @ + cost]
    IN IF T.spent > T.fuel THEN Err(Exhausted, T) ELSE Val(None, T)
Remaining(S) == IF S.spent < S.fuel THEN S.fuel - S.spent ELSE 0
Worked(n, S) == [S EXCEPT !.work = @ + n]

New(cell, S) == Val([k |-> "ref", a |-> Len(S.heap) + 1], [S EXCEPT !.heap = Append(@, cell)])
NewList(xs, S) == New([c |-> "list", xs |-> xs], S)
NewSet(els, S) == New([c |-> "set", els |-> els], S)
IsCell(v, c, S) == v.k = "ref" /\ S.heap[v.a].c = c
IsFn(v, S) == IsCell(v, "fn", S)
IsSet(v, S) == v.k = "frozenset" \/ IsCell(v, "set", S)
Els(v, S) == IF v.k = "frozenset" THEN v.els ELSE S.heap[v.a].els

\* A scope is a record of the scopes sequence: its names and its parent's index.
NewScope(parent, S) ==
    Val(Len(S.scopes) + 1, [S EXCEPT !.scopes = Append(@, [vars |-> <<>>, parent |-> parent])])
SetName(name, v, sc, S) == [S EXCEPT !.scopes[sc].vars = (name :> v) @@ @]
RECURSIVE Lookup(_, _, _)
Lookup(name, sc, S) ==
    CASE sc = 0 -> Err("undefined name", S)
      [] sc # 0 /\ name \in DOMAIN S.scopes[sc].vars -> Val(S.scopes[sc].vars[name], S)
      [] OTHER -> Lookup(name, S.scopes[sc].parent, S)

(***************************************************************************)
(* The order in which this process walks a set: any, and another one in    *)
(* the next process (PYTHONHASHSEED, or where its objects lie).            *)
(***************************************************************************)
Placed(q, seed) == IF seed = 1 THEN q ELSE Reverse(q)
HashOrder(els, S) == Placed(FoldSet(LAMBDA v, acc : Append(acc, v), <<>>, els), S.seed)

IsNested(v, S) == v.k \in {"tuple", "frozenset"} \/ IsCell(v, "list", S) \/ IsCell(v, "set", S)
Held(v, S) ==
    CASE v.k = "tuple" -> v.xs
      [] IsCell(v, "list", S) -> S.heap[v.a].xs
      [] IsSet(v, S) -> HashOrder(Els(v, S), S)
      [] OTHER -> <<>>
SizeOf(v) == CASE v.k = "str" -> Len(v.t) [] v.k = "range" -> v.n [] OTHER -> 0

\* A config function is a dataclass that compares by value and so has no hash.
RECURSIVE Hashable(_, _)
Hashable(v, S) ==
    CASE v.k = "ref" -> IsCell(v, "map", S)
      [] v.k = "tuple" -> \A i \in 1..Len(v.xs) : Hashable(v.xs[i], S)
      [] OTHER -> TRUE

RECURSIVE HasAddress(_, _)
HasAddress(v, S) ==
    \/ v.k = "ref" /\ ~IsNested(v, S)
    \/ v.k \in {"method", "manager", "callback"}
    \/ \E i \in 1..Len(Held(v, S)) : HasAddress(Held(v, S)[i], S)

Before(s, t) ==
    \/ Len(s) < Len(t) /\ SubSeq(t, 1, Len(s)) = s
    \/ \E i \in 1..Len(s) : /\ i <= Len(t) /\ s[i] < t[i]
                            /\ SubSeq(s, 1, i - 1) = SubSeq(t, 1, i - 1)

\* The texts of a set's elements, in the order in which the set is written.
Arranged(texts, S) == SortSeq(texts, Before)

RECURSIVE Repr(_, _)
ReprOf(v, texts, S) ==
    CASE v.k = "int" -> <<20 + v.n>>
      [] v.k = "str" -> <<10>> \o v.t \o <<10>>
      [] v.k = "obj" -> v.t
      [] v.k = "tuple" -> <<1>> \o FlattenSeq(texts) \o <<2>>
      [] IsCell(v, "list", S) -> <<3>> \o FlattenSeq(texts) \o <<4>>
      [] IsSet(v, S) -> <<5>> \o FlattenSeq(Arranged(texts, S)) \o <<6>>
      [] OTHER -> <<7>>
Repr(v, S) == ReprOf(v, [i \in 1..Len(Held(v, S)) |-> Repr(Held(v, S)[i], S)], S)
TextOf(v, S) == IF v.k = "str" THEN v.t ELSE Repr(v, S)

(***************************************************************************)
(* costs.py.  A walk over a value visits what it holds once per reference, *)
(* and counting stops once past the fuel that is left.                     *)
(***************************************************************************)
RECURSIVE Walk(_, _, _, _)
Walk(stack, total, limit, S) ==
    IF stack = <<>> \/ total > limit THEN total
    ELSE LET v == Last(stack)
             t == total + 1 + (IF IsNested(v, S) THEN Len(Held(v, S))
                               ELSE IF v.k = "range" THEN v.n ELSE 0)
         IN Walk(Front(stack) \o (IF t <= limit THEN Held(v, S) ELSE <<>>), t, limit, S)
DeepCost(v, limit, S) == IF IsNested(v, S) THEN Walk(<<v>>, 0, limit, S) ELSE 1 + SizeOf(v)
Nodes(v, S) == DeepCost(v, 1000000, S)

ChargeDeep(v, S) ==
    IF IsNested(v, S) THEN Tick(DeepCost(v, Remaining(S), S), S) ELSE Val(None, S)
ChargeKey(v, S) == IF v.k \in {"tuple", "frozenset"} THEN ChargeDeep(v, S) ELSE Val(None, S)

ConstantTime(f, S) ==
    \/ f = NativeFn("len")
    \/ f.k = "method" /\ IsCell(f.recv, "list", S) /\ f.name = "append"
NativeCallCost(f, args, S) ==
    IF ConstantTime(f, S) THEN Len(args)
    ELSE FoldLeft(LAMBDA total, v : IF total > Remaining(S) THEN total
                                    ELSE total + DeepCost(v, Remaining(S) - total, S),
                  0, args)

BinopCost(op, l, r, S) ==
    LET L == Len(Held(l, S)) + SizeOf(l)
        R == Len(Held(r, S)) + SizeOf(r)
    IN CASE op = "Mult" /\ r.k = "int" -> L * r.n
         [] op = "Add" /\ L + R > FreeConcat -> (L + R) \div OutputRate
         [] OTHER -> 0
\* A slice as the items from the first to the last of n that it names.
SliceBounds(key, n) ==
    LET Clamped(b, default) == IF b = None THEN default ELSE IF b.n < n THEN b.n ELSE n
        first == Clamped(key.lo, 0) + 1
        last == Clamped(key.hi, n)
    IN [first |-> first, last |-> IF last < first THEN first - 1 ELSE last]
IsSlice(key) == key.k = "slice" /\ {key.lo.k, key.hi.k} \subseteq {"int", "none"}
\* What is read is paid for; a text is copied at a rate that rounds to nothing here.
SliceCost(container, key, S) ==
    IF IsSlice(key) /\ (container.k = "tuple" \/ IsCell(container, "list", S))
    THEN LET at == SliceBounds(key, Len(Held(container, S)))
         IN (at.last + 1 - at.first) \div OutputRate
    ELSE 0
Bits(n) == CHOOSE b \in 0..31 : n < 2^b /\ (b = 0 \/ n >= 2^(b - 1))
TooLarge(op, l, r) ==   \* from a bound on the result's bits, without computing it
    /\ l.k = "int" /\ r.k = "int"
    /\ \/ op = "Mult" /\ Bits(l.n) + Bits(r.n) > MaxIntBits
       \/ op = "Add" /\ (Bits(l.n) >= MaxIntBits \/ Bits(r.n) >= MaxIntBits)

\* min of the two walks, walking about as far as the smaller
RECURSIVE SmallerDeepCost(_, _, _, _, _)
SmallerDeepCost(l, r, bound, limit, S) ==
    LET a == DeepCost(l, bound, S)
        b == DeepCost(r, bound, S)
    IN IF a <= bound \/ b <= bound \/ bound > limit THEN IF a < b THEN a ELSE b
       ELSE SmallerDeepCost(l, r, 2 * bound, limit, S)
CompareCost(op, l, r, S) ==
    LET limit == Remaining(S)
        each == Len(Held(r, S)) * DeepCost(l, limit, S)
    IN CASE op = "In" /\ IsSet(r, S) -> DeepCost(l, limit, S)
         [] op = "In" /\ ~IsSet(r, S) -> IF each < limit + 1 THEN each ELSE limit + 1
         [] op = "Eq" /\ IsNested(l, S) /\ IsNested(r, S) -> SmallerDeepCost(l, r, FirstBound, limit, S)
         [] OTHER -> 0

(***************************************************************************)
(* A set's elements in the order they render in, for whatever iterates it. *)
(***************************************************************************)
SortedSet(v, S) ==
    Then(ChargeDeep(v, S), LAMBDA u, T :
        LET els == Els(v, T)
        IN CASE \E a \in els : HasAddress(a, T) -> Err("cannot render", T)
             [] \E a, b \in els : a # b /\ Repr(a, T) = Repr(b, T) -> Err("render alike", T)
             [] OTHER -> Val(SortSeq(HashOrder(els, T), LAMBDA a, b : Before(Repr(a, T), Repr(b, T))),
                             Worked(Nodes(v, T), T)))

\* _render: what str(), an f-string and a printf-style % make of a value
Render(v, S) ==
    Then(ChargeDeep(v, S), LAMBDA u, T :
        IF HasAddress(v, T) THEN Err("cannot render", T)
        ELSE Val(Str(TextOf(v, T)), IF IsNested(v, T) THEN Worked(Nodes(v, T), T) ELSE T))

Truth(v, S) ==
    CASE v.k = "none" -> FALSE
      [] v.k \in {"int", "range"} -> v.n # 0
      [] v.k = "str" -> v.t # <<>>
      [] IsNested(v, S) -> Held(v, S) # <<>>
      [] OTHER -> TRUE

\* A value with every reference into the heap followed, as `==` sees it.
RECURSIVE Whole(_, _)
WholeOf(v, xs, S) ==
    CASE v.k = "tuple" -> Tup(xs)
      [] IsCell(v, "list", S) -> [k |-> "list", xs |-> xs]
      [] IsSet(v, S) -> Frozen(ToSet(xs))
      [] v.k = "ref" /\ ~IsNested(v, S) -> [k |-> "other"]
      [] OTHER -> v
Whole(v, S) == WholeOf(v, [i \in 1..Len(Held(v, S)) |-> Whole(Held(v, S)[i], S)], S)
=============================================================================
