---------------------------- MODULE MCInterpreter ----------------------------
(***************************************************************************)
(* The programs Interpreter is checked on, in four families: sets in every *)
(* place that could show their order, work that could outgrow its fuel,    *)
(* context managers that fail in every way, and signals in every place.    *)
(***************************************************************************)
EXTENDS Interpreter

Const(v) == [t |-> "Constant", v |-> v]
N(id) == [t |-> "Name", id |-> id]
CallOf(f, args) == [t |-> "Call", func |-> f, args |-> args, kws |-> <<>>]
Named(f, args, key, v) == [t |-> "Call", func |-> f, args |-> args, kws |-> <<<<key, v>>>>]
ListE(es) == [t |-> "List", es |-> es]
TupleE(es) == [t |-> "Tuple", es |-> es]
SetE(es) == [t |-> "Set", es |-> es]
StarOf(e) == [t |-> "Starred", e |-> e]
Fmt(e, conv) == [t |-> "JoinedStr", es |-> <<[t |-> "FormattedValue", e |-> e, conversion |-> conv]>>]
Bin(op, l, r) == [t |-> "BinOp", op |-> op, l |-> l, r |-> r]
LambdaOf(params, e) == [t |-> "Lambda", params |-> params, es |-> <<>>, e |-> e]
CompOf(kind, elt, gens) == [t |-> kind, elt |-> elt, gens |-> gens]
Gen(name, iter) == [target |-> N(name), iter |-> iter, ifs |-> <<>>]
Attr(e, name) == [t |-> "Attribute", e |-> e, name |-> name]
Cmp(l, op, r) == [t |-> "Compare", l |-> l, ops |-> <<op>>, es |-> <<r>>]

Assign(target, e) == [t |-> "Assign", target |-> target, e |-> e]
Do(e) == [t |-> "Expr", e |-> e]
ForOf(target, e, body, orelse) == [t |-> "For", target |-> target, e |-> e, body |-> body, orelse |-> orelse]
DefOf(name, params, body) ==
    [t |-> "FunctionDef", name |-> name, params |-> params, es |-> <<>>, body |-> body]
NoBound == <<>>
At(n) == <<Const(Num(n))>>
Cut(e, lo, hi) == [t |-> "Subscript", e |-> e, i |-> [t |-> "Slice", lower |-> lo, upper |-> hi]]
IfOf(e, body, orelse) == [t |-> "If", e |-> e, body |-> body, orelse |-> orelse]
Stop(kind) == [t |-> kind]
ReturnOf(e) == [t |-> "Return", e |-> e]

sA == Const(Str(<<31>>))
sB == Const(Str(<<30>>))
X == N("x")
St == N("s")
Id == LambdaOf(<<"y">>, N("y"))

\* Sets of strings, tuples, frozensets and numbers, objects that render alike or
\* not, one holding a function (which has no hash) and one a bound method.
SomeSets ==
    {SetE(<<sA, sB>>), SetE(<<sA>>), SetE(<<TupleE(<<sA>>), TupleE(<<sB>>)>>),
     Const(Frozen({Str(<<30>>), Str(<<31>>)})),
     SetE(<<Const(Frozen({Str(<<30>>), Str(<<31>>)})), Const(Frozen({}))>>),
     SetE(<<Const(Obj(1, <<40>>)), Const(Obj(2, <<41>>))>>),
     SetE(<<Const(Obj(1, <<40>>)), Const(Obj(2, <<40>>))>>),
     SetE(<<Const(Num(1)), sA>>), SetE(<<Id, sA>>), SetE(<<Attr(ListE(<<>>), "append"), sA>>)}

\* An expression that iterates, renders or hands on the set s.
Uses ==
    {CallOf(N(f), <<St>>) : f \in {"list", "tuple", "set", "sorted", "min", "len", "str"}}
    \cup {Named(N(f), <<St>>, "key", k) : f \in {"sorted", "min"}, k \in {N("str"), N("len"), LambdaOf(<<"y">>, sA)}}
    \cup {Fmt(St, c) : c \in {"", "r"}}
    \cup {Fmt(ListE(<<St, sA>>), ""), Bin("Mod", sA, TupleE(<<St>>)), Bin("Mod", sA, St),
          CompOf("ListComp", N("y"), <<Gen("y", St)>>), CompOf("SetComp", N("y"), <<Gen("y", St)>>),
          CompOf("ListComp", N("z"), <<Gen("y", ListE(<<St>>)), Gen("z", N("y"))>>),
          CallOf(LambdaOf(<<"y", "z">>, ListE(<<N("y"), N("z")>>)), <<StarOf(St)>>),
          CallOf(Attr(St, "pop"), <<>>), CallOf(N("pop"), <<St>>),
          ListE(<<CallOf(N("pop"), <<St>>), CallOf(N("list"), <<St>>)>>),
          CallOf(N("list"), <<CallOf(N("map"), <<N("list"), ListE(<<St, St>>)>>)>>),
          CallOf(N("list"), <<CallOf(N("map"), <<N("pop"), ListE(<<St>>)>>)>>),
          CallOf(N("list"), <<CallOf(N("map"), <<N("str"), ListE(<<St, Id>>)>>)>>),
          CallOf(N("list"), <<CallOf(N("map"), <<N("str"), St>>)>>),
          CallOf(N("list"), <<CallOf(N("map"), <<Id, ListE(<<St>>)>>)>>),
          CallOf(N("Model"), <<St>>), CallOf(N("Model"), <<ListE(<<St, TupleE(<<St>>)>>)>>),
          CallOf(N("Model"), <<CallOf(N("list"), <<St>>), Fmt(St, "")>>),
          Cmp(sA, "In", St), Cmp(St, "Eq", SetE(<<sB, sA>>)),
          CallOf(N("str"), <<Id>>), Fmt(CallOf(N("map"), <<N("str"), St>>), "")}

SetPrograms ==
    {[body |-> <<Assign(St, s), Assign(X, u)>>, fuel |-> 60] : s \in SomeSets, u \in Uses}
    \cup {[body |-> <<Assign(St, s), Assign(TupleE(ts), St), Assign(X, ListE(<<N("p"), N("q")>>))>>,
           fuel |-> 60] : s \in SomeSets, ts \in {<<N("p"), N("q")>>, <<N("p"), StarOf(N("q"))>>}}
    \cup {[body |-> <<Assign(St, s), Assign(X, ListE(<<>>)),
                      ForOf(N("y"), St, <<Do(CallOf(Attr(X, "append"), <<N("y")>>))>>, <<>>)>>,
           fuel |-> f] : s \in SomeSets, f \in {20, 60}}
    \cup {[body |-> <<Assign(St, s), Assign(X, ListE(<<sA, sB, sA>>)), Assign(Cut(X, lo, hi), v), Assign(X, read)>>,
           fuel |-> 60] :
             s \in SomeSets, lo \in {NoBound, At(1)}, hi \in {NoBound, At(2), At(9)},
             v \in {St, CallOf(N("list"), <<St>>), X, CallOf(N("map"), <<N("str"), ListE(<<sA, St>>)>>)},
             read \in {X, Cut(X, NoBound, At(2))}}

\* Work whose size is not that of the program.
Big == Const(Num(16))
Ranged == CallOf(N("range"), <<Big>>)
Twice == Assign(X, ListE(<<X, X>>))
Doubled == Assign(X, Bin("Add", X, X))
Grown == ForOf(N("y"), Ranged, <<Twice>>, <<>>)
FuelBodies ==
    {<<Assign(X, CallOf(N("list"), <<Ranged>>))>>,
     <<Assign(X, CallOf(N("sorted"), <<Ranged>>))>>,
     <<Assign(X, CallOf(LambdaOf(<<"y">>, N("y")), <<StarOf(Ranged)>>))>>,
     <<Assign(X, CallOf(LambdaOf(<<"y">>, N("y")), <<StarOf(CallOf(N("map"), <<Id, Ranged>>))>>))>>,
     <<Assign(X, CallOf(N("list"), <<CallOf(N("map"), <<N("str"), Ranged>>)>>))>>,
     <<Assign(TupleE(<<N("p"), N("q")>>), Ranged)>>,
     <<Assign(X, ListE(<<>>)), Assign(Cut(X, At(0), At(0)), CallOf(N("range"), <<Const(Num(28))>>))>>,
     <<Assign(X, ListE(<<sA>>)), ForOf(N("y"), Ranged, <<Assign(Cut(X, At(0), At(0)), X)>>, <<>>)>>,
     <<Assign(X, CallOf(N("list"), <<Ranged>>)),
       ForOf(N("y"), Ranged, <<Assign(N("p"), Cut(X, NoBound, NoBound))>>, <<>>)>>,
     <<Assign(X, Cut(Ranged, At(4), NoBound)), Assign(X, CallOf(N("list"), <<X>>))>>,
     <<Assign(TupleE(<<N("p"), StarOf(N("q"))>>), Ranged)>>,
     <<Assign(X, ListE(<<sA>>)), Grown>>,
     <<Assign(X, ListE(<<sA>>)), Twice, Twice, Twice, Assign(N("p"), CallOf(N("str"), <<X>>))>>,
     <<Assign(X, ListE(<<sA>>)), Twice, Twice, Twice, Assign(N("p"), Fmt(X, "r"))>>,
     <<Assign(X, ListE(<<sA>>)), Twice, Twice, Assign(N("p"), Cmp(X, "Eq", ListE(<<X, X>>)))>>,
     <<Assign(X, ListE(<<sA>>)), Twice, Twice, Assign(N("p"), Cmp(X, "In", ListE(<<X, X, X>>)))>>,
     <<Assign(X, ListE(<<sA, sB>>)), ForOf(N("y"), Ranged, <<Doubled>>, <<>>)>>,
     <<Assign(X, Bin("Mult", ListE(<<sA, sB>>), Big))>>,
     <<Assign(X, Const(Num(3))), ForOf(N("y"), Ranged, <<Assign(X, Bin("Mult", X, X))>>, <<>>)>>,
     <<Assign(X, ListE(<<sA>>)), ForOf(N("y"), X, <<Do(CallOf(Attr(X, "append"), <<N("y")>>))>>, <<>>)>>,
     <<DefOf("f", <<>>, <<ReturnOf(CallOf(N("f"), <<>>))>>), Do(CallOf(N("f"), <<>>))>>,
     <<Assign(X, ListE(<<sA>>)), Twice, Twice, Assign(X, CallOf(Attr(X, "copy"), <<>>))>>,
     <<Assign(X, CompOf("ListComp", N("z"), <<Gen("y", Ranged), Gen("z", Ranged)>>))>>,
     <<Assign(X, CompOf("SetComp", TupleE(<<N("y"), Const(Num(1))>>), <<Gen("y", Ranged)>>))>>}
FuelPrograms == {[body |-> b, fuel |-> f] : b \in FuelBodies, f \in {3, 6, 9, 12, 15, 20}}

\* Context managers: one to three, failing anywhere, their body leaving anyhow.
Item1(id, enter, exit, target) ==
    [e |-> Const(Manager(id, enter, exit)), target |-> target]
SomeItems(id) ==
    {Item1(id, n, x, t) : n \in {"ok", "raises"}, x \in {"falsy", "suppresses", "raises"},
                          t \in {<<>>, <<N("x")>>, <<TupleE(<<N("x")>>)>>}}
PlainItems(id) == {Item1(id, "ok", x, <<>>) : x \in {"falsy", "suppresses", "raises"}}
Leaving == {Stop("Pass"), Do(N("nowhere")), Stop("Break"), Stop("Continue"), ReturnOf(sA)}
WithOf(items, last) == [t |-> "With", items |-> items, body |-> <<Assign(X, sB), last>>]
InLoop(st) == <<ForOf(N("y"), TupleE(<<sA, sB>>), <<st>>, <<Assign(N("z"), X)>>)>>
Called(body) == <<DefOf("f", <<>>, body \o <<ReturnOf(X)>>), Assign(X, CallOf(N("f"), <<>>))>>
WithBodies ==
    {WithOf(<<i, j>>, l) : i \in SomeItems(1), j \in SomeItems(2), l \in Leaving}
    \cup {WithOf(<<i, j, k>>, l) : i \in PlainItems(1), j \in PlainItems(2), k \in PlainItems(3), l \in Leaving}
WithPrograms == {[body |-> Called(InLoop(w)), fuel |-> 100] : w \in WithBodies}

\* Signals at every depth of functions, loops and branches.
Jumps == {Stop("Break"), Stop("Continue"), ReturnOf(sA), Stop("Pass"), Do(CallOf(N("f"), <<>>))}
Around(st) ==
    {ForOf(N("y"), TupleE(<<sA, sB>>), <<st>>, <<>>), ForOf(N("y"), TupleE(<<>>), <<Stop("Pass")>>, <<st>>),
     DefOf("f", <<>>, <<st>>), IfOf(Const(Num(1)), <<st>>, <<>>), IfOf(Const(Num(0)), <<>>, <<st>>)}
Deep1 == UNION {Around(j) : j \in Jumps}
Deep2 == UNION {Around(j) : j \in Deep1}
Deep3 == UNION {Around(j) : j \in Deep2}
SignalPrograms ==
    {[body |-> <<DefOf("f", <<>>, <<a>>), b>>, fuel |-> 20] : a \in Jumps \cup Deep1, b \in Jumps \cup Deep1 \cup Deep2}
    \cup {[body |-> <<j, Do(CallOf(N("f"), <<>>))>>, fuel |-> 20] : j \in Deep3}

MCPrograms == SetPrograms \cup FuelPrograms \cup WithPrograms \cup SignalPrograms
=============================================================================
