------------------------------- MODULE Programs -------------------------------
(* The programs that Language compiles and runs under TLC: each puts an    *)
(* expression where the compiler has to choose registers, jumps and        *)
(* upvalues for it.                                                        *)
EXTENDS Values, Integers, Sequences, TLC

N(x) == <<"name", x>>
Num(n) == <<"num", n>>
Str(s) == <<"str", s>>
Ix(table, key) == <<"index", table, key>>
Of(fn, args) == <<"call", fn, args>>
Do(fn, args) == <<"call", Of(fn, args)>>
Bin(op, x, y) == <<"bin", op, x, y>>
Local(names, es) == <<"local", names, es>>
Set(vs, es) == <<"assign", vs, es>>
Ret(es) == <<"return", es>>
Func(params, body) == <<"function", params, FALSE, body>>
When(cond, body) == <<"if", <<<<cond, body>>>>, <<>>>>
New(items) == <<"table", items>>
Elem(e) == <<"item", e>>
Vararg == <<"...">>

Leaves == {<<"nil">>, Num(2), N("x"), N("a"), N("t"), Of(N("f"), <<N("b")>>)}

Returned(e) == <<Local(<<"c">>, <<e>>), Ret(<<N("c"), N("a"), N("b")>>)>>

Tested(e) == <<When(e, <<Ret(<<e>>)>>), Set(<<N("a")>>, <<e>>), Ret(<<N("a")>>)>>

\* Constructors, and an assignment to a table and to its key at once.
Assigned(e) ==
    <<Set(<<N("t")>>, <<New(<<Elem(e), Elem(Num(5)), Elem(Vararg)>>)>>),
      Local(<<"u">>, <<New(<<<<"rec", Str("k"), e>>, Elem(e)>>)>>),
      Set(<<N("a"), Ix(N("t"), N("a")), N("t"), N("x")>>, <<Str("i"), e>>),
      Ret(<<N("a"), Ix(N("t"), Num(1))>>)>>

\* Closures made in a loop that a break leaves.
LeftByBreak(e) ==
    LET change == Func(<<>>, <<Set(<<N("i")>>, <<Bin("+", N("i"), Num(10))>>), Ret(<<N("i")>>)>>) IN
    <<Set(<<N("t")>>, <<New(<<>>)>>),
      <<"while", Bin("<", N("b"), Num(6)),
        <<Local(<<"i">>, <<N("b")>>), Set(<<N("b")>>, <<Bin("+", N("b"), Num(1))>>),
          Set(<<Ix(N("t"), N("i"))>>, <<change>>),
          When(Bin("and", e, Bin("==", N("b"), Num(5))), <<<<"break">>>>)>>>>,
      Ret(<<Of(Ix(N("t"), Num(3)), <<>>), Of(Ix(N("t"), Num(3)), <<>>), Of(Ix(N("t"), Num(4)), <<>>)>>)>>

\* The condition sees a local of the body that a closure has captured.
Repeated(e) ==
    <<Set(<<N("t")>>, <<New(<<>>)>>),
      <<"repeat", <<Local(<<"i">>, <<N("b")>>), Set(<<N("b")>>, <<Bin("+", N("i"), Num(1))>>),
                    Set(<<Ix(N("t"), N("i"))>>, <<Func(<<>>, <<Ret(<<N("i")>>)>>)>>)>>,
        Bin("or", Bin(">", N("i"), Num(4)), e)>>,
      Ret(<<Of(Ix(N("t"), Num(3)), <<>>), N("b")>>)>>

\* A recursive local function, a tail call, an upvalue of an upvalue.
Nested(e) ==
    LET inner == Func(<<>>, <<Ret(<<Func(<<>>, <<Ret(<<N("i"), N("a")>>)>>)>>)>>) IN
    <<<<"localfunction", "g", Func(<<"n">>,
          <<When(Bin("<=", N("n"), Num(0)), <<Ret(<<N("b"), e>>)>>),
            Ret(<<Of(N("g"), <<Bin("-", N("n"), Num(1))>>)>>)>>)>>,
      <<"fornum", "i", <<Num(1), Num(3), Num(2)>>,
        <<Set(<<N("b")>>, <<inner>>), When(Bin("==", N("i"), e), <<<<"break">>>>)>>>>,
      Ret(<<Of(N("g"), <<Num(2)>>), Of(Of(N("b"), <<>>), <<>>), Of(N("g"), <<Num(0)>>)>>)>>

\* A generic for, the branches of an if, a method call, blocks.
Branched(e) ==
    LET set == Func(<<>>, <<Set(<<N("u")>>, <<Bin("..", Str("p"), e)>>), Ret(<<N("u"), N("v")>>)>>) IN
    <<<<"forin", <<"i">>, <<N("next")>>,
        <<<<"if", <<<<e, <<Do(N("f"), <<N("i")>>)>>>>, <<<<"un", "not", N("i")>>, <<Ret(<<>>)>>>>>>,
            <<Set(<<N("a")>>, <<Num(9)>>)>>>>>>>>,
      <<"do", <<Local(<<"u">>, <<>>), Local(<<"v">>, <<<<"nil">>>>), Set(<<N("a")>>, <<set>>),
                Set(<<N("v")>>, <<N("a")>>)>>>>,
      Local(<<"w">>, <<>>), Do(N("a"), <<>>),
      Ret(<<<<"self", N("t"), "m", <<e, Vararg>>>>, Of(N("a"), <<>>), N("w")>>)>>

ChunksAround(e) ==
    {<<Local(<<"a", "b", "t">>, <<N("x"), Num(3)>>)>> \o body :
        body \in {Returned(e), Tested(e), Assigned(e), LeftByBreak(e), Repeated(e), Nested(e), Branched(e)}}

GlobalTables ==
    {("x" :> v) @@ ("f" :> <<"host", "f">>) @@ ("next" :> <<"host", "next">>) : v \in {NIL, NUM(1)}}
=============================================================================
