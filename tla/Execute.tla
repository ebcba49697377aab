------------------------------- MODULE Execute -------------------------------
(* The instructions of lvm.c as luaV_execute runs them, on the code that   *)
(* Parser makes, with the upvalues of lfunc.c.                             *)
(* A machine m has the prototype that is loaded (object), frames, upvalues *)
(* that are open on a register of a frame or closed, closures, and the     *)
(* world w.                                                                *)
EXTENDS Parser

CONSTANT MAXREG         \* bound: the registers of a frame

\* A closure names its prototype by the way down from the loaded one.
RECURSIVE ProtoAt(_, _)
ProtoAt(p, path) == IF path = <<>> THEN p ELSE ProtoAt(p.p[Head(path)], Tail(path))

Frame(cl, args, np, a, nresults) ==
    [cl |-> cl, pc |-> 1, R |-> [i \in 0 .. MAXREG |-> IF i < np /\ i < Len(args) THEN args[i + 1] ELSE NIL],
     varargs |-> SubSeq(args, np + 1, Len(args)), a |-> a, nresults |-> nresults, top |-> 0]

Depth(m) == Len(m.stack)
Cur(m) == Last(m.stack)
ClosureOf(m) == m.closures[Cur(m).cl]
ProtoOf(m, cl) == ProtoAt(m.object, cl.path)
Code(m) == ProtoOf(m, ClosureOf(m)).code
Reg(m, r) == Cur(m).R[r]
Put(m, r, v) == [m EXCEPT !.stack[Depth(m)].R[r] = v]
GoTo(m, p) == [m EXCEPT !.stack[Depth(m)].pc = p]
RKValue(m, x) == IF ISK(x) THEN ProtoOf(m, ClosureOf(m)).k[INDEXK(x) + 1] ELSE Reg(m, x)
Kst(m, i) == ProtoOf(m, ClosureOf(m)).k[i + 1]
PutAnswer(m, r, ans) == Put([m EXCEPT !.w = ans.w], r, ans.v)

GetUp(m, u) == LET v == m.upvals[u] IN IF v.open THEN m.stack[v.frame].R[v.reg] ELSE v.val
SetUp(m, u, x) == LET v == m.upvals[u] IN
                  IF v.open THEN [m EXCEPT !.stack[v.frame].R[v.reg] = x]
                  ELSE [m EXCEPT !.upvals[u].val = x]

\* luaF_findupval: an open upvalue is shared.
OpenOn(m, r) == {u \in DOMAIN m.upvals : /\ m.upvals[u].open
                                         /\ m.upvals[u].frame = Depth(m) /\ m.upvals[u].reg = r}
FindUpval(m, r) ==
    IF OpenOn(m, r) # {} THEN m
    ELSE [m EXCEPT !.upvals = Append(@, [open |-> TRUE, frame |-> Depth(m), reg |-> r, val |-> NIL])]

luaF_close(m, level) ==
    LET Closed(v) == IF v.open /\ v.frame = Depth(m) /\ v.reg >= level
                     THEN [v EXCEPT !.open = FALSE, !.val = Reg(m, v.reg)] ELSE v
    IN  [m EXCEPT !.upvals = [u \in DOMAIN @ |-> Closed(@[u])]]

\* Results arrive in registers a, a + 1, ...: as many as wanted, or up to top.
Arrive(m, a, vs, nresults) ==
    LET n == IF nresults = LUA_MULTRET THEN Len(vs) ELSE nresults IN
    [m EXCEPT !.stack[Depth(m)].R = [i \in DOMAIN @ |-> IF a <= i /\ i < a + n THEN Take(vs, n)[i - a + 1]
                                                        ELSE @[i]],
              !.stack[Depth(m)].top = IF nresults = LUA_MULTRET THEN a + n ELSE @]

\* The values in registers first, first + 1, ...: n of them, or up to top.
Window(m, first, n) == LET last == IF n = LUA_MULTRET THEN Cur(m).top - 1 ELSE first + n - 1
                       IN  [i \in 1 .. last - first + 1 |-> Reg(m, first + i - 1)]

\* luaD_precall: a Lua function gets a frame, any other value runs at once.
Precall(m, f, args, a, nresults) ==
    LET h == HostCall(m.w, f, args)
        cl == m.closures[f[2]]
    IN  IF f[1] = "function"
        THEN [m EXCEPT !.stack = Append(@, Frame(f[2], args, ProtoOf(m, cl).numparams, a, nresults))]
        ELSE Arrive([m EXCEPT !.w = h.w], a, h.vs, nresults)

Return(m, vs) ==
    LET g == luaF_close(m, 0)
        f == Cur(m)
    IN  IF Depth(m) = 1 THEN [g EXCEPT !.stack = <<>>, !.ret = vs]
        ELSE Arrive([g EXCEPT !.stack = Front(@)], f.a, vs, f.nresults)

TailCall(m, f, args, a) ==
    IF f[1] # "function" THEN Precall(m, f, args, a, LUA_MULTRET)
    ELSE [luaF_close(m, 0) EXCEPT !.stack[Depth(m)] =
             Frame(f[2], args, ProtoOf(m, m.closures[f[2]]).numparams, Cur(m).a, Cur(m).nresults)]

\* Right to left, in place.
RECURSIVE ConcatOf(_, _, _, _)
ConcatOf(m, b, c, acc) ==
    IF c < b THEN [m EXCEPT !.w = acc.w, !.stack[Depth(m)].R[b] = acc.v]
    ELSE LET r == Arith(acc.w, "CONCAT", Reg(m, c), acc.v)
         IN  ConcatOf(IF c > b THEN Put(m, c, r.v) ELSE m, b, c - 1, r)

\* One closure for OP_CLOSURE and the pseudo-instructions that follow it.
MakeClosure(m, b, at) ==
    LET path == Append(ClosureOf(m).path, b + 1)
        n == Len(ProtoAt(m.object, path).upvalues)
        word(j) == Code(m)[at + j]
        Open(g, j) == IF word(j).op = "GETUPVAL" THEN g ELSE FindUpval(g, word(j).b)
        g == FoldLeft(Open, m, [j \in 1 .. n |-> j])
        ups == [j \in 1 .. n |-> IF word(j).op = "GETUPVAL" THEN ClosureOf(m).upvals[word(j).b + 1]
                                 ELSE CHOOSE u \in OpenOn(g, word(j).b) : TRUE]
    IN  GoTo([g EXCEPT !.closures = Append(@, [path |-> path, upvals |-> ups])], at + n + 1)

\* The number of a flush too large for C is the next word.
CountOf(i) == (CHOOSE n \in DOMAIN OpNames : OpNames[n] = i.op) - 1 + 64 * i.a + 2^23 * i.b

SetList(m, i, word) ==
    LET vs == Window(m, i.a + 1, IF i.b = 0 THEN LUA_MULTRET ELSE i.b)
        from == ((IF i.c = 0 THEN CountOf(word) ELSE i.c) - 1) * LFIELDS_PER_FLUSH
    IN  [m EXCEPT !.w = FoldLeft(LAMBDA w, n : SetIndex(w, Reg(m, i.a), NUM(from + n), vs[n]), @,
                                 [n \in DOMAIN vs |-> n])]

Ins(m) == Code(m)[Cur(m).pc]
After(m) == GoTo(m, Cur(m).pc + 1)
\* A test that goes as its instruction asks takes the jump behind it.
Branch(m, taken) == GoTo(m, IF taken THEN Code(m)[Cur(m).pc + 1].jump ELSE Cur(m).pc + 2)
ArgCount(b) == IF b = 0 THEN LUA_MULTRET ELSE b - 1

Load(m, op, a, b, c) ==
    LET n == After(m)
        up == ClosureOf(m).upvals[b + 1]
    IN  CASE op = "MOVE" -> Put(n, a, Reg(m, b))
          [] op = "LOADK" -> Put(n, a, Kst(m, b))
          [] op = "LOADBOOL" -> Put(IF c # 0 THEN After(n) ELSE n, a, BOOL(b # 0))
          [] op = "LOADNIL" ->
               [n EXCEPT !.stack[Depth(m)].R = [r \in DOMAIN @ |-> IF r = b \/ (a <= r /\ r <= b)
                                                                   THEN NIL ELSE @[r]]]
          [] op = "GETUPVAL" -> Put(n, a, GetUp(m, up))
          [] op = "SETUPVAL" -> SetUp(n, up, Reg(m, a))
          [] op = "GETGLOBAL" -> Put(n, a, GlobalOf(m.w, Kst(m, b)[2]))
          [] op = "SETGLOBAL" -> [n EXCEPT !.w.globals = (Kst(m, b)[2] :> Reg(m, a)) @@ @]

TableOp(m, op, a, b, c) ==
    LET n == After(m)
        got == Index(m.w, Reg(m, b), RKValue(m, c))
    IN  CASE op = "GETTABLE" -> PutAnswer(n, a, got)
          [] op = "SETTABLE" -> [n EXCEPT !.w = SetIndex(@, Reg(m, a), RKValue(m, b), RKValue(m, c))]
          [] op = "NEWTABLE" -> PutAnswer(n, a, NewTable(m.w))
          [] op = "SELF" -> PutAnswer(Put(n, a + 1, Reg(m, b)), a, got)

Operate(m, op, a, b, c) ==
    LET n == After(m)
        cat == ConcatOf(n, b, c - 1, Answer(m.w, Reg(m, c)))
    IN  CASE op \in {"ADD", "SUB", "MUL", "MOD"} ->
               PutAnswer(n, a, Arith(m.w, op, RKValue(m, b), RKValue(m, c)))
          [] op = "UNM" -> PutAnswer(n, a, Arith(m.w, "UNM", Reg(m, b), Reg(m, b)))
          [] op = "LEN" -> PutAnswer(n, a, Metamethod(m.w, "LEN", Reg(m, b), NIL))
          [] op = "NOT" -> Put(n, a, BOOL(IsFalse(Reg(m, b))))
          [] op = "CONCAT" -> Put(cat, a, Reg(cat, b))

Test(m, op, a, b, c) ==
    LET cmp == Compare(m.w, op, RKValue(m, b), RKValue(m, c))
        asked(v) == IsFalse(v) # (c = 1)
    IN  CASE op = "JMP" -> GoTo(m, Ins(m).jump)
          [] op = "EQ" -> Branch(m, (RKValue(m, b) = RKValue(m, c)) = (a = 1))
          [] op \in {"LT", "LE"} -> Branch([m EXCEPT !.w = cmp.w], cmp.v = (a = 1))
          [] op = "TEST" -> Branch(m, asked(Reg(m, a)))
          [] op = "TESTSET" -> Branch(IF asked(Reg(m, b)) THEN Put(m, a, Reg(m, b)) ELSE m, asked(Reg(m, b)))

\* OP_TFORLOOP waits for the results of its call, in a frame or not.
Invoke(m, op, a, b, c) ==
    LET n == After(m)
        f == Reg(m, a)
        args == Window(m, a + 1, ArgCount(b))
    IN  CASE op = "CALL" -> Precall(n, f, args, a, c - 1)
          [] op = "TAILCALL" -> TailCall(n, f, args, a)
          [] op = "RETURN" -> Return(m, Window(m, a, ArgCount(b)))
          [] op = "TFORLOOP" -> Precall(n, f, <<Reg(m, a + 1), Reg(m, a + 2)>>, a + 3, c)
          [] op = "VARARG" -> Arrive(n, a, Cur(m).varargs, b - 1)

ForLoop(m, op, a) ==
    LET step == Reg(m, a + 2)[2]
        limit == Reg(m, a + 1)[2]
        next == Reg(m, a)[2] + step
        more == IF step > 0 THEN next <= limit ELSE limit <= next
    IN  CASE op = "FORPREP" -> GoTo(Put(m, a, NUM(Reg(m, a)[2] - step)), Ins(m).jump)
          [] op = "FORLOOP" -> IF more THEN GoTo(Put(Put(m, a, NUM(next)), a + 3, NUM(next)), Ins(m).jump)
                               ELSE After(m)

Step(m) ==
    LET i == Ins(m) IN
    CASE i.op \in {"MOVE", "LOADK", "LOADBOOL", "LOADNIL", "GETUPVAL", "SETUPVAL",
                   "GETGLOBAL", "SETGLOBAL"} -> Load(m, i.op, i.a, i.b, i.c)
      [] i.op \in {"GETTABLE", "SETTABLE", "NEWTABLE", "SELF"} -> TableOp(m, i.op, i.a, i.b, i.c)
      [] i.op \in {"ADD", "SUB", "MUL", "MOD", "UNM", "NOT", "LEN", "CONCAT"} ->
           Operate(m, i.op, i.a, i.b, i.c)
      [] i.op \in {"JMP", "EQ", "LT", "LE", "TEST", "TESTSET"} -> Test(m, i.op, i.a, i.b, i.c)
      [] i.op \in {"CALL", "TAILCALL", "RETURN", "TFORLOOP", "VARARG"} -> Invoke(m, i.op, i.a, i.b, i.c)
      [] i.op \in {"FORPREP", "FORLOOP"} -> ForLoop(m, i.op, i.a)
      [] i.op = "SETLIST" -> SetList(GoTo(m, Cur(m).pc + IF i.c = 0 THEN 2 ELSE 1), i, Code(m)[Cur(m).pc + 1])
      [] i.op = "CLOSE" -> luaF_close(After(m), i.a)
      [] i.op = "CLOSURE" -> Put(MakeClosure(m, i.b, Cur(m).pc),
                                 i.a, <<"function", Len(m.closures) + 1>>)

\* The half of OP_TFORLOOP behind its call, before the jump that follows it.
AfterGenerator(m) ==
    LET p == Cur(m).pc
        i == Code(m)[p - 1]
    IN  IF Reg(m, i.a + 3) = NIL THEN GoTo(m, p + 1)
        ELSE GoTo(Put(m, i.a + 2, Reg(m, i.a + 3)), Code(m)[p].jump)

Waiting(m) == Cur(m).pc > 1 /\ Code(m)[Cur(m).pc - 1].op = "TFORLOOP"

Idle(m) == m.stack = <<>>

\* A step of luaV_execute.
Continue(m) == IF Waiting(m) THEN AfterGenerator(m) ELSE Step(m)

\* luaV_execute, until it returns or for n instructions.
RECURSIVE Run(_, _)
Run(m, n) == IF Idle(m) \/ n = 0 THEN m ELSE Given(Continue(m), LAMBDA next : Run(next, n - 1))

\* A call of the loaded chunk.
Machine(object, globals, args) ==
    [object |-> object, stack |-> <<Frame(1, args, 0, 0, LUA_MULTRET)>>, upvals |-> <<>>, ret |-> <<>>,
     closures |-> <<[path |-> <<>>, upvals |-> <<>>]>>,
     w |-> [tables |-> <<>>, globals |-> globals, log |-> <<>>]]
=============================================================================
