------------------------------- MODULE Meaning -------------------------------
(* What a chunk means, read off its grammar tree: the reference that the   *)
(* compiled code is compared with.  A local is a cell; a closure remembers *)
(* the cells it was made with.  st: [w, cells, closures].                  *)
EXTENDS Values

\* env: [names, cells, varargs], innermost name last.
Lookup(env, n) == {i \in DOMAIN env.names : env.names[i] = n}
CellOf(env, n) == env.cells[CHOOSE i \in Lookup(env, n) : \A j \in Lookup(env, n) : j <= i]

Declare(st, env, names, vs) ==
    LET n == Len(st.cells) IN
    [st |-> [st EXCEPT !.cells = @ \o Take(vs, Len(names))],
     env |-> [env EXCEPT !.names = @ \o names, !.cells = @ \o [i \in DOMAIN names |-> n + i]]]

In(st, a) == [st |-> [st EXCEPT !.w = a.w], v |-> a.v]
Values1(r) == [st |-> r.st, vs |-> <<r.v>>]

ReadVar(st, env, n) == IF Lookup(env, n) # {} THEN st.cells[CellOf(env, n)] ELSE GlobalOf(st.w, n)
WriteVar(st, env, n, v) == IF Lookup(env, n) # {} THEN [st EXCEPT !.cells[CellOf(env, n)] = v]
                           ELSE [st EXCEPT !.w.globals = (n :> v) @@ @]

ArithName == [x \in {"+", "-", "*", "%", ".."} |->
                CASE x = "+" -> "ADD" [] x = "-" -> "SUB" [] x = "*" -> "MUL" [] x = "%" -> "MOD"
                  [] x = ".." -> "CONCAT"]

BinOp(st, op, x, y) ==
    LET Truth(w, o, p, q) == LET c == Compare(w, o, p, q) IN Answer(c.w, BOOL(c.v))
    IN  In(st, CASE op \in DOMAIN ArithName -> Arith(st.w, ArithName[op], x, y)
                 [] op = "==" -> Answer(st.w, BOOL(x = y))
                 [] op = "~=" -> Answer(st.w, BOOL(x # y))
                 [] op = "<"  -> Truth(st.w, "LT", x, y)
                 [] op = "<=" -> Truth(st.w, "LE", x, y)
                 [] op = ">"  -> Truth(st.w, "LT", y, x)
                 [] op = ">=" -> Truth(st.w, "LE", y, x))

UnOp(st, op, x) == CASE op = "not" -> [st |-> st, v |-> BOOL(IsFalse(x))]
                     [] op = "-" -> In(st, Arith(st.w, "UNM", x, x))
                     [] op = "#" -> In(st, Metamethod(st.w, "LEN", x, NIL))

RECURSIVE Eval(_, _, _)
RECURSIVE EvalMulti(_, _, _)
RECURSIVE Exec(_, _, _)

\* All the values of a list: the last expression may give any number.
EvalList(st, env, exps) ==
    IF exps = <<>> THEN [st |-> st, vs |-> <<>>]
    ELSE LET Step(r, x) == LET e == Eval(r.st, env, x) IN [st |-> e.st, vs |-> Append(r.vs, e.v)]
             front == FoldLeft(Step, [st |-> st, vs |-> <<>>], Front(exps))
             last == EvalMulti(front.st, env, Last(exps))
         IN  [st |-> last.st, vs |-> front.vs \o last.vs]

Call(st, f, args) ==
    IF f[1] # "function"
    THEN LET h == HostCall(st.w, f, args) IN [st |-> [st EXCEPT !.w = h.w], vs |-> h.vs]
    ELSE LET c == st.closures[f[2]]
             n == Len(c.params)
             d == Declare(st, [c.env EXCEPT !.varargs = SubSeq(args, n + 1, Len(args))], c.params, args)
             r == Exec(d.st, d.env, c.body)
         IN  [st |-> r.st, vs |-> r.vs]

EvalMulti(st, env, x) ==
    CASE x[1] = "..." -> [st |-> st, vs |-> env.varargs]
      [] x[1] = "call" -> LET f == Eval(st, env, x[2])
                              a == EvalList(f.st, env, x[3])
                          IN  Call(a.st, f.v, a.vs)
      [] x[1] = "self" -> LET o == Eval(st, env, x[2])
                              f == In(o.st, Index(o.st.w, o.v, STR(x[3])))
                              a == EvalList(f.st, env, x[4])
                          IN  Call(a.st, f.v, <<o.v>> \o a.vs)
      [] OTHER -> Values1(Eval(st, env, x))

\* Keyed fields in their order; the values of a list at 1, 2, ...
EvalTable(st, env, fields) ==
    LET new == In(st, NewTable(st.w))
        At(r, i, v) == [r EXCEPT !.st.w = SetIndex(@, new.v, NUM(i), v)]
        Field(r, x) ==
            LET k == Eval(r.st, env, x[2])
                v == Eval(k.st, env, x[3])
                last == r.i = Len(fields)
                vs == IF last THEN EvalMulti(r.st, env, x[2]) ELSE Values1(k)
                put == FoldLeft(LAMBDA q, i : At(q, r.n + i, vs.vs[i]), [r EXCEPT !.st = vs.st],
                                [i \in DOMAIN vs.vs |-> i])
            IN  IF x[1] = "rec"
                THEN [r EXCEPT !.st = [v.st EXCEPT !.w = SetIndex(@, new.v, k.v, v.v)], !.i = @ + 1]
                ELSE [put EXCEPT !.n = r.n + Len(vs.vs), !.i = @ + 1]
    IN  [st |-> FoldLeft(Field, [st |-> new.st, n |-> 0, i |-> 1], fields).st, v |-> new.v]

Eval(st, env, x) ==
    LET Is(v) == [st |-> st, v |-> v]
        First(r) == [st |-> r.st, v |-> IF r.vs = <<>> THEN NIL ELSE Head(r.vs)]
        l == Eval(st, env, x[3])
        r == Eval(l.st, env, x[4])
    IN  CASE x[1] = "nil" -> Is(NIL)
          [] x[1] \in {"true", "false"} -> Is(BOOL(x[1] = "true"))
          [] x[1] = "num" -> Is(NUM(x[2]))
          [] x[1] = "str" -> Is(STR(x[2]))
          [] x[1] = "name" -> Is(ReadVar(st, env, x[2]))
          [] x[1] = "paren" -> Eval(st, env, x[2])
          [] x[1] = "index" -> LET t == Eval(st, env, x[2])
                                   k == Eval(t.st, env, x[3])
                               IN  In(k.st, Index(k.st.w, t.v, k.v))
          [] x[1] = "un" -> UnOp(l.st, x[2], l.v)
          [] x[1] = "bin" /\ x[2] = "and" -> IF IsFalse(l.v) THEN l ELSE r
          [] x[1] = "bin" /\ x[2] = "or" -> IF IsFalse(l.v) THEN r ELSE l
          [] x[1] = "bin" /\ x[2] \notin {"and", "or"} -> BinOp(r.st, x[2], l.v, r.v)
          [] x[1] = "table" -> EvalTable(st, env, x[2])
          [] x[1] = "function" ->
               [st |-> [st EXCEPT !.closures = Append(@, [params |-> x[2], body |-> x[4], env |-> env])],
                v |-> <<"function", Len(st.closures) + 1>>]
          [] OTHER -> First(EvalMulti(st, env, x))
-----------------------------------------------------------------------------
\* The outcome of statements: ctl is "next", "break" or "return".
Went(st, env, ctl, vs) == [st |-> st, env |-> env, ctl |-> ctl, vs |-> vs]

\* The places a list of targets denotes, then the assignments, last first.
Assign(st, env, vars, exps) ==
    LET Place(r, x) ==
            IF x[1] = "name" THEN [r EXCEPT !.at = Append(@, <<"name", x[2]>>)]
            ELSE LET t == Eval(r.st, env, x[2])
                     k == Eval(t.st, env, x[3])
                 IN  [st |-> k.st, at |-> Append(r.at, <<"index", t.v, k.v>>)]
        places == FoldLeft(Place, [st |-> st, at |-> <<>>], vars)
        e == EvalList(places.st, env, exps)
        vs == Take(e.vs, Len(vars))
        Store(s, i) ==
            LET p == places.at[i] IN
            IF p[1] = "name" THEN WriteVar(s, env, p[2], vs[i])
            ELSE [s EXCEPT !.w = SetIndex(@, p[2], p[3], vs[i])]
    IN  FoldLeft(Store, e.st, [i \in DOMAIN vars |-> Len(vars) + 1 - i])

RECURSIVE While(_, _, _, _)
While(st, env, x, body) ==
    LET c == Eval(st, env, x)
        b == Exec(c.st, env, body)
    IN  IF IsFalse(c.v) THEN Went(c.st, env, "next", <<>>)
        ELSE IF b.ctl = "next" THEN While(b.st, env, x, body)
        ELSE Went(b.st, env, IF b.ctl = "break" THEN "next" ELSE b.ctl, b.vs)

RECURSIVE Repeat(_, _, _, _)
Repeat(st, env, body, x) ==
    LET b == Exec(st, env, body)
        c == Eval(b.st, b.env, x)
    IN  IF b.ctl # "next" THEN Went(b.st, env, IF b.ctl = "break" THEN "next" ELSE b.ctl, b.vs)
        ELSE IF IsFalse(c.v) THEN Repeat(c.st, env, body, x)
        ELSE Went(c.st, env, "next", <<>>)

RECURSIVE ForNum(_, _, _, _, _)
ForNum(st, env, v, i, s) ==
    LET d == Declare(st, env, <<s[2]>>, <<NUM(i)>>)
        b == Exec(d.st, d.env, s[4])
        step == IF Len(v) = 3 THEN v[3][2] ELSE 1
    IN  IF (step > 0 /\ i > v[2][2]) \/ (step <= 0 /\ i < v[2][2]) THEN Went(st, env, "next", <<>>)
        ELSE IF b.ctl = "next" THEN ForNum(b.st, env, v, i + step, s)
        ELSE Went(b.st, env, IF b.ctl = "break" THEN "next" ELSE b.ctl, b.vs)

RECURSIVE ForIn(_, _, _, _)
ForIn(st, env, v, s) ==
    LET c == Call(st, v[1], <<v[2], v[3]>>)
        d == Declare(c.st, env, s[2], c.vs)
        b == Exec(d.st, d.env, s[4])
    IN  IF Take(c.vs, 1)[1] = NIL THEN Went(c.st, env, "next", <<>>)
        ELSE IF b.ctl = "next" THEN ForIn(b.st, env, [v EXCEPT ![3] = c.vs[1]], s)
        ELSE Went(b.st, env, IF b.ctl = "break" THEN "next" ELSE b.ctl, b.vs)

RECURSIVE If(_, _, _, _)
If(st, env, clauses, else) ==
    IF clauses = <<>> THEN Exec(st, env, else)
    ELSE LET c == Eval(st, env, Head(clauses)[1]) IN
         IF IsFalse(c.v) THEN If(c.st, env, Tail(clauses), else)
         ELSE Exec(c.st, env, Head(clauses)[2])

Do(st, env, s) ==
    LET f == Declare(st, env, <<s[2]>>, <<NIL>>)
        e == EvalList(st, env, IF s[1] = "local" THEN s[3] ELSE IF s[1] = "return" THEN s[2]
                               ELSE IF s[1] \in {"fornum", "forin"} THEN s[3] ELSE <<>>)
        d == Declare(e.st, env, s[2], e.vs)
        Scoped(r) == [r EXCEPT !.env = env]
        Next(r) == Went(r, env, "next", <<>>)
    IN  CASE s[1] = "local" -> Went(d.st, d.env, "next", <<>>)
          [] s[1] = "localfunction" ->
               LET g == Eval(f.st, f.env, s[3])
               IN  Went(WriteVar(g.st, f.env, s[2], g.v), f.env, "next", <<>>)
          [] s[1] = "function" -> Next(Assign(st, env, <<s[2]>>, <<s[3]>>))
          [] s[1] = "assign" -> Next(Assign(st, env, s[2], s[3]))
          [] s[1] = "call" -> Next(EvalMulti(st, env, s[2]).st)
          [] s[1] = "do" -> Scoped(Exec(st, env, s[2]))
          [] s[1] = "while" -> While(st, env, s[2], s[3])
          [] s[1] = "repeat" -> Repeat(st, env, s[2], s[3])
          [] s[1] = "fornum" -> ForNum(e.st, env, e.vs, e.vs[1][2], s)
          [] s[1] = "forin" -> ForIn(e.st, env, Take(e.vs, 3), s)
          [] s[1] = "if" -> Scoped(If(st, env, s[2], s[3]))
          [] s[1] = "return" -> Went(e.st, env, "return", e.vs)
          [] s[1] = "break" -> Went(st, env, "break", <<>>)

Exec(st, env, stats) ==
    FoldLeft(LAMBDA r, s : IF r.ctl # "next" THEN r ELSE Do(r.st, r.env, s),
             Went(st, env, "next", <<>>), stats)

\* What running the chunk with these globals and arguments comes to.
Meaning(stats, globals, args) ==
    LET r == Exec([w |-> [tables |-> <<>>, globals |-> globals, log |-> <<>>],
                   cells |-> <<>>, closures |-> <<[body |-> stats]>>],
                  [names |-> <<>>, cells |-> <<>>, varargs |-> args], stats)
    IN  [w |-> r.st.w, ret |-> r.vs]
=============================================================================
