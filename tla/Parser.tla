------------------------------- MODULE Parser -------------------------------
(* The one-pass compiler of lparser.c.  A chunk is its grammar tree, every *)
(* operator reads one rule in the order of the code: expressions are       *)
(* tuples headed by their kind, statements likewise.  The recursion of     *)
(* chunk is a list of what is left to read: a statement with a block in it *)
(* opens the block, and an item after the block's statements closes it.    *)
EXTENDS CheckCode

NewFuncState(prev) ==
    [prev |-> prev, code |-> <<>>, k |-> <<>>, p |-> <<>>, freereg |-> 0, nactvar |-> 0,
     actvar |-> <<>>, locvars |-> <<>>, jpc |-> NO_JUMP, lasttarget |-> 0, bl |-> <<>>,
     upvalues |-> <<>>, maxstacksize |-> 2, numparams |-> 0, is_vararg |-> FALSE,
     e |-> VVOID, closed |-> <<>>, ok |-> TRUE]

new_localvars(fs, names) ==
    LET n == Len(fs.locvars) IN
    [fs EXCEPT !.nactvar = @ + Len(names),
               !.actvar = @ \o [i \in DOMAIN names |-> n + i],
               !.locvars = @ \o [i \in DOMAIN names |->
                                   [name |-> names[i], startpc |-> pc(fs), endpc |-> 0]]]

removevars(fs, tolevel) ==
    LET gone == {fs.actvar[i] : i \in tolevel + 1 .. fs.nactvar} IN
    [fs EXCEPT !.nactvar = tolevel, !.actvar = SubSeq(@, 1, tolevel),
               !.locvars = [i \in DOMAIN @ |-> IF i \in gone THEN [@[i] EXCEPT !.endpc = pc(fs)]
                                               ELSE @[i]]]

\* The register of the innermost local of that name, or -1.
searchvar(fs, n) ==
    LET found == {i \in 1 .. fs.nactvar : fs.locvars[fs.actvar[i]].name = n}
    IN  IF found = {} THEN -1 ELSE (CHOOSE i \in found : \A j \in found : j <= i) - 1

\* The block that declares the register.
markupval(fs, level) ==
    LET holds == {i \in DOMAIN fs.bl : fs.bl[i].nactvar <= level} IN
    IF holds = {} THEN fs
    ELSE [fs EXCEPT !.bl[CHOOSE i \in holds : \A j \in holds : j <= i].upval = TRUE]

indexupvalue(fs, n, v) ==
    LET same == {i \in DOMAIN fs.upvalues : fs.upvalues[i].k = v.k /\ fs.upvalues[i].info = v.info}
    IN  IF same # {}
        THEN With(lua_assert(fs, \A i \in same : fs.upvalues[i].name = n),
                  init_exp("UPVAL", (CHOOSE i \in same : TRUE) - 1))
        ELSE With([fs EXCEPT !.upvalues = Append(@, [k |-> v.k, info |-> v.info, name |-> n])],
                  init_exp("UPVAL", Len(fs.upvalues)))

RECURSIVE singlevaraux(_, _, _)
singlevaraux(fs, n, base) ==
    LET v == searchvar(fs, n)
        global == init_exp("GLOBAL", NO_REG)
        up == singlevaraux(fs.prev[1], n, FALSE)
    IN  IF v >= 0 THEN With(IF base THEN fs ELSE markupval(fs, v), init_exp("LOCAL", v))
        ELSE IF fs.prev = <<>> \/ up.e.k = "GLOBAL" THEN With(fs, global)
        ELSE indexupvalue([fs EXCEPT !.prev = <<up>>], n, up.e)

singlevar(fs, n) ==
    LET g == singlevaraux(fs, n, TRUE) IN
    IF g.e.k # "GLOBAL" THEN g
    ELSE LET h == addk(g, STR(n)) IN [h EXCEPT !.e.info = KIndex(h, STR(n))]

adjust_assign(fs, nvars, nexps) ==
    LET extra == nvars - nexps
        open == IF extra + 1 < 0 THEN 0 ELSE extra + 1
        g == luaK_setreturns(fs, open)
        c == IF fs.e.k = "VOID" THEN fs ELSE luaK_exp2nextreg(fs)
    IN  IF hasmultret(fs.e) THEN IF open > 1 THEN luaK_reserveregs(g, open - 1) ELSE g
        ELSE IF extra > 0 THEN luaK_nil(luaK_reserveregs(c, extra), c.freereg, extra)
        ELSE c

enterblock(fs, isbreakable) ==
    [lua_assert(fs, fs.freereg = fs.nactvar) EXCEPT !.bl = Append(@,
        [breaklist |-> NO_JUMP, isbreakable |-> isbreakable, nactvar |-> fs.nactvar,
         upval |-> FALSE])]

leaveblock(fs) ==
    LET bl == Last(fs.bl)
        g == removevars([fs EXCEPT !.bl = Front(@)], bl.nactvar)
        h == IF bl.upval THEN luaK_codeABC(g, "CLOSE", bl.nactvar, 0, 0) ELSE g
    IN  luaK_patchtohere([lua_assert(h, ~bl.isbreakable \/ ~bl.upval) EXCEPT !.freereg = h.nactvar],
                         bl.breaklist)
-----------------------------------------------------------------------------
RECURSIVE expr(_, _)

RECURSIVE explist1(_, _)
explist1(fs, exps) ==
    IF Len(exps) = 1 THEN expr(fs, exps[1])
    ELSE Given(luaK_exp2nextreg(explist1(fs, Front(exps))), LAMBDA g : expr(g, Last(exps)))

\* The function is in the register base, a has the arguments in their last expression.
Called(a, base) ==
    LET closed == IF a.e.k = "VOID" THEN a ELSE luaK_exp2nextreg(a)
        g == IF hasmultret(a.e) THEN luaK_codeABC(luaK_setreturns(a, LUA_MULTRET), "CALL", base, 0, 2)
             ELSE luaK_codeABC(closed, "CALL", base, closed.freereg - base, 2)
    IN  [With(g, init_exp("CALL", Len(g.code))) EXCEPT !.freereg = base + 1]

funcargs(fs, args) ==
    LET f == lua_assert(fs, fs.e.k = "NONRELOC")
    IN  Given(IF args = <<>> THEN With(f, VVOID) ELSE explist1(f, args),
              LAMBDA a : Called(a, fs.e.info))

\* cc: [fs, v, na, tostore].  A field is <<"item", value>> or <<"rec", key, value>>.
closelistfield(cc, t) ==
    LET g == luaK_exp2nextreg(With(cc.fs, cc.v)) IN
    IF cc.v.k = "VOID" THEN cc
    ELSE IF cc.tostore = LFIELDS_PER_FLUSH
    THEN [cc EXCEPT !.fs = luaK_setlist(g, t, cc.na, cc.tostore), !.v = VVOID, !.tostore = 0]
    ELSE [cc EXCEPT !.fs = g, !.v = VVOID]

recfield(fs, t, key, value) ==
    Given(luaK_exp2RK(luaK_exp2val(expr(fs, key))), LAMBDA k :
      Given(luaK_exp2RK(expr(k, value)), LAMBDA v :
        [luaK_codeABC(v, "SETTABLE", t, RK(k.e), RK(v.e)) EXCEPT !.freereg = fs.freereg]))

lastlistfield(cc, t) ==
    LET f == With(cc.fs, cc.v) IN
    IF cc.tostore = 0 THEN cc.fs
    ELSE IF hasmultret(cc.v)
    THEN luaK_setlist(luaK_setreturns(f, LUA_MULTRET), t, cc.na, LUA_MULTRET)
    ELSE luaK_setlist(IF cc.v.k = "VOID" THEN f ELSE luaK_exp2nextreg(f), t, cc.na, cc.tostore)

RECURSIVE Fields(_, _, _)
Fields(cc0, fields, t) ==
    LET x == Head(fields)
        Read(cc) == IF x[1] = "rec" THEN [cc EXCEPT !.fs = recfield(@, t, x[2], x[3])]
                    ELSE Given(expr(cc.fs, x[2]), LAMBDA v :
                           [fs |-> v, v |-> v.e, na |-> cc.na + 1, tostore |-> cc.tostore + 1])
    IN  IF fields = <<>> THEN cc0
        ELSE Given(Read(closelistfield(cc0, t)), LAMBDA cc : Fields(cc, Tail(fields), t))

constructor(fs, fields) ==
    LET n == luaK_exp2nextreg(Relocable(With(luaK_codeABC(fs, "NEWTABLE", 0, 0, 0), VVOID)))
        t == n.e.info
        all == Fields([fs |-> n, v |-> VVOID, na |-> 0, tostore |-> 0], fields, t)
    IN  With(lastlistfield(all, t), n.e)

Proto(fs) == [code |-> fs.code, k |-> fs.k, p |-> fs.p, upvalues |-> fs.upvalues,
              numparams |-> fs.numparams, is_vararg |-> fs.is_vararg,
              maxstacksize |-> fs.maxstacksize, locvars |-> fs.locvars]

close_func(fs) == LET g == luaK_ret(removevars(fs, 0), 0, 0)
                  IN  lua_assert(g, g.bl = <<>> /\ luaG_checkcode(Proto(g)))

pushclosure(fs, func) ==
    LET g == luaK_codeABC([fs EXCEPT !.p = Append(@, Proto(func)), !.ok = @ /\ func.ok],
                          "CLOSURE", 0, Len(fs.p), 0)
        Capture(h, u) == luaK_codeABC(h, IF u.k = "LOCAL" THEN "MOVE" ELSE "GETUPVAL", 0, u.info, 0)
    IN  With(FoldLeft(Capture, g, func.upvalues), init_exp("RELOCABLE", Len(g.code)))

\* <<"function", parameters, is_vararg, statements>>
OpenBody(fs, x) ==
    LET open == new_localvars([NewFuncState(<<fs>>) EXCEPT !.is_vararg = x[3]], x[2])
    IN  luaK_reserveregs([open EXCEPT !.numparams = open.nactvar], open.nactvar)

\* The function waits in `closed' for the expression it is in.
CloseBody(fs) == LET func == close_func(fs)
                 IN  [func.prev[1] EXCEPT !.closed = Append(@, func)]

body(fs) == pushclosure([fs EXCEPT !.closed = Tail(@)], Head(fs.closed))

primaryexp(fs, x) ==
    LET first == expr(fs, x[2])
        Self(g) == luaK_self(g, init_exp("K", KIndex(g, STR(x[3]))))
    IN
    CASE x[1] = "paren" -> luaK_dischargevars(first)
      [] x[1] = "name"  -> singlevar(fs, x[2])
      [] x[1] = "index" -> Given(luaK_exp2anyreg(first),
                                 LAMBDA t : luaK_indexed(luaK_exp2val(expr(t, x[3])), t.e))
      [] x[1] = "self"  -> Given(Self(addk(first, STR(x[3]))), LAMBDA g : funcargs(g, x[4]))
      [] x[1] = "call"  -> Given(luaK_exp2nextreg(first), LAMBDA g : funcargs(g, x[3]))

simpleexp(fs, x) ==
    LET Kind(k) == With(fs, init_exp(k, 0)) IN
    CASE x[1] = "num"   -> [Kind("KNUM") EXCEPT !.e.nval = x[2]]
      [] x[1] = "str"   -> ConstantExp(With(fs, VVOID), STR(x[2]))
      [] x[1] = "nil"   -> Kind("NIL")
      [] x[1] = "true"  -> Kind("TRUE")
      [] x[1] = "false" -> Kind("FALSE")
      [] x[1] = "..."   -> LET g == luaK_codeABC(fs, "VARARG", 0, 1, 0)
                           IN  With(lua_assert(g, fs.is_vararg), init_exp("VARARG", Len(g.code)))
      [] x[1] = "table" -> constructor(fs, x[2])
      [] x[1] = "function" -> body(fs)
      [] OTHER -> primaryexp(fs, x)

\* subexpr: the tree has the priorities of the operators resolved.
expr(fs, x) ==
    CASE x[1] = "un"  -> luaK_prefix(expr(fs, x[3]), x[2])
      [] x[1] = "bin" -> Given(luaK_infix(expr(fs, x[3]), x[2]),
                                LAMBDA v : Given(expr(v, x[4]), LAMBDA w : luaK_posfix(w, x[2], v.e)))
      [] OTHER -> simpleexp(fs, x)
-----------------------------------------------------------------------------
\* The previous targets that need the local keep a copy of it.
check_conflict(fs, lhs, v) ==
    LET safe == [i \in DOMAIN lhs |->
                   IF lhs[i].k # "INDEXED" THEN lhs[i]
                   ELSE [lhs[i] EXCEPT !.info = IF @ = v.info THEN fs.freereg ELSE @,
                                       !.aux = IF @ = v.info THEN fs.freereg ELSE @]]
        copy == luaK_reserveregs(luaK_codeABC(fs, "MOVE", fs.freereg, v.info, 0), 1)
    IN  [fs |-> IF safe = lhs THEN fs ELSE copy, lhs |-> safe]

targets(fs, vars) ==
    FoldLeft(LAMBDA s, x :
               LET g == primaryexp(s.fs, x)
                   c == check_conflict(g, s.lhs, g.e)
               IN  IF g.e.k = "LOCAL" THEN [fs |-> c.fs, lhs |-> Append(c.lhs, g.e)]
                   ELSE [fs |-> g, lhs |-> Append(s.lhs, g.e)],
             [fs |-> fs, lhs |-> <<>>], vars)

\* The last target first, each from the top register.
RECURSIVE StoreAll(_, _)
StoreAll(fs, lhs) ==
    IF lhs = <<>> THEN fs
    ELSE Given(luaK_storevar(With(fs, init_exp("NONRELOC", fs.freereg - 1)), Last(lhs)),
                LAMBDA g : StoreAll(g, Front(lhs)))

Stored(g, lhs, n, m) ==
    LET adjusted == adjust_assign(g, n, m) IN
    IF m = n THEN StoreAll(luaK_storevar(luaK_setoneret(g), Last(lhs)), Front(lhs))
    ELSE StoreAll([adjusted EXCEPT !.freereg = IF m > n THEN @ - (m - n) ELSE @], lhs)

assignment(fs, vars, exps) ==
    Given(targets(fs, vars),
           LAMBDA s : Given(explist1(s.fs, exps), LAMBDA g : Stored(g, s.lhs, Len(vars), Len(exps))))

\* Leaves the jumps of a false condition in e.f.
cond(fs, x) == LET v == expr(fs, x)
               IN  luaK_goiftrue(IF v.e.k = "NIL" THEN [v EXCEPT !.e.k = "FALSE"] ELSE v)

breakstat(fs) ==
    LET loops == {i \in DOMAIN fs.bl : fs.bl[i].isbreakable}
        l == CHOOSE i \in loops : \A j \in loops : j <= i
        upval == \E i \in l + 1 .. Len(fs.bl) : fs.bl[i].upval
        j == luaK_jump(IF upval THEN luaK_codeABC(fs, "CLOSE", fs.bl[l].nactvar, 0, 0) ELSE fs)
    IN  [j EXCEPT !.code = Linked(@, fs.bl[l].breaklist, Len(@)),
                  !.bl[l].breaklist = Joined(@, Len(j.code))]

\* What a statement does at once, and what it leaves to do before the rest.
Opens(fs, stats, close) == [fs |-> fs, items |-> Append(stats, close)]
Done(fs) == [fs |-> fs, items |-> <<>>]

\* The end of a block, then that of the statement around it.
endblock(close) == <<"endblock", close>>

whilestat(fs, x, stats) ==
    LET c == cond(luaK_getlabel(fs), x)
    IN  Opens(enterblock(enterblock(c, TRUE), FALSE), stats,
              endblock(<<"endwhile", pc(fs), c.e.f>>))

endwhile(fs, whileinit, condexit) ==
    LET j == luaK_jump(fs)
    IN  luaK_patchtohere(leaveblock(luaK_patchlist(j, Len(j.code), whileinit)), condexit)

repeatstat(fs, stats, x) ==
    Opens(enterblock(enterblock(luaK_getlabel(fs), TRUE), FALSE), stats, <<"until", pc(fs), x>>)

\* The condition sees the locals of the body; with upvalues it breaks or closes.
until(fs, init, x) ==
    LET c == cond(fs, x)
        closed == leaveblock(luaK_patchtohere(breakstat(c), c.e.f))
        j == luaK_jump(closed)
    IN  leaveblock(IF Last(c.bl).upval THEN luaK_patchlist(j, Len(j.code), init)
                   ELSE luaK_patchlist(leaveblock(c), c.e.f, init))

forbody(fs, base, names, stats, isnum) ==
    LET control == new_localvars(fs, <<"(for index)", "(for limit)", "(for step)">>)
        p == IF isnum THEN luaK_codeABC(control, "FORPREP", base, 0, 0) ELSE luaK_jump(control)
        scope == luaK_reserveregs(new_localvars(enterblock(p, FALSE), names), Len(names))
    IN  Opens(enterblock(scope, FALSE), stats,
              endblock(endblock(<<"endfor", base, Len(p.code), isnum, Len(names)>>)))

endfor(fs, base, prep, isnum, nvars) ==
    LET done == luaK_patchtohere(fs, prep)
        loop == IF isnum THEN luaK_codeABC(done, "FORLOOP", base, 0, 0)
                ELSE luaK_jump(luaK_codeABC(done, "TFORLOOP", base, 0, nvars))
    IN  leaveblock(luaK_patchlist(loop, Len(loop.code), prep + 1))

exp1(fs, x) == luaK_exp2nextreg(expr(fs, x))

fornum(fs, x) ==
    LET e == FoldLeft(exp1, fs, x[3])
        one == ConstantExp(e, NUM(1))
        step == IF Len(x[3]) = 3 THEN e
                ELSE luaK_reserveregs(luaK_codeABC(one, "LOADK", e.freereg, one.e.info, 0), 1)
    IN  forbody(step, fs.freereg, <<x[2]>>, x[4], TRUE)

forlist(fs, x) ==
    forbody(luaK_checkstack(adjust_assign(explist1(fs, x[3]), 3, Len(x[3])), 3),
            fs.freereg, x[2], x[4], FALSE)

\* One clause <<condition, block>>; the jumps to the end of the ifs are in escape.
ifstat(fs, clauses, else, escape) ==
    LET t == cond(fs, Head(clauses)[1])
    IN  Opens(enterblock(t, FALSE), Head(clauses)[2],
              endblock(<<"endif", Tail(clauses), else, escape, t.e.f>>))

endif(fs, clauses, else, escape, flist) ==
    LET j == luaK_jump(fs)
        out == luaK_patchtohere([j EXCEPT !.code = Linked(@, escape, Len(@))], flist)
        all == Joined(escape, Len(j.code))
    IN  IF clauses # <<>> THEN ifstat(out, clauses, else, all)
        ELSE IF else # <<>> THEN Opens(enterblock(out, FALSE), else, endblock(<<"escape", all>>))
        ELSE Done(luaK_patchtohere([fs EXCEPT !.code = Linked(@, escape, flist)],
                                   Joined(escape, flist)))

localfunc(fs, n, f) ==
    Opens(OpenBody(new_localvars(luaK_reserveregs(fs, 1), <<n>>), f), f[4], <<"endlocalfunction">>)

endlocalfunc(fs) ==
    LET g == luaK_storevar(body(fs), init_exp("LOCAL", fs.freereg - 1))
    IN  [g EXCEPT !.locvars[Last(g.actvar)].startpc = pc(g)]

localstat(fs, names, exps) ==
    Given(IF exps = <<>> THEN With(fs, VVOID) ELSE explist1(fs, exps),
           LAMBDA e : new_localvars(adjust_assign(e, Len(names), Len(exps)), names))

funcstat(fs, var, f) == LET v == primaryexp(fs, var)
                        IN  Opens(OpenBody(v, f), f[4], <<"endfunction", v.e>>)

\* g has the values in n expressions.
Returned(fs, g, n) ==
    LET m == luaK_setreturns(g, LUA_MULTRET)
        tail == m.e.k = "CALL" /\ n = 1
        open == IF tail THEN [lua_assert(m, getcode(m).a = m.nactvar)
                              EXCEPT !.code[m.e.info].op = "TAILCALL"] ELSE m
        one == luaK_exp2anyreg(g)
        many == luaK_exp2nextreg(g)
    IN  IF hasmultret(g.e) THEN luaK_ret(open, fs.nactvar, LUA_MULTRET)
        ELSE IF n = 1 THEN luaK_ret(one, one.e.info, 1)
        ELSE luaK_ret(lua_assert(many, n = many.freereg - fs.nactvar), fs.nactvar, n)

retstat(fs, exps) ==
    IF exps = <<>> THEN luaK_ret(fs, 0, 0)
    ELSE Given(explist1(fs, exps), LAMBDA g : Returned(fs, g, Len(exps)))

\* The functions among the expressions of a statement.
FunctionsOf(s) == SelectSeq(CASE s[1] \in {"local", "assign"} -> s[3] [] s[1] = "return" -> s[2]
                              [] OTHER -> <<>>, LAMBDA x : x[1] = "function")

statement(fs, s) ==
    CASE s[1] = "local"  -> Done(localstat(fs, s[2], s[3]))
      [] s[1] = "localfunction" -> localfunc(fs, s[2], s[3])
      [] s[1] = "endlocalfunction" -> Done(endlocalfunc(CloseBody(fs)))
      [] s[1] = "function" -> funcstat(fs, s[2], s[3])
      [] s[1] = "endfunction" -> Done(luaK_storevar(body(CloseBody(fs)), s[2]))
      [] s[1] = "endbody" -> Done(CloseBody(fs))
      [] s[1] = "assign" -> Done(assignment(fs, s[2], s[3]))
      [] s[1] = "call"   -> LET g == primaryexp(fs, s[2]) IN Done([g EXCEPT !.code[g.e.info].c = 1])
      [] s[1] = "do"     -> Opens(enterblock(fs, FALSE), s[2], endblock(<<"end">>))
      [] s[1] = "endblock" -> [fs |-> leaveblock(fs), items |-> <<s[2]>>]
      [] s[1] = "while"  -> whilestat(fs, s[2], s[3])
      [] s[1] = "endwhile" -> Done(endwhile(fs, s[2], s[3]))
      [] s[1] = "repeat" -> repeatstat(fs, s[2], s[3])
      [] s[1] = "until"  -> Done(until(fs, s[2], s[3]))
      [] s[1] = "fornum" -> fornum(enterblock(fs, TRUE), s)
      [] s[1] = "forin"  -> forlist(enterblock(fs, TRUE), s)
      [] s[1] = "endfor" -> Done(endfor(fs, s[2], s[3], s[4], s[5]))
      [] s[1] = "if"     -> ifstat(fs, s[2], s[3], NO_JUMP)
      [] s[1] = "endif"  -> endif(fs, s[2], s[3], s[4], s[5])
      [] s[1] = "escape" -> Done(luaK_patchtohere(fs, s[2]))
      [] s[1] = "return" -> Done(retstat(fs, s[2]))
      [] s[1] = "break"  -> Done(breakstat(fs))
      [] s[1] = "end"    -> Done(fs)

\* One turn of the loop of chunk.  The functions of a statement are read first.
chunk(fs, s) ==
    LET unread == SubSeq(FunctionsOf(s), Len(fs.closed) + 1, Len(FunctionsOf(s)))
        r == statement(fs, s)
    IN  IF unread # <<>>
        THEN [fs |-> OpenBody(fs, Head(unread)), items |-> Head(unread)[4] \o << <<"endbody">>, s>>]
        ELSE IF r.items # <<>> THEN r
        ELSE Done([lua_assert(r.fs, r.fs.maxstacksize >= r.fs.freereg /\ r.fs.freereg >= r.fs.nactvar)
                   EXCEPT !.freereg = r.fs.nactvar])

MainFunc == [NewFuncState(<<>>) EXCEPT !.is_vararg = TRUE]

\* luaY_parser, from the statements that are left.
RECURSIVE Compiled(_, _)
Compiled(fs, rest) ==
    IF rest = <<>> THEN close_func(fs)
    ELSE Given(chunk(fs, Head(rest)), LAMBDA r : Compiled(r.fs, r.items \o Tail(rest)))
=============================================================================
