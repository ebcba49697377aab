------------------------------- MODULE CodeGen -------------------------------
(* The code generator of lcode.c: operators on a FuncState fs whose field  *)
(* e is the expression descriptor being worked on.  Jump lists are linked  *)
(* through the jumps themselves, as in the code.  A position is an index   *)
(* of fs.code; 0 is NO_JUMP.  fs.ok is the conjunction of the assertions.  *)
EXTENDS Values

CONSTANTS
    MAXINDEXRK,         \* the largest constant index of an RK operand
    LFIELDS_PER_FLUSH,  \* list items a constructor keeps in registers
    MAXARG_C            \* the largest flush number SETLIST carries itself

NO_JUMP == 0
NO_REG == 255
BITRK == 1000
LUA_MULTRET == -1

OpNames == <<"MOVE", "LOADK", "LOADBOOL", "LOADNIL", "GETUPVAL", "GETGLOBAL", "GETTABLE",
             "SETGLOBAL", "SETUPVAL", "SETTABLE", "NEWTABLE", "SELF", "ADD", "SUB", "MUL",
             "DIV", "MOD", "POW", "UNM", "NOT", "LEN", "CONCAT", "JMP", "EQ", "LT", "LE",
             "TEST", "TESTSET", "CALL", "TAILCALL", "RETURN", "FORLOOP", "FORPREP",
             "TFORLOOP", "SETLIST", "CLOSE", "CLOSURE", "VARARG">>
TMode == {"EQ", "LT", "LE", "TEST", "TESTSET", "TFORLOOP"}

ISK(x) == x >= BITRK
INDEXK(x) == x - BITRK
CREATE_ABC(op, a, b, c) == [op |-> op, a |-> a, b |-> b, c |-> c, jump |-> NO_JUMP]
\* A bare number among the instructions: its low bits read as an opcode.
RawWord(n) == CREATE_ABC(OpNames[n + 1], 0, 0, 0)

init_exp(k, info) == [k |-> k, info |-> info, aux |-> 0, nval |-> 0,
                      t |-> NO_JUMP, f |-> NO_JUMP]
VVOID == init_exp("VOID", 0)
hasmultret(e) == e.k \in {"CALL", "VARARG"}
hasjumps(e) == e.t # e.f
isnumeral(e) == e.k = "KNUM" /\ e.t = NO_JUMP /\ e.f = NO_JUMP

pc(fs) == Len(fs.code) + 1
getcode(fs) == fs.code[fs.e.info]
With(fs, e) == [fs EXCEPT !.e = e]
Becomes(fs, k, info) == [fs EXCEPT !.e.k = k, !.e.info = info]
Relocable(fs) == Becomes(fs, "RELOCABLE", Len(fs.code))
lua_assert(fs, p) == [fs EXCEPT !.ok = @ /\ p]
\* F of the value of x: what TLC evaluates first does not nest.
Given(x, F(_)) == CHOOSE r \in {F(v) : v \in {x}} : TRUE
-----------------------------------------------------------------------------
RECURSIVE JumpList(_, _)
JumpList(code, l) == IF l = NO_JUMP THEN {} ELSE {l} \cup JumpList(code, code[l].jump)

\* luaK_concat: the list l2 behind the list l1.
Joined(l1, l2) == IF l1 = NO_JUMP THEN l2 ELSE l1
Linked(code, l1, l2) ==
    IF l1 = NO_JUMP \/ l2 = NO_JUMP THEN code
    ELSE LET last == CHOOSE j \in JumpList(code, l1) : code[j].jump = NO_JUMP
         IN  [code EXCEPT ![last].jump = l2]

ConcatT(fs, l) == [fs EXCEPT !.code = Linked(@, fs.e.t, l), !.e.t = Joined(@, l)]
ConcatF(fs, l) == [fs EXCEPT !.code = Linked(@, fs.e.f, l), !.e.f = Joined(@, l)]

getjumpcontrol(code, j) == IF j > 1 /\ code[j - 1].op \in TMode THEN j - 1 ELSE j

need_value(fs, l) ==
    \E j \in JumpList(fs.code, l) : fs.code[getjumpcontrol(fs.code, j)].op # "TESTSET"

PatchedTest(i, reg) == IF reg # NO_REG /\ reg # i.b THEN [i EXCEPT !.a = reg]
                       ELSE CREATE_ABC("TEST", i.b, 0, i.c)

\* The tests with a value that control a jump of the list.
ValueTests(code, l) == {p \in {getjumpcontrol(code, j) : j \in JumpList(code, l)} :
                          code[p].op = "TESTSET"}

removevalues(fs, l) ==
    IF l = NO_JUMP THEN fs
    ELSE [fs EXCEPT !.code = [p \in DOMAIN @ |-> IF p \in ValueTests(@, l)
                                                 THEN PatchedTest(@[p], NO_REG) ELSE @[p]]]

patchlistaux(fs, l, vtarget, reg, dtarget) ==
    LET jumps == JumpList(fs.code, l)
        tests == ValueTests(fs.code, l)
        Dest(j) == IF getjumpcontrol(fs.code, j) \in tests THEN vtarget ELSE dtarget
    IN  IF l = NO_JUMP THEN fs
        ELSE [lua_assert(fs, \A j \in jumps : Dest(j) # NO_JUMP) EXCEPT !.code = [p \in DOMAIN @ |->
            IF p \in tests THEN PatchedTest(@[p], reg)
            ELSE IF p \in jumps THEN [@[p] EXCEPT !.jump = Dest(p)] ELSE @[p]]]

dischargejpc(fs) == [patchlistaux(fs, fs.jpc, pc(fs), NO_REG, pc(fs)) EXCEPT !.jpc = NO_JUMP]

luaK_code(fs, i) == LET g == dischargejpc(fs) IN [g EXCEPT !.code = Append(@, i)]
luaK_codeABC(fs, op, a, b, c) == luaK_code(fs, CREATE_ABC(op, a, b, c))

\* A label that does not mark the position as a jump target.
BadGetLabel(fs) == fs

luaK_getlabel(fs) == [fs EXCEPT !.lasttarget = pc(fs)]

luaK_patchtohere(fs, l) ==
    [luaK_getlabel(fs) EXCEPT !.code = Linked(@, fs.jpc, l), !.jpc = Joined(@, l)]

luaK_patchlist(fs, l, target) ==
    IF target = pc(fs) THEN luaK_patchtohere(fs, l)
    ELSE patchlistaux(lua_assert(fs, target < pc(fs)), l, target, NO_REG, target)

\* The new jump, at Len(code), heads the list of the jumps on hold.
luaK_jump(fs) == LET g == luaK_codeABC([fs EXCEPT !.jpc = NO_JUMP], "JMP", 0, 0, 0)
                 IN  [g EXCEPT !.code[Len(g.code)].jump = fs.jpc]

condjump(fs, op, a, b, c) == luaK_jump(luaK_codeABC(fs, op, a, b, c))

\* Extends the LOADNIL before, unless this position is a jump target.
luaK_nil(fs, from, n) ==
    LET here == pc(fs) > fs.lasttarget
        prev == fs.code[pc(fs) - 1]
    IN  IF here /\ pc(fs) = 1 /\ from >= fs.nactvar THEN fs
        ELSE IF /\ here /\ pc(fs) > 1 /\ prev.op = "LOADNIL"
                /\ prev.a <= from /\ from <= prev.b + 1
             THEN IF from + n - 1 > prev.b
                  THEN [fs EXCEPT !.code[pc(fs) - 1].b = from + n - 1] ELSE fs
        ELSE luaK_codeABC(fs, "LOADNIL", from, from + n - 1, 0)

luaK_ret(fs, first, nret) == luaK_codeABC(fs, "RETURN", first, nret + 1, 0)
-----------------------------------------------------------------------------
\* The stack is sized without the registers that are reserved.
BadCheckStack(fs, n) == fs

luaK_checkstack(fs, n) ==
    [fs EXCEPT !.maxstacksize = IF fs.freereg + n > @ THEN fs.freereg + n ELSE @]

luaK_reserveregs(fs, n) == [luaK_checkstack(fs, n) EXCEPT !.freereg = @ + n]

freereg(fs, reg) == IF ISK(reg) \/ reg < fs.nactvar THEN fs
                    ELSE [lua_assert(fs, reg = fs.freereg - 1) EXCEPT !.freereg = @ - 1]

freeexp(fs, e) == IF e.k = "NONRELOC" THEN freereg(fs, e.info) ELSE fs

addk(fs, v) == IF v \in ToSet(fs.k) THEN fs ELSE [fs EXCEPT !.k = Append(@, v)]
KIndex(fs, v) == (CHOOSE i \in DOMAIN fs.k : fs.k[i] = v) - 1

\* The descriptor becomes the constant v.
ConstantExp(fs, v) == LET g == addk(fs, v) IN Becomes(g, "K", KIndex(g, v))

luaK_setreturns(fs, nresults) ==
    CASE fs.e.k = "CALL" -> [fs EXCEPT !.code[fs.e.info].c = nresults + 1]
      [] fs.e.k = "VARARG" ->
           luaK_reserveregs([fs EXCEPT !.code[fs.e.info].b = nresults + 1,
                                       !.code[fs.e.info].a = fs.freereg], 1)
      [] OTHER -> fs

luaK_setoneret(fs) ==
    CASE fs.e.k = "CALL" -> Becomes(fs, "NONRELOC", getcode(fs).a)
      [] fs.e.k = "VARARG" -> [fs EXCEPT !.code[fs.e.info].b = 2, !.e.k = "RELOCABLE"]
      [] OTHER -> fs

luaK_dischargevars(fs) ==
    LET e == fs.e IN
    CASE e.k = "LOCAL"   -> [fs EXCEPT !.e.k = "NONRELOC"]
      [] e.k = "UPVAL"   -> Relocable(luaK_codeABC(fs, "GETUPVAL", 0, e.info, 0))
      [] e.k = "GLOBAL"  -> Relocable(luaK_codeABC(fs, "GETGLOBAL", 0, e.info, 0))
      [] e.k = "INDEXED" -> Relocable(luaK_codeABC(freereg(freereg(fs, e.aux), e.info),
                                                   "GETTABLE", 0, e.info, e.aux))
      [] OTHER -> luaK_setoneret(fs)

discharge2reg(fs, reg) ==
    LET g == luaK_dischargevars(fs)
        e == g.e
        Done(h) == Becomes(h, "NONRELOC", reg)
    IN  CASE e.k = "NIL" -> Done(luaK_nil(g, reg, 1))
          [] e.k \in {"FALSE", "TRUE"} ->
               Done(luaK_codeABC(g, "LOADBOOL", reg, IF e.k = "TRUE" THEN 1 ELSE 0, 0))
          [] e.k = "K" -> Done(luaK_codeABC(g, "LOADK", reg, e.info, 0))
          [] e.k = "KNUM" -> LET h == ConstantExp(g, NUM(e.nval))
                             IN  Done(luaK_codeABC(h, "LOADK", reg, h.e.info, 0))
          [] e.k = "RELOCABLE" -> Done([g EXCEPT !.code[e.info].a = reg])
          [] e.k = "NONRELOC" ->
               Done(IF reg # e.info THEN luaK_codeABC(g, "MOVE", reg, e.info, 0) ELSE g)
          [] OTHER -> lua_assert(g, e.k \in {"VOID", "JMP"})

discharge2anyreg(fs) ==
    IF fs.e.k = "NONRELOC" THEN fs
    ELSE LET g == luaK_reserveregs(fs, 1) IN discharge2reg(g, g.freereg - 1)

code_label(fs, a, b, jump) == luaK_codeABC(luaK_getlabel(fs), "LOADBOOL", a, b, jump)

\* Loads of false and true are emitted for the jumps that carry no value.
exp2reg(fs, reg) ==
    LET d == discharge2reg(fs, reg)
        g == IF d.e.k = "JMP" THEN ConcatT(d, d.e.info) ELSE d
        needed == need_value(g, g.e.t) \/ need_value(g, g.e.f)
        h == IF g.e.k = "JMP" THEN g ELSE luaK_jump(g)
        fj == IF g.e.k = "JMP" THEN NO_JUMP ELSE Len(h.code)
        l == code_label(code_label(h, reg, 0, 1), reg, 1, 0)
        p_t == Len(l.code)
        m == luaK_getlabel(IF needed THEN luaK_patchtohere(l, fj) ELSE g)
        n == patchlistaux(m, g.e.f, pc(m), reg, IF needed THEN p_t - 1 ELSE NO_JUMP)
        patched == patchlistaux(n, g.e.t, pc(m), reg, IF needed THEN p_t ELSE NO_JUMP)
    IN  With(IF hasjumps(g.e) THEN patched ELSE g, init_exp("NONRELOC", reg))

luaK_exp2nextreg(fs) ==
    LET g == luaK_dischargevars(fs)
        h == luaK_reserveregs(freeexp(g, g.e), 1)
    IN  exp2reg(h, h.freereg - 1)

luaK_exp2anyreg(fs) ==
    LET g == luaK_dischargevars(fs) IN
    IF g.e.k = "NONRELOC" /\ ~hasjumps(g.e) THEN g
    ELSE IF g.e.k = "NONRELOC" /\ g.e.info >= g.nactvar THEN exp2reg(g, g.e.info)
    ELSE luaK_exp2nextreg(g)

luaK_exp2val(fs) == IF hasjumps(fs.e) THEN luaK_exp2anyreg(fs) ELSE luaK_dischargevars(fs)

ConstantOf(e) == CASE e.k = "NIL" -> NIL
                   [] e.k = "KNUM" -> NUM(e.nval)
                   [] OTHER -> BOOL(e.k = "TRUE")

luaK_exp2RK(fs) ==
    LET g == luaK_exp2val(fs) IN
    IF g.e.k \in {"KNUM", "TRUE", "FALSE", "NIL"} /\ Len(g.k) <= MAXINDEXRK
    THEN ConstantExp(g, ConstantOf(g.e))
    ELSE IF g.e.k = "K" /\ g.e.info <= MAXINDEXRK THEN g
    ELSE luaK_exp2anyreg(g)

\* The operand luaK_exp2RK returns.
RK(e) == IF e.k = "K" THEN BITRK + e.info ELSE e.info

luaK_storevar(fs, var) ==
    LET g == luaK_exp2anyreg(fs)
        r == luaK_exp2RK(fs)
        Free(h) == freeexp(h, h.e)
    IN  CASE var.k = "LOCAL"   -> exp2reg(freeexp(fs, fs.e), var.info)
          [] var.k = "UPVAL"   -> Free(luaK_codeABC(g, "SETUPVAL", g.e.info, var.info, 0))
          [] var.k = "GLOBAL"  -> Free(luaK_codeABC(g, "SETGLOBAL", g.e.info, var.info, 0))
          [] var.k = "INDEXED" -> Free(luaK_codeABC(r, "SETTABLE", var.info, var.aux, RK(r.e)))

luaK_self(fs, key) ==
    LET g == luaK_exp2anyreg(fs)
        h == luaK_reserveregs(freeexp(g, g.e), 2)
        func == h.freereg - 2
        r == luaK_exp2RK(With(h, key))
        s == luaK_codeABC(r, "SELF", func, g.e.info, RK(r.e))
    IN  With(freeexp(s, s.e), [g.e EXCEPT !.k = "NONRELOC", !.info = func])

luaK_indexed(fs, t) ==
    LET r == luaK_exp2RK(fs)
    IN  With(r, [t EXCEPT !.k = "INDEXED", !.aux = RK(r.e)])
-----------------------------------------------------------------------------
invertjump(fs) ==
    LET p == getjumpcontrol(fs.code, fs.e.info) IN
    [lua_assert(fs, fs.code[p].op \in TMode \ {"TESTSET", "TEST"}) EXCEPT !.code[p].a = 1 - @]

jumponcond(fs, cond) ==
    IF fs.e.k = "RELOCABLE" /\ getcode(fs).op = "NOT"
    THEN condjump([fs EXCEPT !.code = Front(@)], "TEST", getcode(fs).b, 0, 1 - cond)
    ELSE LET g == discharge2anyreg(fs)
         IN  condjump(freeexp(g, g.e), "TESTSET", NO_REG, g.e.info, cond)

luaK_goiftrue(fs) ==
    LET g == luaK_dischargevars(fs)
        i == invertjump(g)
        j == jumponcond(g, 0)
        h == CASE g.e.k \in {"K", "KNUM", "TRUE"} -> g
               [] g.e.k = "JMP" -> ConcatF(i, i.e.info)
               [] OTHER -> ConcatF(j, Len(j.code))
    IN  [luaK_patchtohere(h, h.e.t) EXCEPT !.e.t = NO_JUMP]

luaK_goiffalse(fs) ==
    LET g == luaK_dischargevars(fs)
        j == jumponcond(g, 1)
        h == CASE g.e.k \in {"NIL", "FALSE"} -> g
               [] g.e.k = "JMP" -> ConcatT(g, g.e.info)
               [] OTHER -> ConcatT(j, Len(j.code))
    IN  [luaK_patchtohere(h, h.e.f) EXCEPT !.e.f = NO_JUMP]

codenot(fs) ==
    LET g == luaK_dischargevars(fs)
        d == discharge2anyreg(g)
        h == CASE g.e.k \in {"NIL", "FALSE"} -> [g EXCEPT !.e.k = "TRUE"]
               [] g.e.k \in {"K", "KNUM", "TRUE"} -> [g EXCEPT !.e.k = "FALSE"]
               [] g.e.k = "JMP" -> invertjump(g)
               [] OTHER -> Relocable(luaK_codeABC(freeexp(d, d.e), "NOT", 0, d.e.info, 0))
        swapped == [h EXCEPT !.e.t = h.e.f, !.e.f = h.e.t]
    IN  removevalues(removevalues(swapped, swapped.e.f), swapped.e.t)

\* DIV and POW fold as MOD and MUL do.
constfolding(op, e1, e2) == /\ isnumeral(e1) /\ isnumeral(e2)
                            /\ ~(op = "MOD" /\ e2.nval = 0)
                            /\ op # "LEN"

codearith(fs, op, e1, e2) ==
    IF constfolding(op, e1, e2)
    THEN With(fs, [e1 EXCEPT !.nval = NumArith(op, e1.nval, e2.nval)[2]])
    ELSE LET binary == op \notin {"UNM", "LEN"}
             r2 == luaK_exp2RK(With(fs, e2))
             o2 == IF binary THEN RK(r2.e) ELSE 0
             r1 == luaK_exp2RK(With(IF binary THEN r2 ELSE fs, e1))
             o1 == RK(r1.e)
             x2 == IF binary THEN r2.e ELSE e2
             freed == IF o1 > o2 THEN freeexp(freeexp(r1, r1.e), x2)
                      ELSE freeexp(freeexp(r1, x2), r1.e)
         IN  Relocable(luaK_codeABC(freed, op, 0, o1, o2))

\* a > b is b < a; a ~= b is the negation of a == b.
codecomp(fs, op, cond, e1, e2) ==
    LET r1 == luaK_exp2RK(With(fs, e1))
        r2 == luaK_exp2RK(With(r1, e2))
        freed == freeexp(freeexp(r2, r2.e), r1.e)
        swap == cond = 0 /\ op # "EQ"
        j == condjump(With(freed, r1.e), op, IF swap THEN 1 ELSE cond,
                      IF swap THEN RK(r2.e) ELSE RK(r1.e),
                      IF swap THEN RK(r1.e) ELSE RK(r2.e))
    IN  Becomes(j, "JMP", Len(j.code))

luaK_prefix(fs, op) ==
    CASE op = "not" -> codenot(fs)
      [] op = "#" -> LET g == luaK_exp2anyreg(fs) IN codearith(g, "LEN", g.e, init_exp("KNUM", 0))
      [] op = "-" -> LET g == IF isnumeral(fs.e) THEN fs ELSE luaK_exp2anyreg(fs)
                     IN  codearith(g, "UNM", g.e, init_exp("KNUM", 0))

ArithOp == [x \in {"+", "-", "*", "%"} |->
              CASE x = "+" -> "ADD" [] x = "-" -> "SUB" [] x = "*" -> "MUL" [] x = "%" -> "MOD"]

luaK_infix(fs, op) ==
    CASE op = "and" -> luaK_goiftrue(fs)
      [] op = "or" -> luaK_goiffalse(fs)
      [] op = ".." -> luaK_exp2nextreg(fs)
      [] op \in DOMAIN ArithOp /\ isnumeral(fs.e) -> fs
      [] OTHER -> luaK_exp2RK(fs)

\* fs.e is the second operand.
luaK_posfix(fs, op, e1) ==
    LET d == luaK_dischargevars(fs)
        v == luaK_exp2val(fs)
        next == luaK_exp2nextreg(v)
        freed == freeexp(lua_assert(v, e1.info = getcode(v).b - 1), e1)
    IN  CASE op = "and" -> ConcatF(lua_assert(d, e1.t = NO_JUMP), e1.f)
          [] op = "or" -> ConcatT(lua_assert(d, e1.f = NO_JUMP), e1.t)
          [] op = ".." ->
               IF v.e.k = "RELOCABLE" /\ getcode(v).op = "CONCAT"
               THEN With([freed EXCEPT !.code[v.e.info].b = e1.info],
                         [e1 EXCEPT !.k = "RELOCABLE", !.info = v.e.info])
               ELSE codearith(next, "CONCAT", e1, next.e)
          [] op \in DOMAIN ArithOp -> codearith(fs, ArithOp[op], e1, fs.e)
          [] op = "==" -> codecomp(fs, "EQ", 1, e1, fs.e)
          [] op = "~=" -> codecomp(fs, "EQ", 0, e1, fs.e)
          [] op = "<" -> codecomp(fs, "LT", 1, e1, fs.e)
          [] op = "<=" -> codecomp(fs, "LE", 1, e1, fs.e)
          [] op = ">" -> codecomp(fs, "LT", 0, e1, fs.e)
          [] op = ">=" -> codecomp(fs, "LE", 0, e1, fs.e)

luaK_setlist(fs, base, nelems, tostore) ==
    LET c == ((nelems - 1) \div LFIELDS_PER_FLUSH) + 1
        b == IF tostore = LUA_MULTRET THEN 0 ELSE tostore
        g == IF c <= MAXARG_C THEN luaK_codeABC(fs, "SETLIST", base, b, c)
             ELSE luaK_code(luaK_codeABC(fs, "SETLIST", base, b, 0), RawWord(c))
    IN  [lua_assert(g, tostore # 0) EXCEPT !.freereg = base + 1]
=============================================================================
