------------------------------ MODULE CheckCode ------------------------------
(* The code checker of ldebug.c: luaG_checkcode, the symbolic execution of *)
(* a whole prototype, with the modes of the opcodes in lopcodes.c.         *)
EXTENDS CodeGen

Moves == {"JMP", "FORLOOP", "FORPREP"}
Arithmetic == {"ADD", "SUB", "MUL", "DIV", "MOD", "POW"}
OpArgN(i) == (IF i.op \in {"MOVE", "LOADNIL", "GETUPVAL", "SETUPVAL", "UNM", "NOT", "LEN",
                           "RETURN", "CLOSE", "VARARG"} THEN {i.c} ELSE {})
             \cup (IF i.op \in {"TFORLOOP", "CLOSE"} THEN {i.b} ELSE {})
OpArgR(i) == (IF i.op \in {"MOVE", "LOADNIL", "GETTABLE", "SELF", "UNM", "NOT", "LEN",
                           "CONCAT", "TEST", "TESTSET"} THEN {i.b} ELSE {})
             \cup (IF i.op = "CONCAT" THEN {i.c} ELSE {})
OpArgK(i) == (IF i.op \in Arithmetic \cup {"SETTABLE", "EQ", "LT", "LE"} THEN {i.b, i.c} ELSE {})
             \cup (IF i.op \in {"GETTABLE", "SELF"} THEN {i.c} ELSE {})

checkreg(pt, reg) == reg < pt.maxstacksize

precheck(pt) ==
    /\ pt.numparams <= pt.maxstacksize
    /\ pt.code # <<>> /\ Last(pt.code).op = "RETURN"

checkArgMode(pt, i) ==
    /\ \A r \in OpArgN(i) : r = 0
    /\ \A r \in OpArgR(i) : checkreg(pt, r)
    /\ \A r \in OpArgK(i) : IF ISK(r) THEN INDEXK(r) < Len(pt.k) ELSE checkreg(pt, r)
    /\ i.op \in {"LOADK", "GETGLOBAL", "SETGLOBAL"} => i.b < Len(pt.k)

IsSetlistWithCount(i) == i.op = "SETLIST" /\ i.c = 0

\* A jump must not land on the count behind a SETLIST.
checkjump(pt, dest) ==
    LET run == {n \in 1 .. dest - 1 : \A j \in n .. dest - 1 : IsSetlistWithCount(pt.code[j])}
    IN  dest \in DOMAIN pt.code /\ Cardinality(run) % 2 = 0

luaG_checkopenop(i) == i.op \in {"CALL", "TAILCALL", "RETURN", "SETLIST"} /\ i.b = 0

checkop(pt, at) ==
    LET i == pt.code[at]
        a == i.a
        nresults == i.c - 1
        nup == Len(pt.p[i.b + 1].upvalues)
        Open(n) == n = LUA_MULTRET => luaG_checkopenop(pt.code[at + 1])
    IN  CASE i.op = "LOADBOOL" -> i.c = 1 => /\ at + 2 <= Len(pt.code)
                                             /\ ~IsSetlistWithCount(pt.code[at + 1])
          [] i.op \in {"GETUPVAL", "SETUPVAL"} -> i.b < Len(pt.upvalues)
          [] i.op \in {"GETGLOBAL", "SETGLOBAL"} -> pt.k[i.b + 1][1] = "string"
          [] i.op = "SELF" -> checkreg(pt, a + 1)
          [] i.op = "CONCAT" -> i.b < i.c
          [] i.op = "TFORLOOP" -> i.c >= 1 /\ checkreg(pt, a + 2 + i.c)
          [] i.op \in {"FORLOOP", "FORPREP"} -> checkreg(pt, a + 3)
          [] i.op \in {"CALL", "TAILCALL"} -> /\ i.b # 0 => checkreg(pt, a + i.b - 1)
                                              /\ Open(nresults)
                                              /\ nresults > 0 => checkreg(pt, a + nresults - 1)
          [] i.op = "RETURN" -> i.b > 1 => checkreg(pt, a + i.b - 2)
          [] i.op = "SETLIST" -> /\ i.b > 0 => checkreg(pt, a + i.b)
                                 /\ i.c = 0 => at + 1 < Len(pt.code)
          [] i.op = "CLOSURE" -> /\ i.b < Len(pt.p) /\ at + nup < Len(pt.code)
                                 /\ \A j \in 1 .. nup : pt.code[at + j].op \in {"GETUPVAL", "MOVE"}
          [] i.op = "VARARG" -> pt.is_vararg /\ Open(i.b - 1) /\ checkreg(pt, a + i.b - 2)
          [] OTHER -> TRUE

\* The words that are instructions; a word behind SETLIST is its count.
RECURSIVE InstructionsFrom(_, _)
InstructionsFrom(code, at) ==
    IF at > Len(code) THEN {}
    ELSE {at} \cup InstructionsFrom(code, IF IsSetlistWithCount(code[at]) THEN at + 2 ELSE at + 1)

luaG_checkcode(pt) ==
    /\ precheck(pt)
    /\ \A at \in InstructionsFrom(pt.code, 1) :
         LET i == pt.code[at] IN
         /\ checkreg(pt, i.a)
         /\ checkArgMode(pt, i)
         /\ i.op \in Moves => checkjump(pt, i.jump)
         /\ i.op \in TMode => at + 2 <= Len(pt.code) /\ pt.code[at + 1].op = "JMP"
         /\ checkop(pt, at)
=============================================================================
