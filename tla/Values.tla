------------------------------- MODULE Values --------------------------------
(* The values of a Lua program and what the compiler and the interpreter   *)
(* leave to other parts: arithmetic, comparison, indexing and the host's   *)
(* functions.  What is done to a value that is not a number or a table     *)
(* would be a metamethod: it is recorded in the log, in its order.         *)
(* w is a world: [tables, globals, log].                                   *)
EXTENDS Integers, Sequences, SequencesExt, FiniteSets, TLC

NIL == <<"nil">>
BOOL(b) == <<"boolean", b>>
NUM(n) == <<"number", n>>
STR(s) == <<"string", s>>

IsFalse(v) == v \in {NIL, BOOL(FALSE)}
IsNum(v) == v[1] = "number"

Logged(w, event) == [w EXCEPT !.log = Append(@, event)]
Answer(w, v) == [w |-> w, v |-> v]
Metamethod(w, op, x, y) == Answer(Logged(w, <<op, x, y>>), <<"result", op, x, y>>)

\* The arithmetic of numbers; x % 0 is not a number and x / y is not used.
NumArith(op, x, y) == CASE op = "ADD" -> NUM(x + y)
                        [] op = "SUB" -> NUM(x - y)
                        [] op = "MUL" -> NUM(x * y)
                        [] op = "MOD" -> IF y = 0 THEN <<"nan">>
                                         ELSE NUM(IF y > 0 THEN x % y ELSE -((-x) % (-y)))
                        [] op = "UNM" -> NUM(-x)

Arith(w, op, x, y) == IF op \in {"ADD", "SUB", "MUL", "MOD", "UNM"} /\ IsNum(x) /\ IsNum(y)
                      THEN Answer(w, NumArith(op, x[2], y[2]))
                      ELSE Metamethod(w, op, x, y)

\* Whether x < y or x <= y.
Compare(w, op, x, y) ==
    IF IsNum(x) /\ IsNum(y) THEN Answer(w, IF op = "LT" THEN x[2] < y[2] ELSE x[2] <= y[2])
    ELSE Answer(Logged(w, <<op, x, y>>), x[1] = "string")

Index(w, t, k) ==
    IF t[1] # "table" THEN Metamethod(w, "index", t, k)
    ELSE Answer(w, IF k \in DOMAIN w.tables[t[2]] THEN w.tables[t[2]][k] ELSE NIL)

SetIndex(w, t, k, v) ==
    IF t[1] = "table" THEN [w EXCEPT !.tables[t[2]] = (k :> v) @@ @]
    ELSE Logged(w, <<"newindex", t, k, v>>)

NewTable(w) == Answer([w EXCEPT !.tables = Append(@, <<>>)], <<"table", Len(w.tables) + 1>>)

\* A call of the host: `next' counts to 2, any other changes the global x.
HostCall(w, f, args) ==
    LET n == args[2] IN
    IF f = <<"host", "next">>
    THEN [w |-> w, vs |-> <<IF n = NIL THEN NUM(1) ELSE IF n[2] < 2 THEN NUM(n[2] + 1) ELSE NIL>>]
    ELSE LET r == NUM(Len(w.log) + 1)
         IN  [w |-> [Logged(w, <<"call", f, args>>) EXCEPT !.globals = ("x" :> r) @@ @],
              vs |-> <<r, STR("r")>>]

GlobalOf(w, n) == IF n \in DOMAIN w.globals THEN w.globals[n] ELSE NIL
Take(vs, n) == [i \in 1 .. n |-> IF i <= Len(vs) THEN vs[i] ELSE NIL]
=============================================================================
