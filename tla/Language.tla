------------------------------ MODULE Language -------------------------------
(* A chunk is loaded, which compiles it, and called.                       *)
EXTENDS Execute, Meaning

CONSTANTS
    Leaf,           \* the smallest expressions
    BinaryOp, UnaryOp,
    Chunks(_),      \* the programs around an expression, as grammar trees
    Globals,        \* the contents the table of globals may have
    MaxOperators,   \* bound: the operators of the expression
    MaxSteps        \* bound: the instructions of a call

VARIABLES
    expression, operators,
    source          \* the chunk that is loaded, and called

vars == <<expression, operators, source>>

Args == <<STR("a"), NUM(7)>>

Init == expression \in Leaf /\ operators = 0 /\ source = <<>>

Write == /\ source = <<>> /\ operators < MaxOperators
         /\ \/ \E op \in BinaryOp, x \in Leaf :
                 \/ expression' = <<"bin", op, expression, x>>
                 \/ expression' = <<"bin", op, x, expression>>
            \/ \E op \in UnaryOp : expression' = <<"un", op, expression>>
         /\ operators' = operators + 1
         /\ UNCHANGED source

LoadChunk == /\ source = <<>> /\ source' \in Chunks(expression)
             /\ UNCHANGED <<expression, operators>>

Next == Write \/ LoadChunk
Spec == Init /\ [][Next]_vars
-----------------------------------------------------------------------------
\* A chunk does what its text means: what lparser.c and lcode.c make of it,
\* run by luaV_execute, returns the values, calls the functions and leaves the
\* tables that the grammar tree evaluated directly does.  No register is freed
\* or used again while it holds an operand, every pending jump reaches the code
\* it waits for, and a variable captured in a loop, a block or a function
\* that has ended is the right one (lcode.c:145, 207, 627; lparser.c:305).
Means(object, text) ==
    \A globals \in Globals :
        Given(Run(Machine(object, globals, Args), MaxSteps),
              LAMBDA m : Idle(m) /\ [w |-> m.w, ret |-> m.ret] = Meaning(text, globals, Args))
LoadedMeansSource ==
    LoadChunk => Given(Proto(Compiled(MainFunc, source')), LAMBDA object : Means(object, source'))
CompiledMeansSource == [][LoadedMeansSource]_vars

\* The assertions of the compiler hold, and each function it ends passes
\* luaG_checkcode: no register beyond maxstacksize, no jump out of the code, no
\* instruction that expects an open result without one (lcode.c:192;
\* ldebug.c:499; lparser.c:361).
LoadAsserts == LoadChunk => Compiled(MainFunc, source').ok
AssertionsHold == [][LoadAsserts]_vars
=============================================================================
