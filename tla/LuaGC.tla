-------------------------------- MODULE LuaGC --------------------------------
(***************************************************************************)
(* The incremental mark-and-sweep collector (lgc.c) running against the    *)
(* program: marking, the atomic phase, sweeping, finalization, the write   *)
(* barriers, upvalues (lfunc.c) and the revival of strings (lstring.c).    *)
(*                                                                         *)
(* An object is a name that is allocated, freed and allocated again; its   *)
(* kind is fixed.  A stack is the set of objects on it, a table has one    *)
(* entry, a userdata or closure one field beside its upvalues.  A list of  *)
(* the collector is a set: each step takes any member, so every order of   *)
(* the lists is covered.                                                   *)
(***************************************************************************)
EXTENDS Naturals, FiniteSets

CONSTANTS
    Thread, Main,           \* lua_States, the main thread
    Table,
    WeakKey, WeakValue,     \* the tables whose metatable has __mode 'k', 'v'
    Udata, Finalizable,     \* userdata; those whose metatable has __gc
    Closure, Upval, String,
    Keys,                   \* objects used as table keys
    None,                   \* no object
    MaxStack,               \* bound: objects on the stacks
    Ops                     \* the optional operations a run includes

Kinds == <<Thread, Table, Udata, Closure, Upval, String>>
Obj == Thread \cup Table \cup Udata \cup Closure \cup Upval \cup String

ASSUME KindAssumption ==
    /\ Main \in Thread
    /\ WeakKey \subseteq Table /\ WeakValue \subseteq Table
    /\ Finalizable \subseteq Udata
    /\ Keys \subseteq Obj
    /\ None \notin Obj
    /\ MaxStack \in Nat
    /\ IsFiniteSet(Obj)
    /\ \A i, j \in DOMAIN Kinds : i # j => Kinds[i] \cap Kinds[j] = {}

VARIABLES
    (* the program's data *)
    ref,        \* object -> what a stack, closure, upvalue or userdata refers to
    node,       \* table -> its entries
    slot,       \* upvalue -> the thread whose stack holds its value; None if closed
    running,    \* the running thread
    (* the collector *)
    color,      \* marked: "free", "w0", "w1", "gray" or "black"
    white,      \* currentwhite
    phase,      \* gcstate
    gray, grayagain, weak,    \* lists linked by gclist
    unswept,    \* what sweepstrgc and sweepgc have yet to visit
    tmudata,    \* userdata whose finalizer is pending
    finalized,  \* FINALIZEDBIT
    full,       \* "no", or what a full collection is doing
    called      \* history: the userdata whose finalizer was called

data == <<ref, node, slot, running>>
lists == <<gray, grayagain, weak, unswept>>
vars == <<data, color, white, phase, lists, tmudata, finalized, full, called>>

-----------------------------------------------------------------------------
Weak == WeakKey \cup WeakValue
Linked == Thread \cup Table \cup Closure    \* kinds with a gclist field
Entry == [key : Keys \cup {None}, val : Obj]

Live == {o \in Obj : color[o] # "free"}
White == {o \in Obj : color[o] \in {"w0", "w1"}}
other == IF white = "w0" THEN "w1" ELSE "w0"    \* otherwhite
Dead(o) == color[o] = other                     \* isdead
Open(t) == {u \in Upval : slot[u] = t}          \* L->openupval

(* Everything the program can follow from o, weak references included.     *)
Out(o) ==
    IF o \in Table THEN UNION {{e.key, e.val} \ {None} : e \in node[o]}
    ELSE ref[o] \cup (IF o \in Thread THEN UNION {ref[u] : u \in Open(o)} ELSE {})

BadStrong(o) ==    \* an open upvalue's stack slot is forgotten
    IF o \in Table
    THEN UNION {(IF o \in WeakKey THEN {} ELSE {e.key} \ {None})
                \cup (IF o \in WeakValue THEN {} ELSE {e.val}) : e \in node[o]}
    ELSE ref[o]

(* What traversing o marks.                                                *)
Strong(o) ==
    IF o \in Table
    THEN UNION {(IF o \in WeakKey THEN {} ELSE {e.key} \ {None})
                \cup (IF o \in WeakValue THEN {} ELSE {e.val}) : e \in node[o]}
    ELSE Out(o)

(* The members of W reached from those in S through W, in the graph E.     *)
Reached(S, W, E) ==
    LET R[X \in SUBSET Obj] ==
            LET Y == X \cup UNION {E[o] \cap W : o \in X} IN IF Y = X THEN X ELSE R[Y]
    IN  W \cap R[S \cap W]

(* What the program can get at.                                            *)
Usable == Reached({Main, running}, Obj, [o \in Obj |-> Out(o)])

-----------------------------------------------------------------------------
(* Marking.                                                                *)

(* The objects markobject of the members of S marks: userdata and upvalues *)
(* mark what they refer to at once.                                        *)
MarkedWith(S) ==
    Reached(S, White, [o \in Obj |-> IF o \in Udata \cup Upval THEN Strong(o) ELSE {}])

(* reallymarkobject: the color an object gets.                             *)
MarkColor(o) ==
    IF o \in Udata \/ (o \in Upval /\ slot[o] = None) THEN "black" ELSE "gray"

(* ... and its color once it has been traversed.                           *)
TraversedColor(o) ==
    IF o \in Thread \cup Weak \cup String \/ (o \in Upval /\ slot[o] # None) THEN "gray" ELSE "black"

Mark(S) ==
    LET M == MarkedWith(S)
    IN  /\ color' = [o \in Obj |-> IF o \in M THEN MarkColor(o) ELSE color[o]]
        /\ gray' = gray \cup (M \cap Linked)

MarkRoot ==
    LET M == MarkedWith({Main})
    IN  /\ color' = [o \in Obj |-> IF o \in M THEN MarkColor(o) ELSE color[o]]
        /\ gray' = M \cap Linked
        /\ grayagain' = {} /\ weak' = {}
        /\ phase' = "propagate"
        /\ UNCHANGED <<data, white, unswept, tmudata, finalized, called>>

(* GCSpause                                                                *)
StartCycle == phase = "pause" /\ full = "no" /\ MarkRoot /\ UNCHANGED full

BadPropagateMark(o) ==    \* links every object it marks
    LET M == MarkedWith(Strong(o))
    IN  /\ phase = "propagate" /\ o \in gray
        /\ color' = [x \in Obj |-> IF x = o THEN TraversedColor(o)
                                   ELSE IF x \in M THEN MarkColor(x) ELSE color[x]]
        /\ gray' = (gray \ {o}) \cup M
        /\ UNCHANGED <<data, white, phase, grayagain, weak, unswept, tmudata, finalized, full, called>>

(* propagatemark                                                           *)
PropagateMark(o) ==
    LET M == MarkedWith(Strong(o))
    IN  /\ phase = "propagate" /\ o \in gray
        /\ color' = [x \in Obj |-> IF x = o THEN TraversedColor(o)
                                   ELSE IF x \in M THEN MarkColor(x) ELSE color[x]]
        /\ gray' = (gray \ {o}) \cup (M \cap Linked)
        /\ grayagain' = IF o \in Thread THEN grayagain \cup {o} ELSE grayagain
        /\ weak' = IF o \in Weak THEN weak \cup {o} ELSE weak
        /\ UNCHANGED <<data, white, phase, unswept, tmudata, finalized, full, called>>

-----------------------------------------------------------------------------
(* The atomic phase.  Marking in it only follows the graph from what is    *)
(* left to traverse, so its four propagateall calls amount to one closure  *)
(* before userdata are separated and one after.                            *)
BadSurvivors ==    \* weak tables are not traversed again
    Reached({running} \cup UNION {Strong(o) : o \in gray \cup grayagain}, White,
            [o \in Obj |-> Strong(o)])

Survivors ==
    LET openMarked == {u \in Upval : slot[u] # None /\ color[u] = "gray"}
        seeds == {running}
                 \cup (UNION {Strong(o) : o \in gray \cup weak \cup grayagain})
                 \cup (UNION {ref[u] : u \in openMarked})    \* remarkupvals
    IN  Reached(seeds, White, [o \in Obj |-> Strong(o)])

(* luaC_separateudata: userdata not marked and not finalized before.       *)
Separated(M) == {u \in (Udata \cap White) \ M : u \notin finalized}

BadPreserved(M, pending) == pending    \* marktmu marks the userdata only

(* marktmu, then propagateall: what pending userdata refer to survives.    *)
Preserved(M, pending) ==
    pending \cup Reached(UNION {Strong(u) : u \in pending}, White \ M, [o \in Obj |-> Strong(o)])

BadCleared(x, isKey, M, done) ==    \* white objects other than values stay
    x \in Obj \ String /\ ~isKey /\ (x \in White \ M \/ (x \in Udata /\ x \in done))

(* iscleared, for an object marked or not and given FINALIZEDBIT.          *)
Cleared(x, isKey, M, done) ==
    /\ x \in Obj \ String
    /\ \/ x \in White \ M
       \/ x \in Udata /\ ~isKey /\ x \in done

(* cleartable: the entries that stay, and the strings they keep alive.  An *)
(* entry without a key object is in the array part.                        *)
Kept(t, M, done) ==
    {e \in node[t] :
        IF e.key = None THEN ~(t \in WeakValue /\ Cleared(e.val, FALSE, M, done))
        ELSE ~Cleared(e.key, TRUE, M, done) /\ ~Cleared(e.val, FALSE, M, done)}

KeptStrings(tables, M, done) ==
    String \cap UNION {{e.key, e.val} : e \in UNION {Kept(t, M, done) : t \in tables}}

Atomic ==
    LET marked == Survivors
        separated == Separated(marked)
        done == finalized \cup separated
        pending == tmudata \cup (separated \cap Finalizable)
        M == marked \cup Preserved(marked, pending)
        traversed == gray \cup weak \cup grayagain \cup M
        cleared == traversed \cap Weak
        strings == KeptStrings(cleared, M, done) \cap White
    IN  /\ phase = "propagate" /\ gray = {}
        /\ color' = [o \in Obj |-> IF o \in traversed \cup strings THEN TraversedColor(o)
                                   ELSE color[o]]
        /\ node' = [t \in Table |-> IF t \in cleared THEN Kept(t, M, done) ELSE node[t]]
        /\ finalized' = done
        /\ tmudata' = pending
        /\ grayagain' = traversed \cap Thread
        /\ weak' = cleared
        /\ unswept' = Live \ (pending \cup {u \in Upval : slot[u] # None})
        /\ white' = other
        /\ phase' = "sweepstring"
        /\ UNCHANGED <<ref, slot, running, gray, full, called>>

-----------------------------------------------------------------------------
(* Sweeping.                                                               *)

(* sweeplist of one object.  A thread's open upvalues are swept with it;   *)
(* if it is freed, luaF_close closes those that survive.                   *)
Sweep(o) ==
    LET swept == {o} \cup (IF o \in Thread THEN Open(o) ELSE {})
        freed == {x \in swept : Dead(x)}
        closed == IF o \in freed /\ o \in Thread THEN Open(o) ELSE freed \cap Upval
    IN  /\ o \in unswept
        /\ phase = IF o \in String THEN "sweepstring" ELSE "sweep"
        /\ color' = [x \in Obj |-> IF x \in freed THEN "free"
                                   ELSE IF x \in swept THEN white ELSE color[x]]
        /\ ref' = [x \in Obj |-> IF x \in freed THEN {}
                                 ELSE IF x = o /\ x \in Thread
                                      THEN ref[x] \cup UNION {ref[u] : u \in freed \cap Upval}
                                      ELSE ref[x]]
        /\ node' = [t \in Table |-> IF t \in freed THEN {} ELSE node[t]]
        /\ slot' = [u \in Upval |-> IF u \in closed THEN None ELSE slot[u]]
        /\ unswept' = unswept \ {o}
        /\ finalized' = finalized \ freed
        /\ called' = called \ freed
        /\ UNCHANGED <<running, white, phase, gray, grayagain, weak, tmudata, full>>

BadEndSweep ==    \* does not wait for the end of the list
    /\ \/ phase = "sweepstring" /\ phase' = "sweep"
       \/ phase = "sweep" /\ phase' = "finalize"
    /\ UNCHANGED <<data, color, white, lists, tmudata, finalized, full, called>>

EndSweep ==
    /\ \/ phase = "sweepstring" /\ unswept \cap String = {} /\ phase' = "sweep"
       \/ phase = "sweep" /\ unswept = {} /\ phase' = "finalize"
    /\ UNCHANGED <<data, color, white, lists, tmudata, finalized, full, called>>

-----------------------------------------------------------------------------
(* Finalization.                                                           *)

(* GCTM: the userdata goes back to the root list and is passed to its      *)
(* finalizer, which runs as program code on the running thread.            *)
GCTM(u) ==
    /\ phase = "finalize" /\ full # "sweep" /\ u \in tmudata
    /\ tmudata' = tmudata \ {u}
    /\ color' = [color EXCEPT ![u] = white]
    /\ ref' = [ref EXCEPT ![running] = @ \cup {u}]
    /\ called' = called \cup {u}
    /\ full' = IF full = "no" THEN "no" ELSE "finalizer"
    /\ UNCHANGED <<node, slot, running, white, phase, lists, finalized>>

FinalizerReturns ==
    /\ full = "finalizer"
    /\ full' = "cycle"
    /\ UNCHANGED <<data, color, white, phase, lists, tmudata, finalized, called>>

EndCycle ==
    /\ phase = "finalize" /\ full # "sweep" /\ tmudata = {}
    /\ phase' = "pause"
    /\ full' = "no"
    /\ UNCHANGED <<data, color, white, lists, tmudata, finalized, called>>

-----------------------------------------------------------------------------
(* luaC_fullgc: abandon a mark in progress or finish the sweep, then run a *)
(* whole cycle; the program runs on in the finalizers only.                *)
ProgramRuns == full \in {"no", "finalizer"}

StartFull ==
    /\ ProgramRuns
    /\ full' = "sweep"
    /\ IF phase \in {"pause", "propagate"}
       THEN /\ unswept' = Live \ (tmudata \cup {u \in Upval : slot[u] # None})
            /\ gray' = {} /\ grayagain' = {} /\ weak' = {}
            /\ phase' = "sweepstring"
       ELSE UNCHANGED <<lists, phase>>
    /\ UNCHANGED <<data, color, white, tmudata, finalized, called>>

FullMark == full = "sweep" /\ phase = "finalize" /\ MarkRoot /\ full' = "cycle"

Collector ==
    \/ StartCycle \/ Atomic \/ EndSweep \/ EndCycle \/ FullMark
    \/ \E o \in Obj : PropagateMark(o) \/ Sweep(o) \/ GCTM(o)
-----------------------------------------------------------------------------
(* The program.  Each step is one API call or opcode of the running        *)
(* thread; allocation is where luaC_checkGC lets the collector step.       *)

Stack == Out(running)

Collection == <<white, phase, weak, unswept, tmudata, finalized, full, called>>

Pushed(x) == [ref EXCEPT ![running] = @ \cup {x}]
HasRoom == Cardinality(UNION {ref[t] : t \in Thread}) < MaxStack

BadForward(o, v) == UNCHANGED <<color, gray>>

(* luaC_barrier, luaC_objbarrier: o now refers to v.                       *)
Forward(o, v) ==
    IF color[o] = "black" /\ v \in White
    THEN IF phase = "propagate" THEN Mark({v})
         ELSE color' = [color EXCEPT ![o] = white] /\ UNCHANGED gray
    ELSE UNCHANGED <<color, gray>>

BadBack(t, S) ==    \* the table is not linked
    /\ color' = IF color[t] = "black" /\ S \cap White # {} THEN [color EXCEPT ![t] = "gray"] ELSE color
    /\ UNCHANGED grayagain

BadNoBack(t, S) == UNCHANGED <<color, grayagain>>

(* luaC_barriert, luaC_barrierback: table t now refers to S.               *)
Back(t, S) ==
    IF color[t] = "black" /\ S \cap White # {}
    THEN color' = [color EXCEPT ![t] = "gray"] /\ grayagain' = grayagain \cup {t}
    ELSE UNCHANGED <<color, grayagain>>

(* luaC_link: lua_createtable, lua_newuserdata, lua_newthread, newlstr.    *)
New(o) ==
    /\ color[o] = "free" /\ o \notin Closure \cup Upval
    /\ HasRoom
    /\ color' = [color EXCEPT ![o] = white]
    /\ ref' = Pushed(o)
    /\ UNCHANGED <<node, slot, running, gray, grayagain, Collection>>

BadRevived(o) == color[o]

(* newlstr and luaF_findupval find an object that is dead but not swept.   *)
Revived(o) == IF Dead(o) THEN white ELSE color[o]

(* luaS_newlstr of a string that exists.                                   *)
Intern(s) ==
    /\ s \in String \cap Live
    /\ HasRoom
    /\ color' = [color EXCEPT ![s] = Revived(s)]
    /\ ref' = Pushed(s)
    /\ UNCHANGED <<node, slot, running, gray, grayagain, Collection>>

(* OP_CLOSURE with upvalue u: one of the enclosing closure's, an open one  *)
(* of the running thread, or a new one for the stack slot that holds x.    *)
NewClosure(f, u, x) ==
    /\ f \in Closure /\ u \in Upval /\ x \in Stack
    /\ color[f] = "free"
    /\ HasRoom
    /\ \/ /\ \E g \in Stack \cap Closure : u \in ref[g]
          /\ color' = [color EXCEPT ![f] = white]
          /\ ref' = [Pushed(f) EXCEPT ![f] = {u}]
          /\ UNCHANGED slot
       \/ /\ slot[u] = running
          /\ color' = [color EXCEPT ![f] = white, ![u] = Revived(u)]
          /\ ref' = [Pushed(f) EXCEPT ![f] = {u}]
          /\ UNCHANGED slot
       \/ /\ color[u] = "free"
          /\ color' = [color EXCEPT ![f] = white, ![u] = white]
          /\ ref' = [Pushed(f) EXCEPT ![f] = {u}, ![u] = {x}]
          /\ slot' = [slot EXCEPT ![u] = running]
    /\ UNCHANGED <<node, running, gray, grayagain, Collection>>

(* What can be read from o: a closure's upvalues give their values.        *)
Readable(o) == IF o \in Closure THEN UNION {ref[u] : u \in ref[o]} ELSE Out(o)

(* OP_GETTABLE, OP_GETUPVAL, lua_getfenv, lua_xmove from another stack ... *)
Load(x) ==
    /\ \E o \in Stack : x \in Readable(o)
    /\ HasRoom
    /\ ref' = Pushed(x)
    /\ UNCHANGED <<node, slot, running, color, gray, grayagain, Collection>>

Pop(x) ==
    /\ x \in ref[running]
    /\ ref' = [ref EXCEPT ![running] = @ \ {x}]
    /\ UNCHANGED <<node, slot, running, color, gray, grayagain, Collection>>

(* luaV_settable, lua_rawset: one entry replaces the other; luaH_set has a *)
(* barrier for a new key, its caller one for the value.                    *)
SetTable(t, k, v) ==
    /\ {t, v} \cup ({k} \ {None}) \subseteq Stack /\ t \in Table
    /\ node' = [node EXCEPT ![t] = {[key |-> k, val |-> v]}]
    /\ Back(t, {k, v})
    /\ UNCHANGED <<ref, slot, running, gray, Collection>>

ClearTable(t) ==
    /\ t \in Stack \cap Table
    /\ node' = [node EXCEPT ![t] = {}]
    /\ UNCHANGED <<ref, slot, running, color, gray, grayagain, Collection>>

(* lua_setfenv, lua_setmetatable of a userdata.                            *)
SetField(u, t) ==
    /\ u \in Stack \cap Udata /\ t \in Stack \cap Table
    /\ ref' = [ref EXCEPT ![u] = {t}]
    /\ Forward(u, t)
    /\ UNCHANGED <<node, slot, running, grayagain, Collection>>

(* OP_SETUPVAL has its barrier on the upvalue; lua_setupvalue, on the      *)
(* closure.                                                                *)
SetUpval(f, u, v) ==
    /\ f \in Stack \cap Closure /\ u \in ref[f] /\ v \in Stack
    /\ ref' = [ref EXCEPT ![u] = {v}]
    /\ Forward(u, v) \/ ("setupvalue" \in Ops /\ Forward(f, v))
    /\ UNCHANGED <<node, slot, running, grayagain, Collection>>

(* Assigning to the local variable an open upvalue stands for.             *)
SetLocal(u, v) ==
    /\ slot[u] = running /\ v \in Stack
    /\ ref' = [ref EXCEPT ![u] = {v}]
    /\ UNCHANGED <<node, slot, running, color, gray, grayagain, Collection>>

(* lua_upvaluejoin.                                                        *)
UpvalueJoin(f, g, u) ==
    /\ {f, g} \subseteq Stack \cap Closure /\ u \in ref[g]
    /\ ref' = [ref EXCEPT ![f] = {u}]
    /\ Forward(f, u)
    /\ UNCHANGED <<node, slot, running, grayagain, Collection>>

BadLinkUpval(u) ==    \* stays gray, without a barrier
    UNCHANGED <<color, gray>>

(* luaC_linkupval                                                          *)
LinkUpval(u) ==
    IF color[u] # "gray" THEN UNCHANGED <<color, gray>>
    ELSE IF phase = "propagate"
    THEN LET M == MarkedWith(ref[u])
         IN  /\ color' = [o \in Obj |-> IF o = u THEN "black"
                                        ELSE IF o \in M THEN MarkColor(o) ELSE color[o]]
             /\ gray' = gray \cup (M \cap Linked)
    ELSE color' = [color EXCEPT ![u] = white] /\ UNCHANGED gray

(* luaF_close when the variable goes out of scope.                         *)
CloseUpval(u) ==
    /\ slot[u] = running
    /\ slot' = [slot EXCEPT ![u] = None]
    /\ IF Dead(u)
       THEN /\ color' = [color EXCEPT ![u] = "free"]
            /\ ref' = [ref EXCEPT ![u] = {}]
            /\ UNCHANGED gray
       ELSE LinkUpval(u) /\ UNCHANGED ref
    /\ UNCHANGED <<node, running, grayagain, Collection>>

(* lua_xmove to another stack: stacks have no barrier.                     *)
XMove(t, x) ==
    /\ t \in Stack \cap Thread /\ x \in Stack
    /\ ref' = [ref EXCEPT ![t] = @ \cup {x}]
    /\ UNCHANGED <<node, slot, running, color, gray, grayagain, Collection>>

(* The main thread resumes a coroutine; the coroutine yields to it.        *)
Resume(t) ==
    /\ running = Main /\ t \in (Stack \cap Thread) \ {Main}
    /\ running' = t
    /\ UNCHANGED <<ref, node, slot, color, gray, grayagain, Collection>>

Yield ==
    /\ running # Main
    /\ running' = Main
    /\ UNCHANGED <<ref, node, slot, color, gray, grayagain, Collection>>

Program ==
    \/ /\ ProgramRuns
       /\ \/ \E o \in Obj : New(o) \/ Intern(o) \/ Load(o) \/ Pop(o)
          \/ \E f \in Closure, u \in Upval, x \in Obj : NewClosure(f, u, x) \/ SetUpval(f, u, x)
          \/ \E f, g \in Closure, u \in Upval : UpvalueJoin(f, g, u)
          \/ \E t \in Table, k \in Keys \cup {None}, v \in Obj : SetTable(t, k, v)
          \/ \E t \in Table : ClearTable(t)
          \/ \E u \in Udata, t \in Table : SetField(u, t)
          \/ \E u \in Upval, v \in Obj : SetLocal(u, v)
          \/ \E u \in Upval : CloseUpval(u)
          \/ \E t \in Thread, x \in Obj : XMove(t, x)
          \/ \E t \in Thread : Resume(t)
          \/ Yield
    \/ "full" \in Ops /\ StartFull
    \/ FinalizerReturns

Init ==
    /\ ref = [o \in Obj |-> {}]
    /\ node = [t \in Table |-> {}]
    /\ slot = [u \in Upval |-> None]
    /\ running = Main
    /\ color = [o \in Obj |-> IF o = Main THEN "w0" ELSE "free"]
    /\ white = "w0"
    /\ phase = "pause"
    /\ gray = {} /\ grayagain = {} /\ weak = {} /\ unswept = {}
    /\ tmudata = {} /\ finalized = {} /\ called = {}
    /\ full = "no"

Next == Program \/ Collector

Spec == Init /\ [][Next]_vars

(* The program keeps allocating, so the collector keeps stepping.          *)
FairSpec == Spec /\ WF_vars(Collector)
-----------------------------------------------------------------------------
(* Correctness.                                                            *)

(* Every variable keeps its type.                                          *)
TypeOK ==
    /\ ref \in [Obj -> SUBSET Obj]
    /\ node \in [Table -> SUBSET Entry]
    /\ slot \in [Upval -> Thread \cup {None}]
    /\ running \in Thread
    /\ color \in [Obj -> {"free", "w0", "w1", "gray", "black"}]
    /\ white \in {"w0", "w1"}
    /\ phase \in {"pause", "propagate", "sweepstring", "sweep", "finalize"}
    /\ gray \subseteq Linked /\ grayagain \subseteq Linked /\ weak \subseteq Weak
    /\ unswept \subseteq Obj /\ tmudata \subseteq Finalizable
    /\ finalized \subseteq Udata /\ called \subseteq Udata
    /\ full \in {"no", "sweep", "cycle", "finalizer"}

(* Nothing the program can get at, through weak references too, has been   *)
(* freed.                                                                  *)
MemorySafe == \A o \in Usable : color[o] # "free"

(* While marking, no black object refers to a white one: barriers, closed  *)
(* upvalues and tables written after their traversal keep what the sweep   *)
(* relies on ("restore invariant" in luaC_barrierf).                       *)
TriColour ==
    phase = "propagate" =>
        \A o \in Obj \ tmudata : color[o] = "black" => Strong(o) \cap White = {}

(* gclist is one field: while marking, an object with one is gray if and   *)
(* only if it is linked, and then into one list.                           *)
LinkedOnce ==
    phase = "propagate" =>
        /\ gray \cap grayagain = {} /\ gray \cap weak = {} /\ grayagain \cap weak = {}
        /\ gray \cup grayagain \cup weak = {o \in Linked : color[o] = "gray"}

(* Only what the last mark left behind is dead, so reallymarkobject never  *)
(* meets a dead object, and a program that has resurrected a string or an  *)
(* upvalue before it was swept has really done so.                         *)
DeadAreUnusable ==
    /\ \A o \in Usable : ~Dead(o)
    /\ phase \in {"pause", "propagate", "finalize"} => \A o \in Obj : ~Dead(o)

(* A weak table loses an entry to the collector only if the key or value   *)
(* was not strongly reachable, or the value is a finalized userdata.       *)
StronglyReachable == Reached({Main, running}, Obj, [o \in Obj |-> Strong(o)])
WeakEntriesOutliveReferents == [][
    Atomic => \A t \in Table : \A e \in node[t] \ node'[t] :
        \/ ~({e.key, e.val} \subseteq StronglyReachable \cup {None})
        \/ e.val \in finalized'
    ]_vars

(* Once an object is out of the program's reach it is freed, unless its    *)
(* finalizer or a lookup of the string brings it back.                     *)
GarbageIsFreed ==
    \A o \in Obj : (o \in Live /\ o \notin Usable) ~> (o \notin Live \/ o \in Usable)

(* The collector keeps the contract of the heap.                           *)
Held == Reached({Main, running}, Obj, [o \in Obj |-> Strong(o) \ tmudata])
Contract == INSTANCE HeapContract WITH
    usable <- Usable, held <- Held, live <- Live, pending <- tmudata, done <- called,
    Revivable <- String \cup Upval
HeapIsSafe == Contract!Spec
=============================================================================
