------------------------------- MODULE MCParts -------------------------------
(* The parts of the program that share no state, each on an instance that  *)
(* TLC explores whole: a behaviour picks a part and runs it.  The parts    *)
(* that share the taint state or the heap have runs of their own.          *)
EXTENDS Calls, Programs

CONSTANTS
    main, co,
    closure, upvalue,                          \* of the collector
    counted1, counted2, file1, file2,          \* functions, their sources
    string, object, value, None, Nil           \* keys and values of tables

\* The parts but the calls take turns in the same variables: which of a part's
\* each stands for is said where its module is instantiated.
VARIABLES part, s1, s2, s3, s4, s5, s6, s7, s8, s9, s10, s11, s12, s13, s14, s15
-----------------------------------------------------------------------------
\* The setters of the taint library, with one thread and two closures.
Api == INSTANCE TaintVM WITH
    Taint <- {"addon"}, NULL <- "secure", Main <- main, Thread <- {main},
    Closure <- {counted1, counted2}, Vararg <- {}, Cell <- {},
    Lib <- {"settaint", "settaintmode", "setnewtaint"}, MaxFrames <- 3, MaxC <- 1,
    ts <- s1, ci <- s2, st <- s3, cstack <- s4, clo <- s5, heap <- s6, ctl <- s7

G == INSTANCE LuaGC WITH
    Thread <- {main, co}, Main <- main, Table <- {}, WeakKey <- {}, WeakValue <- {},
    Udata <- {}, Finalizable <- {}, Closure <- {closure}, Upval <- {upvalue},
    String <- {}, Keys <- {}, MaxStack <- 2, Ops <- {},
    ref <- s1, node <- s2, slot <- s3, running <- s4, color <- s5, white <- s6,
    phase <- s7, gray <- s8, grayagain <- s9, weak <- s10, unswept <- s11, tmudata <- s12,
    finalized <- s13, full <- s14, called <- s15

Hook == INSTANCE Hooks WITH
    Masks <- {{}, {"count", "line"}}, HookCounts <- {1, 2}, CheckCounts <- {2}, MaxDepth <- 2,
    hook <- s1, hookmask <- s2, basehookcount <- s3, hookcount <- s4, allowhook <- s5,
    limit <- s6, left <- s7, cstack <- s8, status <- s9, armed <- s10,
    own <- s11, unchecked <- s12, unhooked <- s13

Profile == INSTANCE Profiling WITH
    LuaFn <- {counted1, counted2}, pcall <- "pcall", resume <- "resume", yield <- "yield",
    Owner <- [f \in {counted1, counted2} |-> IF f = counted1 THEN file1 ELSE file2],
    MaxClock <- 3, MaxFrames <- 4, MaxCalls <- 2,
    clock <- s1, enabled <- s2, stats <- s3, nopencalls <- s4, frames <- s5,
    running <- s6, made <- s7, sources <- s8, nested <- s9

\* Few registers, so that constants leave the operands and lists are flushed.
Chunk == INSTANCE Language WITH
    MAXINDEXRK <- 2, LFIELDS_PER_FLUSH <- 2, MAXARG_C <- 1, MAXREG <- 20, MaxOperators <- 1,
    BinaryOp <- {"and", "or", "..", "-", "==", "~=", ">"}, UnaryOp <- {"not", "-"},
    Leaf <- Leaves, Chunks <- ChunksAround, Globals <- GlobalTables,
    MaxSteps <- 200,
    expression <- s1, operators <- s2, source <- s3

\* Keys that collide, in and behind the array.
Tables == INSTANCE LuaTable WITH
    IntKey <- {1, 2, 4}, StrKey <- {string}, ObjKey <- {object},
    Hash <- [k \in {string, object} |-> IF k = string THEN 1 ELSE 2],
    Val <- {value}, LUA_INT_MAX <- 7, MAXBITS <- 3, MaxArray <- 2, MaxHash <- 3,
    tab <- s1, trav <- s2, fields <- s3

List == INSTANCE TableLib WITH
    Val <- {1, 2, 3}, MaxLength <- 6, LUA_INT_MAX <- 15, LUA_MINSTACK <- 4,
    t <- s1, last <- s2, result <- s3, sort <- s4

Char(c) == [k |-> "single", set |-> {c}, rep |-> "", n |-> c]
Repeat(set, rep) == [k |-> "single", set |-> set, rep |-> rep, n |-> ""]
Special(k, set, n) == [k |-> k, set |-> set, rep |-> "", n |-> n]

Search == INSTANCE Pattern WITH
    Subject <- {<<"b", "a", "a", "b", "b">>},
    Item <- {Char("a"), Repeat({"b"}, "?"), Repeat({"a", "b"}, "*"),
             Repeat({"a"}, "-"), Repeat({"b"}, "+"), Special("(", {}, 0), Special(")", {}, ")"),
             Special("()", {}, 0), Special("%1", {}, 1), Special("$", {}, 0),
             Special("%b", {"a"}, "b"), Special("%b", {"b"}, "b"), Special("%f", {"a"}, 0)},
    MaxItems <- 4, LUA_MAXCAPTURES <- 2,
    subject <- s1, pattern <- s2, call <- s3, result <- s4

\* Texts that share a bucket until the table has four or eight.
Strings == INSTANCE StringTable WITH
    Text <- {"a", "b", "c", "d", "e"}, Fixed <- {"a"},
    Hash <- [text \in {"a", "b", "c", "d", "e"} |->
               CASE text = "a" -> 0 [] text = "b" -> 2 [] text = "c" -> 3
                 [] text = "d" -> 5 [] text = "e" -> 4],
    LUAI_MINSTRTABSIZE <- 1, LUA_INT_MAX <- 8,
    hash <- s1, nuse <- s2, currentwhite <- s3, gcstate <- s4, sweepstrgc <- s5, held <- s6

Refs == INSTANCE References WITH Object <- {object}, MaxRef <- 4,
    t <- s1, refs <- s2
-----------------------------------------------------------------------------
\* The variables a part does not use.
From14 == <<s14, s15>>
From10 == <<s10, s11, s12, s13, From14>>
From8 == <<s8, s9, From10>>
From7 == <<s7, From8>>
From5 == <<s5, s6, From7>>
From4 == <<s4, From5>>
From3 == <<s3, From4>>
From1 == <<s1, s2, From3>>

Zero14 == s14 = 0 /\ s15 = 0
Zero10 == s10 = 0 /\ s11 = 0 /\ s12 = 0 /\ s13 = 0 /\ Zero14
Zero8 == s8 = 0 /\ s9 = 0 /\ Zero10
Zero7 == s7 = 0 /\ Zero8
Zero5 == s5 = 0 /\ s6 = 0 /\ Zero7
Zero4 == s4 = 0 /\ Zero5
Zero3 == s3 = 0 /\ Zero4
Zero1 == s1 = 0 /\ s2 = 0 /\ Zero3

PartsInit ==
    /\ Init
    /\ \/ part = "calls" /\ Zero1
       \/ part = "api" /\ Api!Init /\ Zero8
       \/ part = "heap" /\ G!Init
       \/ part = "hooks" /\ Hook!Init /\ Zero14
       \/ part = "profile" /\ Profile!Init /\ Zero10
       \/ part = "chunk" /\ Chunk!Init /\ Zero4
       \/ part = "table" /\ Tables!Init /\ Zero4
       \/ part = "sequence" /\ List!Init /\ Zero5
       \/ part = "search" /\ Search!Init /\ Zero5
       \/ part = "strings" /\ Strings!Init /\ Zero7
       \/ part = "references" /\ Refs!Init /\ Zero3

PartsNext ==
    /\ UNCHANGED part
    /\ \/ part = "calls" /\ Next /\ UNCHANGED From1
       \/ part # "calls" /\ UNCHANGED vars
    /\ \/ part = "calls"
       \/ part = "api" /\ Api!Next /\ UNCHANGED From8
       \/ part = "heap" /\ G!Next
       \/ part = "hooks" /\ Hook!Next /\ UNCHANGED From14
       \/ part = "profile" /\ Profile!Next /\ UNCHANGED From10
       \/ part = "chunk" /\ Chunk!Next /\ UNCHANGED From4
       \/ part = "table" /\ Tables!Next /\ UNCHANGED From4
       \/ part = "sequence" /\ List!Next /\ UNCHANGED From5
       \/ part = "search" /\ Search!Next /\ UNCHANGED From5
       \/ part = "strings" /\ Strings!Next /\ UNCHANGED From7
       \/ part = "references" /\ Refs!Next /\ UNCHANGED From3

allvars == <<part, vars, From1>>
PartsSpec == PartsInit /\ [][PartsNext]_allvars
-----------------------------------------------------------------------------
\* The variables of the part that runs have their types.
AllTypes == CASE part = "calls" -> TypeOK
              [] part = "api" -> Api!TypeOK
              [] part = "heap" -> G!TypeOK
              [] part = "hooks" -> Hook!TypeOK
              [] part = "profile" -> Profile!TypeOK
              [] part = "table" -> Tables!TypeOK
              [] part = "strings" -> Strings!TypeOK
              [] part = "references" -> Refs!TypeOK
              [] OTHER -> TRUE

(* Each property is that of the module it is stated in.                    *)

\* The cached write taint follows the stack taint and the taint mode, also
\* where the taint library sets them (lsec.h:28, 33).
WriteTaintCoherent == part = "api" => Api!WriteTaintCoherent

\* Tainted code makes tainted closures whatever newgctaint and newcltaint are
\* set to (lsec.h:73).
ClosuresOfTaintedCodeAreTainted == [][part = "api" => Api!TaintsNewClosures]_allvars

\* The incremental collector implements HeapContract with a coroutine whose
\* upvalues outlive it (lgc.c:564, lfunc.c:113).
HeapIsSafe == [][part = "heap" => [G!Contract!Next]_(G!Contract!vars)]_allvars

\* Hooks never nest and are allowed again however one ended (ldo.c:251, 543).
HooksDoNotNest == part = "hooks" => Hook!HooksDoNotNest

\* The clock is looked at and the count hook called as often as asked
\* (lvm.c:453, 466).
ChecksAreRegular == part = "hooks" => Hook!ChecksAreRegular

\* No moment is charged twice to a closure's subticks (ldebug.c:766).
SubticksAreCountedOnce == part = "profile" => Profile!SubticksAreCountedOnce

\* The functions' own times never overlap (lvm.c:446, 659).
OwnTicksAreDisjoint == part = "profile" => Profile!OwnTicksAreDisjoint

\* The list of sources loses and repeats none, and collecting gives each the
\* time of its closures (lapi.c:1437, 1529).
SourcesAddUp == [][part = "profile" => Profile!SourcesStep]_allvars

\* A compiled chunk does what its text means (lcode.c:145, 207, 627).
CompiledMeansSource == [][part = "chunk" => Chunk!LoadedMeansSource]_allvars

\* The assertions of the compiler and luaG_checkcode hold (ldebug.c:499).
AssertionsHold == [][part = "chunk" => Chunk!LoadAsserts]_allvars

\* A table is a map for those who use it (ltable.c:283, 385).
IsAMap == part = "table" => Tables!IsAMap

\* next visits what there is, once, while fields are cleared (ltable.c:151).
TraversalIsExact == part = "table" => Tables!TraversalIsExact

\* The length operator returns a border (ltable.c:556).
LengthIsABorder == part = "table" => Tables!LengthIsABorder

\* insert, remove and removemulti keep the order of the others (ltablib.c:77).
EditsKeepOrder == part = "sequence" => List!EditsKeepOrder

\* sort never has an element only on the stack while it calls the order
\* function (ltablib.c:177).
SortKeepsElements == part = "sequence" => List!SortKeepsElements

\* sort sorts, and calls no order invalid (ltablib.c:215).
SortSorts == part = "sequence" => List!SortSorts

\* find and match return the first match and its captures (lstrlib.c:365).
FindsFirstMatch == part = "search" => Search!FindsFirstMatch

\* gsub and gmatch pass on the same matches and end at the same error
\* (lstrlib.c:528, 602, 708).
GsubVisitsGmatch == part = "search" => Search!GsubVisitsGmatch

\* Of no text there are two strings, and a sweep visits each (lstring.c:21, 85).
StringsAreUnique == part = "strings" => Strings!StringsAreUnique

\* A reference gives back its value until it is freed (lauxlib.c:397, 413).
ReferencesKeepValues == part = "references" => Refs!ReferencesKeepValues
=============================================================================
