----------------------------- MODULE Profiling ------------------------------
(* The profile of closures (luaG_profileenter, -leave and -resume in       *)
(* ldebug.c), kept while calls, tail calls, errors, yields and hooks come  *)
(* and go in two threads and profiling is switched on, off and reset from  *)
(* within the code it measures; and the list of statistics per source.     *)
(*                                                                         *)
(* The interpreter stops a Lua function's clock at OP_CALL and OP_TAILCALL  *)
(* only.  Its other instructions may call functions too, by luaD_call: a   *)
(* metamethod, the iterator of a generic for, a finalizer.  Such a call is *)
(* direct here, and the clock of the function that runs the instruction    *)
(* goes on.                                                                *)
(*                                                                         *)
(* The clock starts at 1: entryticks = 0 stands for a call not counted yet.*)
EXTENDS Naturals, Sequences, FiniteSets, FiniteSetsExt, SequencesExt, Functions

CONSTANTS
    LuaFn,          \* Lua closures
    pcall, resume,  \* C functions that call Lua code
    yield,
    Owner,          \* [LuaFn -> the source that owns the closure]
    main, co,
    MaxClock, MaxFrames, MaxCalls    \* bounds; MaxCalls on the calls of Lua functions

Closure == LuaFn \cup {pcall, resume, yield}
Threads == {main, co}

VARIABLES
    clock,
    enabled,    \* enablestats
    stats,      \* [Closure -> [on, calls, ownticks, subticks]]; on: not NULL.
                \* Those of the C functions are left out.
    nopencalls, \* [Closure -> Nat]
    frames,     \* [Threads -> Seq([fn, direct, entryticks, startticks])]
    running,    \* the thread that runs
    made,       \* calls of Lua functions made
    sources,    \* Seq([owner, execticks]), the list sourcestats
    nested      \* history: calls are open, or were since the last reset,
                \* that are direct

vars == <<clock, enabled, stats, nopencalls, frames, running, made, sources, nested>>
-----------------------------------------------------------------------------
\* The sum of the counts of a set of <<closure, count>>, one for a closure.
Total(counts) == Cardinality(UNION {{x[1]} \X (1 .. x[2]) : x \in counts})

\* What the profiling functions work on: the stack of one thread and the
\* closures' counters.
Now(t) == [stack |-> frames[t], stats |-> stats, open |-> nopencalls,
           made |-> made, on |-> enabled, nested |-> nested]

TopIsLua(p) == p.stack # <<>> /\ Last(p.stack).fn \in LuaFn

Profiled(p) == p.on /\ p.stack # <<>> /\ p.stats[Last(p.stack).fn].on

\* The running frame and its closure's statistics are ci and cs now.
Noted(p, ci, cs) ==
    [p EXCEPT !.stack = [@ EXCEPT ![Len(p.stack)] = ci], !.stats = [@ EXCEPT ![ci.fn] = cs]]

\* Mutant of Enter: startticks are set for a new call only.
BadEnter(p, now) ==
    LET ci == Last(p.stack)
        cs == p.stats[ci.fn]
    IN  IF Profiled(p) /\ ci.entryticks = 0
        THEN Noted(p, [ci EXCEPT !.entryticks = now, !.startticks = now], [cs EXCEPT !.calls = @ + 1])
        ELSE p

\* luaG_profileenter
Enter(p, now) ==
    LET ci == Last(p.stack)
        cs == p.stats[ci.fn]
        new == ci.entryticks = 0
    IN  IF Profiled(p)
        THEN Noted(p, [ci EXCEPT !.entryticks = IF new THEN now ELSE @, !.startticks = now],
                      [cs EXCEPT !.calls = IF new THEN @ + 1 ELSE @])
        ELSE p

\* Mutant of Leave: subticks are committed whatever calls are open.
BadLeave(p, now) ==
    LET ci == Last(p.stack)
        cs == p.stats[ci.fn]
    IN  IF Profiled(p) /\ ci.entryticks # 0
        THEN Noted(p, [ci EXCEPT !.startticks = now, !.entryticks = now],
                      [cs EXCEPT !.ownticks = @ + (now - ci.startticks),
                                 !.subticks = @ + (now - ci.entryticks)])
        ELSE p

\* luaG_profileleave
Leave(p, now) ==
    LET ci == Last(p.stack)
        cs == p.stats[ci.fn]
        only == p.open[ci.fn] = 1
    IN  IF Profiled(p) /\ ci.entryticks # 0
        THEN Noted(p, [ci EXCEPT !.startticks = now, !.entryticks = IF only THEN now ELSE @],
                      [cs EXCEPT !.ownticks = @ + (now - ci.startticks),
                                 !.subticks = IF only THEN @ + (now - ci.entryticks) ELSE @])
        ELSE p

\* luaG_profileresume
Resumed(p, now) ==
    LET ci == Last(p.stack)
    IN  IF Profiled(p) /\ ci.entryticks # 0
        THEN Noted(p, [ci EXCEPT !.entryticks = now], p.stats[ci.fn])
        ELSE p

\* luaD_precall and luaD_unwindci, as far as a profile is concerned.
Push(p, fn, direct) ==
    [p EXCEPT !.stack = Append(@, [fn |-> fn, direct |-> direct, entryticks |-> 0, startticks |-> 0]),
              !.open[fn] = @ + 1,
              !.made = IF fn \in LuaFn THEN @ + 1 ELSE @,
              !.nested = @ \/ direct]
Pop(p) == [p EXCEPT !.stack = Front(@), !.open[Last(p.stack).fn] = @ - 1]

\* luaD_unwindci of every frame above n.
Unwind(p, n) ==
    [p EXCEPT !.stack = SubSeq(@, 1, n),
              !.open = [fn \in Closure |->
                 @[fn] - Cardinality({i \in n + 1 .. Len(p.stack) : p.stack[i].fn = fn})]]

\* OP_TAILCALL: a new frame in place of the old one, which returns to where
\* the old one would have.
ReplaceTop(p, fn) == Push(Pop(p), fn, Last(p.stack).direct)

\* Only a Lua function stops its own clock while another runs.
LeaveLua(p, now) == IF TopIsLua(p) THEN Leave(p, now) ELSE p
EnterLua(p, now) == IF TopIsLua(p) THEN Enter(p, now) ELSE p

\* A call of fn, and what happens to the clock of the caller.
Called(p, fn, direct, now) ==
    Enter(Push(IF direct THEN p ELSE LeaveLua(p, now), fn, direct), now)

\* luaD_poscall, and what happens to the clock of the caller.
Returned(p, now) ==
    LET q == Pop(Leave(p, now))
    IN  IF Last(p.stack).direct THEN q ELSE EnterLua(q, now)

Becomes(t, p) ==
    /\ frames' = [frames EXCEPT ![t] = p.stack]
    /\ stats' = p.stats
    /\ nopencalls' = p.open
    /\ made' = p.made
    /\ nested' = p.nested

MayCall == made < MaxCalls

Depth == Len(frames[main]) + Len(frames[co])
-----------------------------------------------------------------------------
Init ==
    /\ clock = 1
    /\ enabled = FALSE
    /\ stats = [fn \in Closure |-> [on |-> FALSE, calls |-> 0, ownticks |-> 0, subticks |-> 0]]
    /\ nopencalls = [fn \in Closure |-> 0]
    /\ frames = [t \in Threads |-> <<>>]
    /\ running = main
    /\ made = 0
    /\ sources = <<>>
    /\ nested = FALSE

Tick ==
    /\ clock < MaxClock /\ frames[main] # <<>>
    /\ clock' = clock + 1
    /\ UNCHANGED <<enabled, stats, nopencalls, frames, running, made, sources, nested>>

\* A call from the host (an empty stack), from Lua or from pcall.
Call(fn, direct) ==
    /\ Depth < MaxFrames
    /\ frames[running] # <<>> => Last(frames[running]).fn # resume
    /\ direct => TopIsLua(Now(running))
    /\ MayCall
    /\ Becomes(running, Called(Now(running), fn, direct, clock))
    /\ UNCHANGED <<clock, enabled, running, sources>>

TailCall(fn) ==
    /\ TopIsLua(Now(running))
    /\ MayCall
    /\ Becomes(running, Enter(ReplaceTop(Leave(Now(running), clock), fn), clock))
    /\ UNCHANGED <<clock, enabled, running, sources>>

\* The end of a coroutine's body ends its run.
Return ==
    /\ frames[running] # <<>>
    /\ Becomes(running, Returned(Now(running), clock))
    /\ running' = IF Len(frames[running]) = 1 THEN main ELSE running
    /\ UNCHANGED <<clock, enabled, sources>>

\* An error leaves no frame above the pcall that catches it, none if it goes
\* to the host or to the end of the coroutine.
Caught(t) == Max({0} \cup {n \in DOMAIN frames[t] : frames[t][n].fn = pcall})
Error ==
    /\ TopIsLua(Now(running))
    /\ Becomes(running, Unwind(Now(running), Caught(running)))
    /\ running' = IF Caught(running) = 0 THEN main ELSE running
    /\ UNCHANGED <<clock, enabled, sources>>

\* coroutine.resume, or a function of coroutine.wrap as an iterator: the C
\* function is entered, then the coroutine.
Resume(body, direct) ==
    LET caller == Called(Now(main), resume, direct, clock)
        p == [caller EXCEPT !.stack = frames[co]]
        thread == IF frames[co] = <<>> THEN Enter(Push(p, body, FALSE), clock)
                  ELSE Enter(Resumed(Pop(p), clock), clock)
    IN  /\ running = main /\ TopIsLua(Now(main))
        /\ Depth < MaxFrames /\ (frames[co] = <<>> => MayCall)
        /\ frames' = [frames EXCEPT ![main] = caller.stack, ![co] = thread.stack]
        /\ stats' = thread.stats
        /\ nopencalls' = thread.open
        /\ made' = thread.made
        /\ nested' = thread.nested
        /\ running' = co
        /\ UNCHANGED <<clock, enabled, sources>>

\* coroutine.yield leaves a frame of its own that the resume removes.  It
\* may not cross a call of C, nor a direct one (nCcalls > baseCcalls).
Yield ==
    /\ running = co /\ TopIsLua(Now(co))
    /\ \A n \in DOMAIN frames[co] : frames[co][n].fn # pcall /\ ~ frames[co][n].direct
    /\ Becomes(co, Leave(Called(Now(co), yield, FALSE, clock), clock))
    /\ running' = main
    /\ UNCHANGED <<clock, enabled, sources>>

\* luaE_freethread: a suspended coroutine nobody refers to is freed, and
\* another one made.  Nothing unwinds its frames.
Abandon ==
    /\ running = main /\ frames[co] # <<>>
    /\ frames' = [frames EXCEPT ![co] = <<>>]
    /\ UNCHANGED <<clock, enabled, stats, nopencalls, running, made, sources, nested>>

\* The hook runs between a leave and an enter.
Hook ==
    /\ TopIsLua(Now(running)) /\ clock < MaxClock
    /\ Becomes(running, Enter(Leave(Now(running), clock), clock + 1))
    /\ clock' = clock + 1
    /\ UNCHANGED <<enabled, running, sources>>

\* C functions called from Lua that change the profile itself.
SetProfilingEnabled(on) ==
    LET p == Leave(Now(running), clock)
        q == [p EXCEPT !.on = on, !.stats = [fn \in Closure |->
                 [@[fn] EXCEPT !.on = p.stats[fn].on \/ (on /\ ~enabled /\ fn \in LuaFn)]]]
    IN  /\ TopIsLua(p) /\ enabled # on
        /\ enabled' = on
        /\ Becomes(running, Enter(q, clock))
        /\ UNCHANGED <<clock, running, sources>>

SomeDirect(stack) == \E n \in DOMAIN stack : stack[n].direct

\* lua_resetstats
ResetStats ==
    LET p == Leave(Now(running), clock)
        q == [p EXCEPT !.stats = [fn \in Closure |->
                 [@[fn] EXCEPT !.calls = 0, !.ownticks = 0, !.subticks = 0]],
                          !.nested = \E t \in Threads : SomeDirect(frames[t])]
    IN  /\ TopIsLua(p)
        /\ Becomes(running, Enter(q, clock))
        /\ sources' = [n \in DOMAIN sources |-> [sources[n] EXCEPT !.execticks = 0]]
        /\ UNCHANGED <<clock, enabled, running>>
-----------------------------------------------------------------------------
(* lua_collectstats, lua_getsourcestats                                    *)

\* Mutant of Touch: what comes before the entry is not linked again.
BadTouch(list, owner) ==
    LET at == {n \in DOMAIN list : list[n].owner = owner}
        i == Min(at)
    IN  IF at = {} THEN list ELSE SubSeq(list, i, Len(list))

\* getsourcestats: an entry that is found moves to the head of the list.
Touch(list, owner) ==
    LET at == {n \in DOMAIN list : list[n].owner = owner}
        i == Min(at)
    IN  IF at = {} THEN list ELSE <<list[i]>> \o RemoveAt(list, i)

\* newsourcestats
Found(list, owner) ==
    LET old == Touch(list, owner)
    IN  IF \E n \in DOMAIN list : list[n].owner = owner THEN old
        ELSE <<[owner |-> owner, execticks |-> 0]>> \o list

\* The closures in the order of rootgc, newest first.
CollectStats ==
    LET p == Leave(Now(running), clock)
        none == [n \in DOMAIN sources |-> [sources[n] EXCEPT !.execticks = 0]]
        add(list, fn) == [Found(list, Owner[fn]) EXCEPT ![1].execticks = @ + p.stats[fn].ownticks]
    IN  /\ TopIsLua(p)
        /\ sources' = FoldLeft(add, none, SetToSeq(LuaFn))
        /\ Becomes(running, Enter(p, clock))
        /\ UNCHANGED <<clock, enabled, running>>

GetSourceStats(owner) ==
    /\ TopIsLua(Now(running))
    /\ sources' = Touch(sources, owner)
    /\ Becomes(running, Enter(Leave(Now(running), clock), clock))
    /\ UNCHANGED <<clock, enabled, running>>

Next ==
    \/ Tick
    \/ \E fn \in LuaFn \cup {pcall}, direct \in BOOLEAN : Call(fn, direct)
    \/ \E fn \in LuaFn : TailCall(fn)
    \/ \E fn \in LuaFn, direct \in BOOLEAN : Resume(fn, direct)
    \/ Return \/ Error \/ Yield \/ Abandon \/ Hook
    \/ \E on \in BOOLEAN : SetProfilingEnabled(on)
    \/ ResetStats \/ CollectStats
    \/ \E fn \in LuaFn : GetSourceStats(Owner[fn])

Spec == Init /\ [][Next]_vars
-----------------------------------------------------------------------------
Elapsed == clock - 1

TypeOK ==
    /\ clock \in 1 .. MaxClock /\ {enabled, nested} \subseteq BOOLEAN /\ running \in Threads
    /\ nopencalls \in [Closure -> Nat]
    /\ \A t \in Threads : \A n \in DOMAIN frames[t] :
         frames[t][n] \in [fn : Closure, direct : BOOLEAN, entryticks : 0 .. clock, startticks : 0 .. clock]
    /\ \A fn \in Closure : stats[fn] \in [on : BOOLEAN, calls : Nat, ownticks : Nat, subticks : Nat]

\* No moment is charged twice to a closure's subticks: neither by the open
\* calls of a recursion nor by calls that coroutines keep open while others
\* come and go (ldebug.c:766, the test of nopencalls).
SubticksAreCountedOnce == \A fn \in Closure : stats[fn].subticks <= Elapsed

OwnTicks == Total({<<fn, stats[fn].ownticks>> : fn \in LuaFn})

\* Since the statistics were reset, own times have not overlapped if no call
\* was direct, whatever calls, yields, resumes or raises between two commits
\* (lvm.c:446, 659): every OP_CALL, hook and resume stops the clock it must.
OwnTicksAreDisjoint == nested \/ OwnTicks <= Elapsed

\* lua.h:420, 421: the ticks "spent executing this function", in contrast
\* to those "including calls to subroutines".  One function runs at a time.
OwnTicksExcludeSubroutines == OwnTicks <= Elapsed

\* The list has one entry per source, loses none when one moves to its head,
\* and collecting gives each the time of its closures (lapi.c:1437, 1524).
SourcesStep ==
    LET owners(list) == {list[n].owner : n \in DOMAIN list}
    IN  /\ Cardinality(owners(sources')) = Len(sources')
        /\ owners(sources) \subseteq owners(sources')
        /\ \A n \in DOMAIN sources' :
             LET new == sources'[n] IN
             new \in ToSet(sources) \/ new.execticks \in
               {0, Total({<<fn, stats'[fn].ownticks>> : fn \in {f \in LuaFn : Owner[f] = new.owner}})}
SourcesAddUp == [][SourcesStep]_vars
=============================================================================
