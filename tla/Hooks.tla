-------------------------------- MODULE Hooks --------------------------------
(* What luaV_execute does before an instruction: the debug hooks of lvm.c, *)
(* ldo.c and ldblib.c, the check of the time a script takes, and the       *)
(* interrupt of lua.c, a signal that may come at any moment.               *)
(*                                                                         *)
(* An activation is a run of luaV_execute with what entered it below: the  *)
(* host, lua_pcall, a hook or the resume of the coroutine.                 *)
EXTENDS Integers, SequencesExt

CONSTANTS
    main, co,
    Masks,          \* the sets of events sethook is asked for
    HookCounts, CheckCounts, \* the counts given to sethook and to setscripttimeout
    MaxDepth        \* bound on the activations that are not hooks

Threads == {main, co}
\* Call and return events, which luaD_precall and luaD_poscall raise, are left out.
Event == {"line", "count"}

\* The counts of sethook and setscripttimeout, and that of the signal.
MaxCount == Max({1} \cup HookCounts \cup CheckCounts)

VARIABLES
    hook,           \* [Threads -> {"NULL", "hookf", "lstop"}]
    hookmask, basehookcount, hookcount, allowhook,
    limit,          \* baseexeccount
    left,           \* execcount
    cstack,         \* Seq([t, how, at, mask, allow]), the running one last
    status,         \* of the coroutine: "none", "fresh", "run", "yield", "dead"
    armed,          \* lua.c waits for the signal
    own,            \* the threads whose limit was set, not inherited
    unchecked,      \* [Threads -> instructions since the last look at the clock]
    unhooked        \* [Threads -> instructions since the last count event]

hooks == <<hook, hookmask, basehookcount, hookcount>>
limits == <<limit, left, own, unchecked>>
vars == <<hook, hookmask, basehookcount, hookcount, allowhook, limit, left, cstack, status,
          armed, own, unchecked, unhooked>>
-----------------------------------------------------------------------------
top == Last(cstack)
cur == top.t
Runs(at) == cstack # <<>> /\ top.at = at
InLua == Runs("execute")
NestsMore == Len(SelectSeq(cstack, LAMBDA act : act.how # "hook")) < MaxDepth
GoesTo(at) == cstack' = [cstack EXCEPT ![Len(cstack)].at = at]

\* luaV_execute on t; allow: what luaD_pcall saves.
Activation(t, how) == [t |-> t, how |-> how, at |-> "fetch", mask |-> {}, allow |-> allowhook[t]]

Hooking(t, f, mask, count) ==
    LET off == f = "NULL" \/ mask = {} IN
    /\ hook' = [hook EXCEPT ![t] = IF off THEN "NULL" ELSE f]
    /\ hookmask' = [hookmask EXCEPT ![t] = IF off THEN {} ELSE mask]
    /\ basehookcount' = [basehookcount EXCEPT ![t] = count]
    /\ hookcount' = [hookcount EXCEPT ![t] = count]
    /\ unhooked' = [unhooked EXCEPT ![t] = 0]

\* luaD_callhook, then the activation below goes on `after' it.
CallHook(wanted, mask, after) ==
    LET below == [cstack EXCEPT ![Len(cstack)].at = after, ![Len(cstack)].mask = mask] IN
    IF wanted /\ hook[cur] # "NULL" /\ allowhook[cur]
    THEN /\ allowhook' = [allowhook EXCEPT ![cur] = FALSE]
         /\ cstack' = Append(below, [Activation(cur, "hook") EXCEPT
                                       !.at = IF hook[cur] = "lstop" THEN "lstop" ELSE "fetch"])
    ELSE cstack' = below /\ UNCHANGED allowhook

\* Mutant of AllowedAgain: hooks are as they are where the error was raised.
BadAllowedAgain(act) == allowhook[act.t]
\* luaD_pcall on an error.
AllowedAgain(act) == act.allow

\* luaD_throw: up to a pcall of any thread, or to the end of the coroutine.
Throw ==
    LET n == CHOOSE i \in DOMAIN cstack : cstack[i].how # "hook"
                 /\ \A j \in i + 1 .. Len(cstack) : cstack[j].how = "hook"
        act == cstack[n]
    IN  /\ cstack' = SubSeq(cstack, 1, n - 1)
        /\ allowhook' = IF act.how = "resume" THEN allowhook
                        ELSE [allowhook EXCEPT ![act.t] = AllowedAgain(act)]
        /\ status' = IF act.how = "resume" THEN "dead" ELSE status
        /\ armed' = (armed /\ n > 1)
-----------------------------------------------------------------------------
\* docall: the script of the host runs in a protected call.
DoCall ==
    /\ cstack = <<>>
    /\ cstack' = <<Activation(main, "host")>>
    /\ armed' = TRUE
    /\ UNCHANGED <<hook, hookmask, basehookcount, hookcount, allowhook, limits, status, unhooked>>

\* The count of luaV_execute, and whether it calls traceexec.
Fetch ==
    LET t == cur
        counts == "count" \in hookmask[t]
        n == hookcount[t] - (IF counts THEN 1 ELSE 0)
    IN  /\ Runs("fetch")
        /\ hookcount' = [hookcount EXCEPT ![t] = IF n < 0 THEN -1 ELSE n]
        /\ unhooked' = [unhooked EXCEPT ![t] = IF counts /\ @ <= MaxCount THEN @ + 1 ELSE @]
        /\ cstack' = [cstack EXCEPT ![Len(cstack)].at =
                        IF (counts /\ n = 0) \/ "line" \in hookmask[t] THEN "count" ELSE "limit"]
        /\ UNCHANGED <<hook, hookmask, basehookcount, allowhook, limits, status, armed>>

\* traceexec reads the count again, and the mask once for both events.
TraceCount ==
    LET t == cur
        due == "count" \in hookmask[t] /\ hookcount[t] = 0
    IN  /\ Runs("count")
        /\ hookcount' = IF due THEN [hookcount EXCEPT ![t] = basehookcount[t]] ELSE hookcount
        /\ unhooked' = IF due THEN [unhooked EXCEPT ![t] = 0] ELSE unhooked
        /\ CallHook(due, hookmask[t], "line")
        /\ UNCHANGED <<hook, hookmask, basehookcount, limits, status, armed>>

TraceLine ==
    /\ Runs("line")
    /\ \E newline \in BOOLEAN : CallHook("line" \in top.mask /\ newline, {}, "limit")
    /\ UNCHANGED <<hooks, limits, status, armed, unhooked>>

\* late: the clock of this luaV_execute is past baseexeclimit.
Limit(late) ==
    LET t == cur
        n == left[t] - 1
        looks == limit[t] > 0 /\ n = 0
    IN  /\ Runs("limit")
        /\ left' = [left EXCEPT ![t] = IF limit[t] = 0 THEN @ ELSE IF looks THEN limit[t]
                                       ELSE IF n < 0 THEN -1 ELSE n]
        /\ unchecked' = [unchecked EXCEPT ![t] = IF looks \/ limit[t] = 0 THEN 0
                                                 ELSE IF @ <= MaxCount THEN @ + 1 ELSE @]
        /\ IF looks /\ late THEN Throw
           ELSE GoesTo("execute") /\ UNCHANGED <<allowhook, status, armed>>
        /\ UNCHANGED <<hooks, limit, own, unhooked>>

\* lstop, the hook of the signal.
LStop ==
    /\ Runs("lstop")
    /\ Hooking(cur, "NULL", {}, 0)
    /\ Throw
    /\ UNCHANGED limits
-----------------------------------------------------------------------------
(* Instructions                                                            *)

Plain == /\ InLua /\ GoesTo("fetch")
         /\ UNCHANGED <<hooks, allowhook, limits, status, armed, unhooked>>

PCall == /\ InLua /\ NestsMore
         /\ cstack' = Append([cstack EXCEPT ![Len(cstack)].at = "fetch"], Activation(cur, "pcall"))
         /\ UNCHANGED <<hooks, allowhook, limits, status, armed, unhooked>>

Error == /\ InLua /\ Throw
         /\ UNCHANGED <<hooks, limits, unhooked>>

\* A hook that returns allows hooks again.
Return ==
    /\ InLua
    /\ cstack' = Front(cstack)
    /\ allowhook' = IF top.how = "hook" THEN [allowhook EXCEPT ![cur] = TRUE] ELSE allowhook
    /\ status' = IF top.how = "resume" THEN "dead" ELSE status
    /\ armed' = (armed /\ top.how # "host")
    /\ UNCHANGED <<hooks, limits, unhooked>>

\* luaE_newthread: the hook and the limit are inherited, the count to the
\* next hook is set anew, that to the next look at the clock is zero.
NewThread ==
    LET Gets(f) == [f EXCEPT ![co] = f[cur]] IN
    /\ InLua /\ status \in {"none", "dead"} /\ \A n \in DOMAIN cstack : cstack[n].t # co
    /\ status' = "fresh"
    /\ hook' = Gets(hook) /\ hookmask' = Gets(hookmask)
    /\ basehookcount' = Gets(basehookcount)
    /\ hookcount' = [hookcount EXCEPT ![co] = basehookcount[cur]]
    /\ allowhook' = [allowhook EXCEPT ![co] = TRUE]
    /\ limit' = Gets(limit)
    /\ left' = [left EXCEPT ![co] = 0]
    /\ own' = own \ {co}
    /\ unchecked' = [unchecked EXCEPT ![co] = 0]
    /\ unhooked' = [unhooked EXCEPT ![co] = 0]
    /\ GoesTo("fetch")
    /\ UNCHANGED armed

\* The coroutine starts, or goes on behind the yield.
Resume ==
    /\ InLua /\ cur # co /\ status \in {"fresh", "yield"} /\ NestsMore
    /\ cstack' = Append([cstack EXCEPT ![Len(cstack)].at = "fetch"], Activation(co, "resume"))
    /\ status' = "run"
    /\ UNCHANGED <<hooks, allowhook, limits, armed, unhooked>>

\* Not across a protected call or a hook.
Yield ==
    /\ InLua /\ top.how = "resume"
    /\ cstack' = Front(cstack)
    /\ status' = "yield"
    /\ UNCHANGED <<hooks, allowhook, limits, armed, unhooked>>

\* debug.sethook on either thread.
SetHook(t, mask, count) ==
    /\ InLua /\ (t = co => status \notin {"none", "dead"})
    /\ Hooking(t, "hookf", mask, IF "count" \in mask THEN count ELSE 0)
    /\ GoesTo("fetch")
    /\ UNCHANGED <<allowhook, limits, status, armed>>

\* The count to the next look at the clock is left as it is.
BadRestart(t, n) == left
\* lua_setscripttimeout: a new count begins.
Restart(t, n) == [left EXCEPT ![t] = n]

SetScriptTimeout(n) ==
    /\ InLua
    /\ limit' = [limit EXCEPT ![cur] = n]
    /\ left' = Restart(cur, n)
    /\ own' = own \cup {cur}
    /\ unchecked' = [unchecked EXCEPT ![cur] = 0]
    /\ GoesTo("fetch")
    /\ UNCHANGED <<hooks, allowhook, status, armed, unhooked>>

\* laction: the signal comes between any two steps and is not caught again.
Interrupt ==
    /\ armed
    /\ armed' = FALSE
    /\ Hooking(main, "lstop", Event, 1)
    /\ UNCHANGED <<allowhook, limits, cstack, status>>

Init ==
    /\ hook = [t \in Threads |-> "NULL"] /\ hookmask = [t \in Threads |-> {}]
    /\ basehookcount = [t \in Threads |-> 0] /\ hookcount = [t \in Threads |-> 0]
    /\ allowhook = [t \in Threads |-> TRUE]
    /\ limit = [t \in Threads |-> 0] /\ left = [t \in Threads |-> 0]
    /\ cstack = <<>> /\ status = "none" /\ armed = FALSE
    /\ own = {} /\ unchecked = [t \in Threads |-> 0] /\ unhooked = [t \in Threads |-> 0]

Instruction ==
    \/ Plain \/ PCall \/ Error \/ Return \/ NewThread \/ Resume \/ Yield
    \/ \E t \in Threads, mask \in Masks, n \in HookCounts : SetHook(t, mask, n)
    \/ \E n \in CheckCounts : SetScriptTimeout(n)

Next ==
    \/ DoCall \/ Fetch \/ TraceCount \/ TraceLine \/ LStop \/ Interrupt
    \/ \E late \in BOOLEAN : Limit(late)
    \/ Instruction

Spec == Init /\ [][Next]_vars
-----------------------------------------------------------------------------
TypeOK ==
    /\ hook \in [Threads -> {"NULL", "hookf", "lstop"}] /\ hookmask \in [Threads -> SUBSET Event]
    /\ basehookcount \in [Threads -> 0 .. MaxCount] /\ hookcount \in [Threads -> -1 .. MaxCount]
    /\ allowhook \in [Threads -> BOOLEAN]
    /\ limit \in [Threads -> 0 .. MaxCount] /\ left \in [Threads -> -1 .. MaxCount]
    /\ \A n \in DOMAIN cstack : cstack[n].t \in Threads

\* No hook runs in a hook of its thread, and hooks are allowed again whatever
\* way the hook ended: it returned, raised an error that a protected call in
\* or below it caught, or was the hook of a signal (ldo.c:251, 543).
HooksDoNotNest ==
    \A t \in Threads : (t = co => status # "dead") =>
        LET running == {n \in DOMAIN cstack : cstack[n].t = t /\ cstack[n].how = "hook"}
        IN  Cardinality(running) <= 1 /\ (allowhook[t] <=> running = {})

\* Between two looks at the clock, and between two count events, there are not
\* more instructions than asked for, whoever sets and resets the counts in
\* between: hooks, the signal, calls that end with an error, and coroutines
\* that inherit the hook (lvm.c:453, 466; ldebug.c:61; lstate.c:156).
ChecksAreRegular ==
    \A t \in Threads :
        /\ t \in own /\ limit[t] > 0 => unchecked[t] < limit[t]
        /\ "count" \in hookmask[t] /\ basehookcount[t] > 0 => unhooked[t] <= basehookcount[t]

\* lua.h:449: "how many instructions between each check?".  A thread whose
\* limit debug.getscripttimeout reports is checked as often as that.
LimitsAreChecked == \A t \in Threads : limit[t] > 0 => unchecked[t] < limit[t]
=============================================================================
