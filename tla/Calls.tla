-------------------------------- MODULE Calls --------------------------------
(***************************************************************************)
(* Calls, errors, protected calls and coroutines (ldo.c, lcorolib.c): the  *)
(* CallInfo arrays and their overflow, the counters of nested C calls and  *)
(* their two limits, error handlers, and the counts of open calls.         *)
(*                                                                         *)
(* As in TaintVM, one sequence of activations over all threads stands for  *)
(* the C stack.  A frame is the closure it runs.  The taint state has no   *)
(* part here.                                                              *)
(***************************************************************************)
EXTENDS Naturals, SequencesExt

CONSTANTS
    Thread, Main,
    Fn,               \* Lua closures
    C,                \* the library functions, as one C closure
    Base,             \* the entry of base_ci, which has no function
    LUAI_MAXCCALLS,
    Band,             \* LUAI_MAXCCALLS >> 3: C calls allowed to error handlers
    LUAI_MAXCALLS,
    BASIC_CI_SIZE,
    MaxNesting,       \* bound: activations that are not error handlers
    Handler,          \* error handlers of the program; "global": l_errfunc, callable if set
    Ops               \* "call_idle": coroutine.call on a coroutine that is not running

Closure == Fn \cup {C}

ASSUME CallAssumption ==
    /\ Main \in Thread
    /\ "none" \in Handler /\ Handler \subseteq {"none", "function", "global"}
    /\ C \notin Fn /\ Base \notin Closure
    /\ {LUAI_MAXCCALLS, Band, LUAI_MAXCALLS, BASIC_CI_SIZE} \subseteq Nat
    /\ BASIC_CI_SIZE > 1 /\ BASIC_CI_SIZE <= LUAI_MAXCALLS

VARIABLES
    ci, size,     \* thread -> CallInfos in use, base_ci first; size_ci
    nCcalls, baseCcalls,
    errfunc,      \* thread -> what is installed as error handler
    st,           \* thread -> coroutine status, "fresh" before it starts
    open,         \* closure -> nopencalls
    cstack,       \* activations, outermost first
    ctl           \* "run"; "error", in luaG_errormsg; or the code of luaD_throw

vars == <<ci, size, nCcalls, baseCcalls, errfunc, st, open, cstack, ctl>>

Status == {"none", "fresh", "ok", "yield", "error"}
Catchers == {"pcall", "cocall", "resume"}    \* those that set errorJmp
How == Catchers \cup {"call", "handler"}

(* A C call that re-enters the interpreter on thread t above its first at  *)
(* CallInfos.  calls, ef: what luaD_pcall saves.  handler: history, the    *)
(* errfunc it sets.                                                        *)
Activation == [how : How, t : Thread, at : Nat, calls : Nat, ef : Handler, handler : Handler]

-----------------------------------------------------------------------------
cur == IF cstack = <<>> THEN Main ELSE Last(cstack).t
top == Last(ci[cur])
InLua == ctl = "run" /\ top \in Fn
InC == ctl = "run" /\ top = C
InHost == ctl = "run" /\ top = Base
Room == Len(cstack) < MaxNesting

Activate(how, t, handler, calls, at) ==
    cstack' = Append(cstack, [how |-> how, t |-> t, at |-> at, calls |-> calls,
                              ef |-> errfunc[t], handler |-> handler])

BadCounts(closed, opened) == [open EXCEPT ![opened] = @ + 1]    \* OP_TAILCALL does not unwind

(* nopencalls after calls of the closures in closed end and opened begins. *)
Counts(closed, opened) ==
    [f \in Closure |-> open[f] + (IF f = opened THEN 1 ELSE 0) - (IF f \in closed THEN 1 ELSE 0)]

(* luaD_precall on thread t, with growCI: if there is room for one more    *)
(* CallInfo, the frames become frames and the counts counts.               *)
Precall(t, frames, counts) ==
    LET full == Len(ci[t]) = size[t]
        double == 2 * size[t]
    IN  \/ /\ ~full \/ double <= LUAI_MAXCALLS
           /\ ci' = [ci EXCEPT ![t] = frames]
           /\ size' = IF full THEN [size EXCEPT ![t] = double] ELSE size
           /\ open' = counts
           /\ ctl' = "run"
        \/ /\ full /\ size[t] <= LUAI_MAXCALLS /\ double > LUAI_MAXCALLS
           /\ size' = [size EXCEPT ![t] = double]
           /\ ctl' = "error"                      \* "stack overflow"
           /\ UNCHANGED <<ci, open>>
        \/ /\ full /\ size[t] > LUAI_MAXCALLS     \* overflow while handling overflow
           /\ ctl' = "ERRERR"
           /\ UNCHANGED <<ci, size, open>>

CallOf(t, f) == Precall(t, Append(ci[t], f), Counts({}, f))

(* luaD_call                                                               *)
Call(how, t, f, handler) ==
    LET n == nCcalls[t] + 1
    IN  /\ nCcalls' = [nCcalls EXCEPT ![t] = n]
        /\ Activate(how, t, handler, nCcalls[t], Len(ci[t]))
        /\ \/ /\ n = LUAI_MAXCCALLS
              /\ ctl' = "error"                   \* "C stack overflow"
              /\ UNCHANGED <<ci, size, open>>
           \/ /\ n # LUAI_MAXCCALLS /\ n >= LUAI_MAXCCALLS + Band
              /\ ctl' = "ERRERR"                  \* error while handling stack error
              /\ UNCHANGED <<ci, size, open>>
           \/ /\ n # LUAI_MAXCCALLS /\ n < LUAI_MAXCCALLS + Band
              /\ CallOf(t, f)

-----------------------------------------------------------------------------
(* OP_CALL                                                                 *)
LuaCall(f) ==
    /\ InLua
    /\ CallOf(cur, f)
    /\ UNCHANGED <<nCcalls, baseCcalls, errfunc, st, cstack>>

(* OP_TAILCALL of a Lua function: the new frame is moved over the old one  *)
(* after it was made.                                                      *)
TailCall(f) ==
    /\ InLua
    /\ Precall(cur, Append(Front(ci[cur]), f), Counts({top}, f))
    /\ UNCHANGED <<nCcalls, baseCcalls, errfunc, st, cstack>>

(* A metamethod, lua_call.                                                 *)
NestedCall(f) ==
    /\ InLua \/ InC
    /\ Room
    /\ Call("call", cur, f, errfunc[cur])
    /\ UNCHANGED <<baseCcalls, errfunc, st>>

(* lua_pcall, of the libraries and of the host program, which like lua.c   *)
(* enters the interpreter in no other way.                                 *)
PCall(f, handler) ==
    /\ InC \/ InHost
    /\ Room
    /\ Call("pcall", cur, f, handler)
    /\ errfunc' = [errfunc EXCEPT ![cur] = handler]
    /\ UNCHANGED <<baseCcalls, st>>

(* luaD_poscall into the Lua frame that made the call.                     *)
AtActivation == cstack # <<>> /\ Len(ci[cur]) = Last(cstack).at + 1
Closed == [open EXCEPT ![top] = @ - 1]

ReturnToLua ==
    /\ ctl = "run" /\ ~AtActivation /\ Len(ci[cur]) > 1
    /\ ci' = [ci EXCEPT ![cur] = Front(@)]
    /\ open' = Closed
    /\ UNCHANGED <<size, nCcalls, baseCcalls, errfunc, st, cstack, ctl>>

(* The end of luaD_call, and of what called it.  A coroutine that returns  *)
(* from its function is finished; a handler's result is thrown.            *)
BadRestoredHandler(a) == errfunc    \* luaD_pcall forgets old_errfunc

RestoredHandler(a) ==
    IF a.how \in {"pcall", "cocall"} THEN [errfunc EXCEPT ![a.t] = a.ef] ELSE errfunc

ReturnToC ==
    LET a == Last(cstack) IN
    /\ ctl = "run" /\ AtActivation
    /\ ci' = [ci EXCEPT ![cur] = Front(@)]
    /\ open' = Closed
    /\ nCcalls' = [nCcalls EXCEPT ![cur] = @ - 1]
    /\ errfunc' = RestoredHandler(a)
    /\ cstack' = Front(cstack)
    /\ ctl' = IF a.how = "handler" THEN "ERRRUN" ELSE "run"
    /\ UNCHANGED <<size, baseCcalls, st>>

-----------------------------------------------------------------------------
(* Errors.                                                                 *)

(* lua_error, luaG_runerror.                                               *)
RaiseError ==
    /\ InLua \/ InC
    /\ ctl' = "error"
    /\ UNCHANGED <<ci, size, nCcalls, baseCcalls, errfunc, st, open, cstack>>

(* luaG_errormsg: an error in the handler calls the handler again.         *)
Handle(f) ==
    /\ ctl = "error" /\ errfunc[cur] # "none"
    /\ Call("handler", cur, f, errfunc[cur])
    /\ UNCHANGED <<baseCcalls, errfunc, st>>

Unhandled ==
    /\ ctl = "error" /\ errfunc[cur] # "function"
    /\ ctl' = IF errfunc[cur] = "none" THEN "ERRRUN" ELSE "ERRERR"
    /\ UNCHANGED <<ci, size, nCcalls, baseCcalls, errfunc, st, open, cstack>>

BadRestoredSize(t, at) ==    \* restore_stack_limit does not look at what is in use
    IF size[t] > LUAI_MAXCALLS THEN LUAI_MAXCALLS ELSE size[t]

(* restore_stack_limit                                                     *)
RestoredSize(t, at) ==
    IF size[t] > LUAI_MAXCALLS /\ at < LUAI_MAXCALLS THEN LUAI_MAXCALLS ELSE size[t]

(* luaD_unwindci                                                           *)
Unwound(t, at) ==
    [f \in Closure |-> open[f] - Cardinality({i \in DOMAIN ci[t] : i > at /\ ci[t][i] = f})]

(* luaD_throw to the innermost catcher.  luaD_pcall restores what it saved *)
(* and undoes an overflow; lua_resumefrom leaves the CallInfos of the dead *)
(* coroutine as they are, and aux_cocall raises the error again in the     *)
(* thread that called it.                                                  *)
Throw ==
    /\ ctl \in {"ERRRUN", "ERRERR"}
    /\ \E k \in DOMAIN cstack :
         LET a == cstack[k]
         IN  /\ a.how \in Catchers
             /\ \A j \in k + 1 .. Len(cstack) : cstack[j].how \notin Catchers
             /\ cstack' = SubSeq(cstack, 1, k - 1)
             /\ open' = Unwound(a.t, a.at)
             /\ errfunc' = RestoredHandler(a)
             /\ IF a.how = "resume"
                THEN /\ st' = [st EXCEPT ![a.t] = "error"]
                     /\ nCcalls' = [nCcalls EXCEPT ![a.t] = @ - 1]
                     /\ UNCHANGED <<ci, size>>
                ELSE /\ ci' = [ci EXCEPT ![a.t] = SubSeq(@, 1, a.at)]
                     /\ nCcalls' = [nCcalls EXCEPT ![a.t] = a.calls]
                     /\ size' = [size EXCEPT ![a.t] = RestoredSize(a.t, a.at)]
                     /\ UNCHANGED st
             /\ ctl' = IF a.how = "cocall" THEN "error" ELSE "run"
    /\ UNCHANGED baseCcalls

-----------------------------------------------------------------------------
(* Coroutines.                                                             *)

InUse(t) == \E k \in DOMAIN cstack : cstack[k].t = t

(* luaE_newthread for coroutine.create; a finished coroutine may have been *)
(* collected.                                                              *)
CoCreate(co) ==
    /\ InC
    /\ co # Main /\ st[co] \in {"none", "ok", "error"} /\ ~InUse(co)
    /\ st' = [st EXCEPT ![co] = "fresh"]
    /\ ci' = [ci EXCEPT ![co] = <<Base>>]
    /\ size' = [size EXCEPT ![co] = BASIC_CI_SIZE]
    /\ nCcalls' = [nCcalls EXCEPT ![co] = 0]
    /\ baseCcalls' = [baseCcalls EXCEPT ![co] = 0]
    /\ errfunc' = [errfunc EXCEPT ![co] = "none"]
    /\ UNCHANGED <<open, cstack, ctl>>

(* lua_resumefrom                                                          *)
BadResumeLevel(co) ==    \* lua_resume, which does not count the caller's
    /\ nCcalls' = [nCcalls EXCEPT ![co] = @ + 1]
    /\ UNCHANGED baseCcalls

ResumeLevel(co) ==
    LET n == nCcalls[cur] + 1
    IN  /\ nCcalls' = [nCcalls EXCEPT ![co] = n]
        /\ baseCcalls' = [baseCcalls EXCEPT ![co] = n]

ResumeFresh(co, f) ==
    /\ InC /\ Room
    /\ co # cur /\ st[co] = "fresh" /\ Len(ci[co]) = 1
    /\ nCcalls[co] < LUAI_MAXCCALLS    \* the coroutine's own counter
    /\ ResumeLevel(co)
    /\ Activate("resume", co, "none", nCcalls[cur], 1)
    /\ st' = [st EXCEPT ![co] = "ok"]
    /\ CallOf(co, f)
    /\ UNCHANGED errfunc

(* The call of yield returns to its Lua caller.                            *)
ResumeYielded(co) ==
    /\ InC /\ Room
    /\ co # cur /\ st[co] = "yield"
    /\ nCcalls[co] < LUAI_MAXCCALLS
    /\ ResumeLevel(co)
    /\ Activate("resume", co, "none", nCcalls[cur], 1)
    /\ st' = [st EXCEPT ![co] = "ok"]
    /\ ci' = [ci EXCEPT ![co] = Front(@)]
    /\ open' = [open EXCEPT ![Last(ci[co])] = @ - 1]
    /\ UNCHANGED <<size, errfunc, ctl>>

(* lua_yield.  What follows a yield that does not reach lua_resumefrom is  *)
(* not modelled.                                                           *)
Yield ==
    /\ InC
    /\ Last(cstack).how = "resume" /\ nCcalls[cur] <= baseCcalls[cur]
    /\ st' = [st EXCEPT ![cur] = "yield"]
    /\ nCcalls' = [nCcalls EXCEPT ![cur] = @ - 1]
    /\ cstack' = Front(cstack)
    /\ UNCHANGED <<ci, size, baseCcalls, errfunc, open, ctl>>

(* coroutine.call: lua_pcall on any thread.      A coroutine is idle when  *)
(* it is suspended or finished.                                            *)
Idle(t) == t # Main /\ (st[t] \in {"yield", "error"} \/ (st[t] = "ok" /\ ~InUse(t)))

CoCall(to, f) ==
    /\ InC /\ Room
    /\ st[to] # "none"
    /\ Idle(to) => "call_idle" \in Ops
    /\ Call("cocall", to, f, "none")
    /\ errfunc' = [errfunc EXCEPT ![to] = "none"]
    /\ UNCHANGED <<baseCcalls, st>>

-----------------------------------------------------------------------------
Init ==
    /\ ci = [t \in Thread |-> <<Base>>]
    /\ size = [t \in Thread |-> BASIC_CI_SIZE]
    /\ nCcalls = [t \in Thread |-> 0]
    /\ baseCcalls = [t \in Thread |-> 0]
    /\ errfunc = [t \in Thread |-> "none"]
    /\ st = [t \in Thread |-> IF t = Main THEN "ok" ELSE "none"]
    /\ open = [f \in Closure |-> 0]
    /\ cstack = <<>>
    /\ ctl = "run"

Next ==
    \/ \E f \in Closure : LuaCall(f) \/ NestedCall(f) \/ Handle(f)
    \/ \E f \in Closure, handler \in Handler : PCall(f, handler)
    \/ \E f \in Fn : TailCall(f)
    \/ ReturnToLua \/ ReturnToC
    \/ RaiseError \/ Unhandled \/ Throw
    \/ \E co \in Thread : CoCreate(co) \/ ResumeYielded(co)
    \/ \E co \in Thread, f \in Fn : ResumeFresh(co, f)
    \/ \E to \in Thread, f \in Closure : CoCall(to, f)
    \/ Yield

Spec == Init /\ [][Next]_vars
-----------------------------------------------------------------------------
(* Correctness.                                                            *)

(* Every variable keeps its type; the CallInfos in use fit the array.      *)
TypeOK ==
    /\ ci \in [Thread -> Seq(Closure \cup {Base})]
    /\ \A t \in Thread : Len(ci[t]) \in 1 .. size[t]
    /\ size \in [Thread -> Nat]
    /\ nCcalls \in [Thread -> Nat] /\ baseCcalls \in [Thread -> Nat]
    /\ errfunc \in [Thread -> Handler]
    /\ st \in [Thread -> Status]
    /\ open \in [Closure -> Nat]
    /\ cstack \in Seq(Activation)
    /\ ctl \in {"run", "error", "ERRRUN", "ERRERR"}

(* nopencalls of a closure is the number of its calls in progress or       *)
(* suspended, whatever tail calls, errors and yields ended the others      *)
(* ("cl->c.nopencalls > 0" in luaD_unwindci).                              *)
OpenCallsAreCounted ==
    \A f \in Closure : open[f] =
        Cardinality(UNION {{<<t, i>> : i \in {j \in DOMAIN ci[t] : ci[t][j] = f}} :
                           t \in {u \in Thread : st[u] # "error"}})

(* lua_yield refuses to yield exactly when C code lies between it and the  *)
(* resume of its coroutine ("attempt to yield across metamethod/C-call     *)
(* boundary").                                                             *)
YieldCheckIsExact ==
    InC => (nCcalls[cur] > baseCcalls[cur] <=> Last(cstack).how # "resume")

(* The error handler in force is that of the innermost catcher of the      *)
(* thread: luaG_errormsg never calls one whose stack slot has gone, and a  *)
(* coroutine is resumed without one ("L->errfunc == 0" in lua_resumefrom). *)
HandlerOfCatcher ==
    \A t \in Thread :
        LET mine == {k \in DOMAIN cstack : cstack[k].t = t /\ cstack[k].how \in Catchers}
        IN  errfunc[t] = IF mine = {} THEN "none" ELSE cstack[Max(mine)].handler

(* Only a coroutine that nobody runs is resumed ("cannot resume            *)
(* non-suspended coroutine").                                              *)
OnlySuspendedAreResumed == [][
    \A co \in Thread : (ResumeYielded(co) \/ \E f \in Fn : ResumeFresh(co, f)) => ~InUse(co)
    ]_vars

(* LUA_ERRERR ends a call only while an error is being handled, or an      *)
(* overflow of the CallInfos has not been undone ("error while handing     *)
(* stack error").                                                          *)
ErrErrWhileHandling ==
    ctl = "ERRERR" => \/ errfunc[cur] = "global"
                      \/ \E k \in DOMAIN cstack : cstack[k].how = "handler"
                      \/ size[cur] > LUAI_MAXCALLS
=============================================================================
