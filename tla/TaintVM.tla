------------------------------- MODULE TaintVM -------------------------------
(***************************************************************************)
(* Taint propagation through the interpreter: Lua and C frames, calls,     *)
(* tail calls, metamethods, errors, taint barriers, __gc metamethods,      *)
(* debug hooks and coroutines (lvm.c, ldo.c, lgc.c, lapi.c, lauxlib.c,     *)
(* lbaselib.c, lcorolib.c).                                                *)
(*                                                                         *)
(* A value is its taint; registers are abstracted to one value per frame,  *)
(* tables, globals and upvalues to a few shared cells.  The C stack is a   *)
(* single stack of activations: every C call that re-enters the            *)
(* interpreter (lua_pcall, GCTM, lua_resumefrom, ...) leaves one, holding  *)
(* the C locals that outlive the call.  CallInfos are kept per thread.     *)
(***************************************************************************)
EXTENDS TaintState, Naturals, SequencesExt

CONSTANTS
    Thread,      \* lua_State objects
    Main,        \* the main thread
    Closure,     \* Lua closures
    Vararg,      \* the closures whose prototype is a vararg function
    Cell,        \* table slots, globals and upvalues
    Lib,         \* the library functions scripts may call
    MaxFrames,   \* bound: CallInfos per thread, base_ci included
    MaxC         \* bound: activations on the C stack

ASSUME ThreadAssumption == Main \in Thread
ASSUME ClosureAssumption == NULL \notin Closure /\ Vararg \subseteq Closure
ASSUME TaintAssumption == "uninit" \notin TaintOrNull
ASSUME BoundAssumption == MaxFrames \in Nat /\ MaxC \in Nat

VARIABLES
    ts,      \* thread -> its taint fields
    ci,      \* thread -> its CallInfo array, base_ci first
    st,      \* thread -> coroutine status
    cstack,  \* the C stack
    clo,     \* closure -> object taint (GCheader.taint)
    heap,    \* cell -> value
    ctl      \* what the interpreter is about to do

vars == <<ts, ci, st, cstack, clo, heap, ctl>>

-----------------------------------------------------------------------------
(* `by' is history: the taint of the Lua closure that computed the value,  *)
(* when reads and writes were both tracked.                                *)
Value == [taint : TaintOrNull, by : TaintOrNull]
Secure == [taint |-> NULL, by |-> NULL]

Status == {"none", "fresh", "live", "yield", "dead"}
Control == {"run", "returned", "yielded", "failed", "rethrow"}

(* A CallInfo.  fn: the Lua closure, NULL for a C function.  val: the      *)
(* frame's registers.  sav: savedtaint, "uninit" until the first write.    *)
(* ent: history, cl->taint when luaV_execute last (re)entered the frame    *)
(* with reads tracked.                                                     *)
Frame == [kind : {"base", "lua", "c"}, fn : Closure \cup {NULL}, val : Value,
          sav : TaintOrNull \cup {"uninit"}, ent : TaintOrNull]

(* Ways C code re-enters the interpreter.                                  *)
Catchers == {"pcall", "secure", "cocall", "resume"}  \* lua_pcall, luaL_pcallas, aux_cocall, lua_resumefrom
Rethrowers == {"peek", "delegate"}                   \* lua_protecttaint, f_securedelegate
Barriers == {"secure", "gc"} \cup Rethrowers         \* those with a saved taint state
How == Catchers \cup Barriers \cup {"meta", "api", "hook"}

(* An activation: executed on thread t above its first `at' CallInfos, by  *)
(* C code running on thread `from'.                                        *)
Activation == [how : How, t : Thread, from : Thread, at : Nat,
               saved : Context, fix : TaintOrNull]

BaseFrame(f) == [kind |-> "base", fn |-> f, val |-> Secure, sav |-> NULL, ent |-> NULL]

-----------------------------------------------------------------------------
cur == IF cstack = <<>> THEN Main ELSE Last(cstack).t   \* the running thread
top == Last(ci[cur])                                    \* L->ci
now == ts[cur]                                          \* its taint fields

Running(kinds) == ctl = "run" /\ top.kind \in kinds
InC == Running({"c", "base"})
InLua == Running({"lua"})

Unpin(x) == [x EXCEPT !.fixed = NULL]

BadReenter(x, taint) == [Unpin(x) EXCEPT !.fixed = taint]

(* luaV_execute at `reentry'.                                              *)
Reenter(x, taint) == [TaintStack(Unpin(x), taint) EXCEPT !.fixed = taint]

(* setobj2s of v: the value in the destination slot.                       *)
Moved(x, v) == [v EXCEPT !.taint = SlotTaint(x, v.taint)]

(* A value that C code makes: no Lua closure has computed it.              *)
Labelled(taint) == [taint |-> taint, by |-> NULL]

(* A value computed by the running frame (setnvalue, setsvalue, ...).      *)
Computed == [taint |-> now.write, by |-> IF now.rd /\ now.wr THEN top.ent ELSE NULL]

WithTop(frames, f) == Append(Front(frames), f)
WithVal(frames, v) == WithTop(frames, [Last(frames) EXCEPT !.val = v])

BadEntered(x, f, v) ==    \* a C function keeps its caller's pin
    IF f = NULL THEN x
    ELSE Reenter(IF f \in Vararg THEN TaintStack(Unpin(x), v.taint) ELSE x, clo[f])

(* luaD_precall on thread t with taint x: the caller's savedtaint, the     *)
(* new CallInfo, the vararg copy and, for a Lua function, its first entry. *)
Entered(x, f, v) ==
    IF f = NULL THEN Unpin(x)
    ELSE Reenter(IF f \in Vararg THEN TaintStack(Unpin(x), v.taint) ELSE x, clo[f])

Entry(x, f) == IF f # NULL /\ x.rd THEN clo[f] ELSE NULL

CallFrame(x, f, v) ==
    [kind |-> IF f = NULL THEN "c" ELSE "lua", fn |-> f, val |-> v,
     sav |-> "uninit", ent |-> Entry(x, f)]

BadCalled(frames, x, f, v) == Append(frames, CallFrame(x, f, v))

Called(frames, x, f, v) ==
    Append(WithTop(frames, [Last(frames) EXCEPT !.sav = x.stack]), CallFrame(x, f, v))

Precall(t, x, f, v) ==
    /\ Len(ci[t]) < MaxFrames
    /\ ts' = [ts EXCEPT ![t] = Entered(x, f, v)]
    /\ ci' = [ci EXCEPT ![t] = Called(@, x, f, v)]

(* The taint state that C code keeps in a local: only barriers keep one.   *)
SavedBy(how) == SaveTaint(IF how \in Barriers THEN now ELSE PreinitTaint)

(* C code calls into the interpreter on its own thread.                    *)
Activate(how, fix) ==
    /\ Len(cstack) < MaxC
    /\ cstack' = Append(cstack, [how |-> how, t |-> cur, from |-> cur,
                                 at |-> Len(ci[cur]), saved |-> SavedBy(how), fix |-> fix])

Callee == Closure \cup {NULL}
-----------------------------------------------------------------------------
(* The host has created the main thread, chosen a taint mode and loaded    *)
(* the closures; nothing has run.                                          *)
Init ==
    /\ \E rd, wr \in BOOLEAN :
         ts = [t \in Thread |-> SetTaintMode(PreinitTaint, rd /\ t = Main, wr /\ t = Main)]
    /\ ci = [t \in Thread |-> <<BaseFrame(NULL)>>]
    /\ st = [t \in Thread |-> IF t = Main THEN "live" ELSE "none"]
    /\ cstack = <<>>
    /\ clo \in [Closure -> TaintOrNull]
    /\ heap = [c \in Cell |-> Secure]
    /\ ctl = "run"

-----------------------------------------------------------------------------
(* Data movement, by a Lua opcode or by an API call of a C function.       *)

(* OP_GETUPVAL, OP_GETGLOBAL, OP_GETTABLE, lua_gettable, lua_pushvalue ... *)
Read(c) ==
    /\ ctl = "run"
    /\ ts' = [ts EXCEPT ![cur] = TaintStack(now, heap[c].taint)]
    /\ ci' = [ci EXCEPT ![cur] = WithVal(@, Moved(now, heap[c]))]
    /\ UNCHANGED <<st, cstack, clo, heap, ctl>>

(* OP_LOADK, OP_LOADNIL, arithmetic, OP_CONCAT, OP_NEWTABLE, lua_pushxxx.  *)
Compute ==
    /\ ctl = "run"
    /\ ci' = [ci EXCEPT ![cur] = WithVal(@, Computed)]
    /\ UNCHANGED <<ts, st, cstack, clo, heap, ctl>>

(* OP_SETUPVAL, OP_SETTABLE, lua_settable: setobj, the value as it is.     *)
Store(c) ==
    /\ ctl = "run"
    /\ heap' = [heap EXCEPT ![c] = top.val]
    /\ UNCHANGED <<ts, ci, st, cstack, clo, ctl>>

(* OP_CLOSURE: a fresh closure takes the name of one that nothing runs.    *)
NewClosure(f) ==
    /\ InLua
    /\ \A t \in Thread : \A i \in DOMAIN ci[t] : ci[t][i].fn # f
    /\ clo' = [clo EXCEPT ![f] = TaintAllocFunction(now)]
    /\ ci' = [ci EXCEPT ![cur] = WithVal(@, Computed)]
    /\ UNCHANGED <<ts, st, cstack, heap, ctl>>

-----------------------------------------------------------------------------
(* Calls made by a Lua frame.                                              *)

(* OP_CALL.  The argument was moved to its register by the caller.         *)
LuaCall(f) ==
    /\ InLua
    /\ Precall(cur, TaintStack(now, top.val.taint), f, Moved(now, top.val))
    /\ UNCHANGED <<st, cstack, clo, heap, ctl>>

(* OP_TAILCALL of a Lua function: the new frame takes the caller's place,  *)
(* its slots moved down one by one.                                        *)
TailCall(f) ==
    LET x == TaintStack(now, top.val.taint)
        v == Moved(now, top.val)
    IN  /\ InLua
        /\ ts' = [ts EXCEPT ![cur] = Reenter(TaintStack(Unpin(x), v.taint), clo[f])]
        /\ ci' = [ci EXCEPT ![cur] = WithTop(@, CallFrame(x, f, v))]
        /\ UNCHANGED <<st, cstack, clo, heap, ctl>>

(* callTM, callTMres: the metamethod is read from cell c to the stack, the *)
(* argument after it.                                                      *)
MetaCall(c, f) ==
    LET x == TaintStack(now, heap[c].taint) IN
    /\ InLua
    /\ Precall(cur, x, f, Moved(x, top.val))
    /\ Activate("meta", NULL)
    /\ UNCHANGED <<st, clo, heap, ctl>>

(* OP_CALL or OP_TAILCALL of a C function.                                 *)
CallC ==
    /\ InLua
    /\ Precall(cur, TaintStack(now, top.val.taint), NULL, Moved(now, top.val))
    /\ UNCHANGED <<st, cstack, clo, heap, ctl>>

-----------------------------------------------------------------------------
(* Calls made by C code.  x is the taint state it leaves before the call,  *)
(* v the argument it passes.                                               *)
CallFromC(how, x, f, v) ==
    /\ InC
    /\ Precall(cur, x, f, v)
    /\ Activate(how, NULL)
    /\ UNCHANGED <<st, clo, heap, ctl>>

(* lua_call; the host itself only makes protected calls.                   *)
Call(f) == top.kind = "c" /\ CallFromC("api", now, f, top.val)

(* pcall, xpcall.                                                          *)
PCall(f) == CallFromC("pcall", now, f, top.val)

(* securecall, securecallfunction, secureexecuterange, a hooksecurefunc    *)
(* post-hook: luaL_pcallas with the caller's own taint state.              *)
SecureCall(f) == "securecall" \in Lib /\ CallFromC("secure", now, f, top.val)

(* f_securedelegate: run the target secure, whatever the caller's taint.   *)
DelegateCall(f) ==
    /\ "delegate" \in Lib
    /\ top.kind = "c"
    /\ CallFromC("delegate", SetStackTaint(now, NULL), f, Secure)

(* issecurevariable, hooksecurefunc: lua_protecttaint around a table read  *)
(* made with a cleared stack taint, here one that calls __index.           *)
PeekCall(c, f) ==
    /\ "peek" \in Lib
    /\ top.kind = "c"
    /\ LET x == TaintStack(SetStackTaint(now, NULL), heap[c].taint)
       IN  CallFromC("peek", x, f, Moved(x, top.val))

(* luaC_step in any frame: GCTM calls a __gc metamethod found in cell c    *)
(* with the userdata, which it pushes itself.                              *)
Finalize(c, f) ==
    LET x == TaintStack(now, heap[c].taint) IN
    /\ "gc" \in Lib
    /\ Running({"lua", "c"})
    /\ Precall(cur, x, f, Labelled(x.write))
    /\ Activate("gc", NULL)
    /\ UNCHANGED <<st, clo, heap, ctl>>

(* luaD_callhook from traceexec: a count or line hook whose hook function  *)
(* was found in cell c; hooks and finalizers are not hooked (allowhook).   *)
CallHook(c, f) ==
    LET x == TaintStack(Unpin(now), heap[c].taint) IN
    /\ "hook" \in Lib
    /\ InLua
    /\ \A i \in DOMAIN cstack : cstack[i].t = cur => cstack[i].how \notin {"hook", "gc"}
    /\ Precall(cur, x, f, Labelled(x.write))
    /\ Activate("hook", now.fixed)
    /\ UNCHANGED <<st, clo, heap, ctl>>

-----------------------------------------------------------------------------
(* Returns.  luaD_poscall leaves the frame, clears fixedtaint and moves    *)
(* the results, if any are wanted, to the caller's frame.                  *)
AtActivation == cstack # <<>> /\ Len(ci[cur]) = Last(cstack).at + 1
Results(wanted, v) == IF wanted THEN v ELSE Secure
BadAfterMove(wanted) == TaintStack(now, Results(wanted, top.val).taint)
AfterMove(wanted) == TaintStack(Unpin(now), Results(wanted, top.val).taint)

ReceivedBy(frame, wanted) ==
    IF wanted THEN [frame EXCEPT !.val = Moved(Unpin(now), top.val)] ELSE frame

(* OP_RETURN to a Lua caller re-enters it; a C function called by OP_CALL  *)
(* returns into the middle of luaV_execute.                                *)
ReturnToLua(wanted) ==
    LET caller == Last(Front(ci[cur]))
        taint == clo[caller.fn]
        frame == ReceivedBy(caller, wanted)
    IN  /\ Running({"lua", "c"})
        /\ ~AtActivation
        /\ caller.kind = "lua"
        /\ IF top.kind = "lua"
           THEN /\ ts' = [ts EXCEPT ![cur] = Reenter(AfterMove(wanted), taint)]
                /\ ci' = [ci EXCEPT ![cur] = WithTop(Front(@), [frame EXCEPT !.ent = Entry(now, frame.fn)])]
           ELSE /\ ts' = [ts EXCEPT ![cur] = AfterMove(wanted)]
                /\ ci' = [ci EXCEPT ![cur] = WithTop(Front(@), frame)]
        /\ UNCHANGED <<st, cstack, clo, heap, ctl>>

BadResumed(a, x) ==    \* GCTM forgets luaR_loadtaint
    CASE a.how = "hook" -> [x EXCEPT !.fixed = a.fix]
      [] OTHER -> IF a.how \in Barriers \ {"gc"} THEN LoadTaint(x, a.saved) ELSE x

(* What the C code that made the call does with the taint state x.         *)
Resumed(a, x) ==
    CASE a.how = "gc" /\ "gctaint" \in Lib -> x    \* LUA_COMPATGCTAINT
      [] a.how = "hook" -> [x EXCEPT !.fixed = a.fix]
      [] OTHER -> IF a.how \in Barriers THEN LoadTaint(x, a.saved) ELSE x

(* ... and with the results: luaL_pcallas and delegates settoptaint them,  *)
(* lua_protecttaint's callers, GCTM and hooks discard them.                *)
ResumedFrame(a, frame, wanted) ==
    CASE ~wanted \/ a.how \in {"peek", "gc", "hook"} -> frame
      [] a.how \in {"secure", "delegate"} -> [frame EXCEPT !.val = Labelled(a.saved.stack)]
      [] OTHER -> ReceivedBy(frame, wanted)

ReturnToC(wanted) ==
    LET a == Last(cstack)
        drop == a.how \in {"gc", "hook"}    \* nresults = 0
    IN  /\ Running({"lua", "c"})
        /\ AtActivation
        /\ a.how \notin {"resume", "cocall"}
        /\ drop => ~wanted
        /\ ts' = [ts EXCEPT ![cur] = Resumed(a, AfterMove(wanted))]
        /\ ci' = [ci EXCEPT ![cur] = WithTop(Front(@), ResumedFrame(a, Last(Front(@)), wanted))]
        /\ cstack' = Front(cstack)
        /\ UNCHANGED <<st, clo, heap, ctl>>

-----------------------------------------------------------------------------
(* Moving between threads.                                                 *)

(* luaR_taintthread(to, from), then lua_xmove of v to thread `to'; x is    *)
(* the taint state of thread `from'.                                       *)
HandOver(to, from, x, v) ==
    IF to = from THEN [ts EXCEPT ![to] = x]
    ELSE [ts EXCEPT ![from] = x,
                    ![to] = TaintStack(TaintThread(ts[to], x), v.taint)]

(* ... and the frames: `from' is left with frames, `to' receives v.        *)
Delivered(to, from, x, frames, v) ==
    IF to = from THEN [ci EXCEPT ![to] = WithVal(frames, v)]
    ELSE [ci EXCEPT ![from] = frames,
                    ![to] = WithVal(@, Moved(TaintThread(ts[to], x), v))]

-----------------------------------------------------------------------------
(* Errors.  luaD_throw jumps to the innermost catcher; the rethrowers it   *)
(* crosses restore their taint state on the way, finalizers and hooks do   *)
(* not.                                                                    *)
Innermost(k) ==
    /\ cstack[k].how \in Catchers
    /\ \A j \in k + 1 .. Len(cstack) : cstack[j].how \notin Catchers

(* The error err reaches the catcher k with taint state x.                 *)
Catch(k, x, err) ==
    LET a == cstack[k]
        caught == TaintStack(Unpin(x), err.taint)    \* luaD_unwindci, luaD_seterrorobj
        base == SubSeq(ci[cur], 1, a.at)
    IN  \/ /\ a.how = "pcall"
           /\ ts' = [ts EXCEPT ![cur] = caught]
           /\ ci' = [ci EXCEPT ![cur] = WithVal(base, Moved(Unpin(x), err))]
           /\ cstack' = SubSeq(cstack, 1, k - 1)
           /\ ctl' = "run"
        \/ /\ a.how = "secure"
           /\ ts' = [ts EXCEPT ![cur] = LoadTaint(caught, a.saved)]
           /\ ci' = [ci EXCEPT ![cur] = WithVal(base, Labelled(a.saved.stack))]
           /\ cstack' = SubSeq(cstack, 1, k - 1)
           /\ ctl' = "run"
        \/ /\ a.how = "cocall"
           /\ ts' = HandOver(a.from, cur, caught, Moved(Unpin(x), err))
           /\ ci' = Delivered(a.from, cur, caught, base, Moved(Unpin(x), err))
           /\ cstack' = SubSeq(cstack, 1, k - 1)
           /\ ctl' = "rethrow"
        \/ /\ a.how = "resume"    \* the CallInfos are left as they are
           /\ ts' = [ts EXCEPT ![cur] = x]
           /\ ci' = [ci EXCEPT ![cur] = WithVal(@, err)]
           /\ cstack' = SubSeq(cstack, 1, k)
           /\ ctl' = "failed"

(* v is the error value; the last rethrower it crosses gives it its taint. *)
Throw(v) ==
    /\ \E k \in DOMAIN cstack :
         LET crossed == {j \in k + 1 .. Len(cstack) : cstack[j].how \in Rethrowers}
         IN  /\ Innermost(k)
             /\ \A j \in k + 1 .. Len(cstack) : cstack[j].how = "gc" => "gcerror" \in Lib
             /\ \/ crossed = {} /\ Catch(k, now, v)
                \/ \E r \in crossed :
                     /\ \A j \in crossed : r <= j
                     /\ Catch(k, LoadTaint(now, cstack[r].saved),
                              IF cstack[r].how = "peek" THEN Secure    \* err->taint = NULL
                              ELSE Labelled(cstack[r].saved.stack))    \* lua_settoptaint
    /\ UNCHANGED <<st, clo, heap>>

(* An error raised by the virtual machine in a Lua frame.                  *)
LuaError == InLua /\ Throw(Computed)

(* lua_error, luaL_error in a C function.                                  *)
CError == Running({"c"}) /\ Throw(top.val)

(* aux_cocall raises the error of the call in the calling thread.          *)
Rethrow == ctl = "rethrow" /\ Throw(top.val)

-----------------------------------------------------------------------------
(* Coroutines.                                                             *)

(* coroutine.create, coroutine.wrap: the new thread starts as a copy of    *)
(* its creator; the function f is moved to it.                             *)
CoCreate(co, f) ==
    /\ "coroutine" \in Lib
    /\ Running({"c"})
    /\ co # Main /\ st[co] \in {"none", "dead"}
    /\ ts' = [ts EXCEPT ![co] = TaintStack(TaintThread(PreinitTaint, now), top.val.taint)]
    /\ ci' = [ci EXCEPT ![co] = <<BaseFrame(f)>>]
    /\ st' = [st EXCEPT ![co] = "fresh"]
    /\ UNCHANGED <<cstack, clo, heap, ctl>>

(* The resumer's C stack, with the activation of lua_resumefrom.           *)
ActivateOn(how, t) ==
    /\ Len(cstack) < MaxC
    /\ cstack' = Append(cstack, [how |-> how, t |-> t, from |-> cur, at |-> Len(ci[t]),
                                 saved |-> SavedBy(how), fix |-> NULL])

(* lua_resumefrom of a coroutine that has not started.                     *)
ResumeFresh(co) ==
    LET v == Moved(ts[co], top.val)
    IN  /\ Running({"c"})
        /\ st[co] = "fresh" /\ Len(ci[co]) = 1
        /\ Precall(co, TaintThread(ts[co], now), ci[co][1].fn, v)
        /\ ActivateOn("resume", co)
        /\ st' = [st EXCEPT ![co] = "live"]
        /\ UNCHANGED <<clo, heap, ctl>>

(* lua_resumefrom of a suspended coroutine: the results of yield are moved *)
(* to its Lua caller, which luaV_execute re-enters; a caller that wants    *)
(* more than it is given gets nil.                                         *)
ResumeYielded(co, given) ==
    LET x == TaintThread(ts[co], now)
        v == IF given THEN Moved(ts[co], top.val) ELSE Labelled(x.write)
        caller == Last(Front(ci[co]))
        taint == clo[caller.fn]
    IN  /\ Running({"c"})
        /\ st[co] = "yield"
        /\ ts' = [ts EXCEPT ![co] = Reenter(TaintStack(Unpin(x), v.taint), taint)]
        /\ ci' = [ci EXCEPT ![co] =
                     WithTop(Front(@), [caller EXCEPT !.val = Moved(x, v), !.ent = Entry(x, caller.fn)])]
        /\ Len(cstack) < MaxC
        /\ cstack' = Append(cstack, [how |-> "resume", t |-> co, from |-> cur, at |-> 1,
                                     saved |-> SavedBy("resume"), fix |-> NULL])
        /\ st' = [st EXCEPT ![co] = "live"]
        /\ UNCHANGED <<clo, heap, ctl>>

(* lua_yield.  With C code between the coroutine and its resumer           *)
(* (nCcalls > baseCcalls) it is an error, as CError.                       *)
Yield ==
    /\ Running({"c"})
    /\ cstack # <<>> /\ Last(cstack).how = "resume"
    /\ st' = [st EXCEPT ![cur] = "yield"]
    /\ ctl' = "yielded"
    /\ UNCHANGED <<ts, ci, cstack, clo, heap>>

(* The coroutine's function returns; its results stay on the thread.       *)
CoReturn(wanted) ==
    /\ Running({"lua"})
    /\ AtActivation /\ Last(cstack).how = "resume"
    /\ ts' = [ts EXCEPT ![cur] = AfterMove(wanted)]
    /\ ci' = [ci EXCEPT ![cur] = WithTop(Front(@), ReceivedBy(Last(Front(@)), wanted))]
    /\ st' = [st EXCEPT ![cur] = "dead"]
    /\ ctl' = "returned"
    /\ UNCHANGED <<cstack, clo, heap>>

BadFinishResume ==    \* without luaR_taintthread(from, L)
    LET a == Last(cstack) IN
    /\ ctl \in {"returned", "yielded", "failed"}
    /\ ci' = [ci EXCEPT ![a.from] = WithVal(@, Moved(ts[a.from], top.val))]
    /\ st' = IF ctl = "failed" THEN [st EXCEPT ![cur] = "dead"] ELSE st
    /\ cstack' = Front(cstack)
    /\ ctl' = "run"
    /\ UNCHANGED <<ts, clo, heap>>

(* The end of lua_resumefrom, on the resumer's C stack: the taint state is *)
(* copied back, a failed coroutine is unwound and marked dead, and the     *)
(* results or the error value are moved.                                   *)
FinishResume ==
    LET a == Last(cstack)
        v == IF ctl = "failed" THEN Moved(Unpin(now), top.val) ELSE top.val
    IN  /\ ctl \in {"returned", "yielded", "failed"}
        /\ ts' = [ts EXCEPT
                    ![a.from] = TaintStack(TaintThread(ts[a.from], now), v.taint),
                    ![cur] = IF ctl = "failed" THEN TaintStack(Unpin(now), top.val.taint) ELSE now]
        /\ ci' = [ci EXCEPT ![a.from] = WithVal(@, Moved(TaintThread(ts[a.from], now), v))]
        /\ st' = IF ctl = "failed" THEN [st EXCEPT ![cur] = "dead"] ELSE st
        /\ cstack' = Front(cstack)
        /\ ctl' = "run"
        /\ UNCHANGED <<clo, heap>>

(* coroutine.call, coroutine.bind: run f on thread `to', which is not      *)
(* suspended in a yield.                                                   *)
CoCall(to, f) ==
    LET x == IF to = cur THEN now ELSE TaintStack(TaintThread(ts[to], now), top.val.taint)
        v == Moved(TaintThread(ts[to], now), top.val)
    IN  /\ "coroutine.call" \in Lib
        /\ Running({"c"})
        /\ st[to] \in {"live", "fresh"}
        /\ Precall(to, x, f, v)
        /\ ActivateOn("cocall", to)
        /\ UNCHANGED <<st, clo, heap, ctl>>

CoCallReturn(wanted) ==
    LET a == Last(cstack)
        x == AfterMove(wanted)
        v == IF wanted THEN Moved(Unpin(now), top.val) ELSE Last(ci[a.from]).val
    IN  /\ Running({"lua", "c"})
        /\ AtActivation /\ a.how = "cocall"
        /\ ts' = HandOver(a.from, cur, x, Results(wanted, v))
        /\ ci' = IF wanted THEN Delivered(a.from, cur, x, Front(ci[cur]), v)
                 ELSE [ci EXCEPT ![cur] = Front(@)]
        /\ cstack' = Front(cstack)
        /\ UNCHANGED <<st, clo, heap, ctl>>

-----------------------------------------------------------------------------
(* Taint API, called by C functions of the debug and security libraries,   *)
(* on their own thread or on another one.                                  *)
Api(t, x) ==
    /\ Running({"c"}) /\ st[t] # "none"
    /\ ts' = [ts EXCEPT ![t] = x]
    /\ UNCHANGED <<ci, st, cstack, clo, heap, ctl>>

(* debug.setstacktaint *)
ApiSetStackTaint(t, taint) == "settaint" \in Lib /\ Api(t, SetStackTaint(ts[t], taint))

(* debug.settaintmode *)
ApiSetTaintMode(rd, wr) == "settaintmode" \in Lib /\ Api(cur, SetTaintMode(now, rd, wr))

(* debug.setnewobjecttaint, debug.setnewclosuretaint *)
ApiSetNewGCTaint(t, taint) == "setnewtaint" \in Lib /\ Api(t, [ts[t] EXCEPT !.newgc = taint])
ApiSetNewClosureTaint(t, taint) == "setnewtaint" \in Lib /\ Api(t, [ts[t] EXCEPT !.newcl = taint])

(* debug.cleartaint: lua_cleartaint(L, 0) *)
ApiClearTaint ==
    /\ "settaint" \in Lib
    /\ Api(cur, [SetStackTaint(now, NULL) EXCEPT !.newgc = NULL, !.newcl = NULL])

(* debug.setvaluetaint *)
ApiSetValueTaint(taint) ==
    /\ "settaint" \in Lib
    /\ Running({"c"})
    /\ ci' = [ci EXCEPT ![cur] = WithVal(@, Labelled(taint))]
    /\ UNCHANGED <<ts, st, cstack, clo, heap, ctl>>

(* debug.setobjecttaint on a closure *)
ApiSetObjectTaint(f, taint) ==
    /\ "settaint" \in Lib
    /\ Running({"c"})
    /\ clo' = [clo EXCEPT ![f] = taint]
    /\ UNCHANGED <<ts, ci, st, cstack, heap, ctl>>

(* debug.resettaint: lua_resettaint also clears every frame of the thread. *)
ApiResetTaint ==
    /\ "settaint" \in Lib
    /\ Running({"c"})
    /\ ts' = [ts EXCEPT ![cur] =
                 [SetStackTaint(SetTaintMode(now, FALSE, FALSE), NULL)
                    EXCEPT !.newgc = NULL, !.newcl = NULL]]
    /\ ci' = [ci EXCEPT ![cur] = [i \in DOMAIN @ |-> [@[i] EXCEPT !.sav = NULL, !.val = Secure]]]
    /\ UNCHANGED <<st, cstack, clo, heap, ctl>>

(* forceinsecure: taint a secure caller.                                   *)
ForceInsecure(taint) ==
    "forceinsecure" \in Lib /\ now.stack = NULL /\ Api(cur, SetStackTaint(now, taint))

(* loadstring: taint any caller.                                           *)
LoadString(taint) == "loadstring" \in Lib /\ Api(cur, SetStackTaint(now, taint))

BadGetFenv(f) == "fenv" \in Lib /\ Api(cur, SetStackTaint(now, clo[f]))

(* getfenv: lua_taintstack with the object taint of the function.          *)
GetFenv(f) ==
    "fenv" \in Lib /\ Api(cur, TaintStack(now, clo[f]))

(* setfenv, pcallwithenv: lua_taintobject of the function.                 *)
SetFenv(f) ==
    /\ "fenv" \in Lib
    /\ Running({"c"})
    /\ clo' = [clo EXCEPT ![f] = TaintWith(now, @)]
    /\ UNCHANGED <<ts, ci, st, cstack, heap, ctl>>

-----------------------------------------------------------------------------
Move ==
    \/ \E c \in Cell : Read(c) \/ Store(c)
    \/ Compute
    \/ \E f \in Closure : NewClosure(f)

CallStep ==
    \/ \E f \in Closure : LuaCall(f) \/ TailCall(f)
    \/ CallC
    \/ \E f \in Callee : Call(f) \/ PCall(f) \/ SecureCall(f) \/ DelegateCall(f)
    \/ \E f \in Callee, c \in Cell :
         MetaCall(c, f) \/ PeekCall(c, f) \/ Finalize(c, f) \/ CallHook(c, f)

ReturnStep == \E wanted \in BOOLEAN :
    ReturnToLua(wanted) \/ ReturnToC(wanted) \/ CoReturn(wanted) \/ CoCallReturn(wanted)

ErrorStep == LuaError \/ CError \/ Rethrow

CoroutineStep ==
    \/ \E co \in Thread : ResumeFresh(co)
    \/ \E co \in Thread, given \in BOOLEAN : ResumeYielded(co, given)
    \/ \E co \in Thread, f \in Closure : CoCreate(co, f)
    \/ \E to \in Thread, f \in Callee : CoCall(to, f)
    \/ Yield
    \/ FinishResume

ExplicitStep ==
    \/ \E t \in Thread, taint \in TaintOrNull :
         \/ ApiSetStackTaint(t, taint)
         \/ ApiSetNewGCTaint(t, taint)
         \/ ApiSetNewClosureTaint(t, taint)
    \/ \E rd, wr \in BOOLEAN : ApiSetTaintMode(rd, wr)
    \/ \E taint \in TaintOrNull : ApiSetValueTaint(taint)
    \/ \E f \in Closure, taint \in TaintOrNull : ApiSetObjectTaint(f, taint)
    \/ ApiClearTaint
    \/ ApiResetTaint

EnvironmentStep ==
    \/ \E taint \in Taint : ForceInsecure(taint) \/ LoadString(taint)
    \/ \E f \in Closure : GetFenv(f) \/ SetFenv(f)

Next == Move \/ CallStep \/ ReturnStep \/ ErrorStep \/ CoroutineStep \/ ExplicitStep \/ EnvironmentStep

Spec == Init /\ [][Next]_vars
-----------------------------------------------------------------------------
(* Correctness.                                                            *)

(* Every variable keeps its type.                                          *)
TypeOK ==
    /\ ts \in [Thread -> ThreadTaint]
    /\ ci \in [Thread -> Seq(Frame)]
    /\ st \in [Thread -> Status]
    /\ cstack \in Seq(Activation)
    /\ clo \in [Closure -> TaintOrNull]
    /\ heap \in [Cell -> Value]
    /\ ctl \in Control

(* L->writetaint caches "the stack taint if writes are tracked" and every  *)
(* stack write uses the cache: no primitive, copy between threads or       *)
(* barrier may leave it out of date.                                       *)
WriteTaintCoherent ==
    \A t \in Thread : ts[t].write = IF ts[t].wr THEN ts[t].stack ELSE NULL

(* L->fixedtaint is "taint applied from currently executing Lua closure"   *)
(* (lstate.h): a thread that is suspended, runs C or waits for a callee    *)
(* never keeps one, or its next stack reads would not taint it.            *)
FixedOnlyWhileRunningLua ==
    \A t \in Thread : ts[t].fixed # NULL =>
        /\ t = cur
        /\ top.kind = "lua"
        /\ now.rd => now.fixed = top.ent

(* While a tainted closure's taint is pinned and reads are tracked, the    *)
(* stack taint is that closure's taint and no other, so everything the     *)
(* closure computes carries its own taint.  A debug hook may break it.  An *)
(* error that has crossed lua_protecttaint leaves the pin to lua_resume.   *)
PinnedStack ==
    ctl = "run" =>
        \A t \in Thread : ts[t].fixed # NULL /\ ts[t].rd => ts[t].stack = ts[t].fixed

(* Unless the taint API clears it, a value computed by a tainted Lua       *)
(* closure stays tainted, through every call, error, barrier, finalizer    *)
(* and coroutine switch that came before the computation, and after it     *)
(* until a barrier relabels it.                                            *)
ComputedByTaintedStaysTainted ==
    /\ \A t \in Thread : \A i \in DOMAIN ci[t] : ci[t][i].val.by # NULL => ci[t][i].val.taint # NULL
    /\ \A c \in Cell : heap[c].by # NULL => heap[c].taint # NULL

(* Closures created by a tainted Lua closure that tracks its reads and     *)
(* writes get an object taint, so whatever runs them later is tainted,     *)
(* whatever the host has set as the taint of new objects and closures.     *)
TaintsNewClosures ==
    now.rd /\ now.wr /\ now.fixed # NULL =>
        \A f \in Closure : NewClosure(f) => clo'[f] # NULL
ClosuresOfTaintedCodeAreTainted == [][TaintsNewClosures]_vars

(* lua_getcalltaint reads ci->savedtaint of every frame below L->ci; new   *)
(* CallInfos leave the field unset, and a tail call copies it unset.       *)
SavedTaintIsSet ==
    \A t \in Thread : \A i \in DOMAIN ci[t] : i < Len(ci[t]) => ci[t][i].sav # "uninit"

(* luatest_scriptcases.lua, "Taint during '__gc' metamethod": taint can no *)
(* longer propagate outside of the execution of a __gc metamethod.  No     *)
(* step closes a finalizer without giving back the taint it interrupted.   *)
FinalizersAreBarriers == [][
    \A i \in DOMAIN cstack :
        cstack[i].how = "gc" /\ Len(cstack') < i =>
            SaveTaint(ts'[cur']).stack = cstack[i].saved.stack
    ]_vars

(* The concrete machine implements TaintContext: the context is that of    *)
(* the running thread.                                                     *)
OpenBarriers == {k \in DOMAIN cstack : cstack[k].how \in Barriers}
Abstract == INSTANCE TaintContext WITH
    ctx <- SaveTaint(now),
    saves <- [k \in OpenBarriers |-> cstack[k].saved],
    Level <- 1 .. MaxC,
    Explicit <- (IF Lib \cap {"settaint", "settaintmode", "setnewtaint"} # {} THEN {"set"} ELSE {})
                \cup (IF Lib \cap {"forceinsecure", "loadstring"} # {} THEN {"raise"} ELSE {})
OneContext == Abstract!Spec
=============================================================================
