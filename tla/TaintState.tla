----------------------------- MODULE TaintState -----------------------------
(***************************************************************************)
(* The taint fields of a Lua thread and the primitives that act on them    *)
(* (liblua/lsec.h), with the stack-write rules of liblua/lmanip.h.         *)
(*                                                                         *)
(* A taint is a member of Taint; NULL is "secure".  The taint fields of a  *)
(* lua_State are one record, and every C primitive `luaR_xxx(L, ...)' is an *)
(* operator from such a record to the record the primitive leaves behind.  *)
(***************************************************************************)
CONSTANTS
    Taint,    \* interned taint names
    NULL      \* the null TString pointer: secure

ASSUME NullAssumption == NULL \notin Taint

TaintOrNull == Taint \cup {NULL}

(* lua_State: taintflags (RD, WR), stacktaint, writetaint, fixedtaint,     *)
(* newgctaint, newcltaint.                                                 *)
ThreadTaint ==
    [rd : BOOLEAN, wr : BOOLEAN, stack : TaintOrNull, write : TaintOrNull,
     fixed : TaintOrNull, newgc : TaintOrNull, newcl : TaintOrNull]

(* struct TaintState: what the barriers save and restore.                  *)
Context ==
    [rd : BOOLEAN, wr : BOOLEAN, stack : TaintOrNull, newgc : TaintOrNull,
     newcl : TaintOrNull]

(* preinit_state: a new state before luaE_newthread copies its creator.    *)
PreinitTaint ==
    [rd |-> FALSE, wr |-> FALSE, stack |-> NULL, write |-> NULL,
     fixed |-> NULL, newgc |-> NULL, newcl |-> NULL]

(* Definitions named BadXxx, here and in the other modules, are           *)
(* seeded defects: each replaces the definition after it in a run that     *)
(* must then find a property violated.                                     *)
BadSetTaintMode(x, rd, wr) == [x EXCEPT !.rd = rd, !.wr = wr]

SetTaintMode(x, rd, wr) ==
    [x EXCEPT !.rd = rd, !.wr = wr, !.write = IF wr THEN x.stack ELSE NULL]

BadSetStackTaint(x, taint) == [x EXCEPT !.stack = taint, !.write = taint]

SetStackTaint(x, taint) ==
    [x EXCEPT !.stack = taint, !.write = IF x.wr THEN taint ELSE NULL]

BadTaintStack(x, taint) ==    \* ignores the pin
    IF taint # NULL /\ x.rd THEN SetStackTaint(x, taint) ELSE x

(* luaR_taintstack: reading a tainted value taints execution, unless the   *)
(* taint is pinned by a tainted Lua closure or reads are not tracked.      *)
TaintStack(x, taint) ==
    IF taint # NULL /\ x.fixed = NULL /\ x.rd THEN SetStackTaint(x, taint) ELSE x

(* luaR_taintvalue and luaR_taintobject, on the taint field they overwrite. *)
TaintWith(x, old) == IF x.write # NULL THEN x.write ELSE old

BadTaintAllocFunction(x) == IF x.newgc # NULL THEN x.newgc ELSE x.newcl

(* luaR_taintalloc: the object taint of a new function.                    *)
TaintAllocFunction(x) ==
    IF x.newgc # NULL THEN x.newgc
    ELSE IF x.write # NULL THEN x.write
    ELSE x.newcl

SaveTaint(x) ==
    [rd |-> x.rd, wr |-> x.wr, stack |-> x.stack, newgc |-> x.newgc,
     newcl |-> x.newcl]

(* luaR_loadtaint / lua_restoretaint: mode first, then the stack taint.    *)
LoadTaint(x, saved) ==
    [SetStackTaint(SetTaintMode(x, saved.rd, saved.wr), saved.stack)
        EXCEPT !.newgc = saved.newgc, !.newcl = saved.newcl]

(* luaR_taintthread(L, from), without its two assertions.                  *)
TaintThread(x, from) == LoadTaint(x, SaveTaint(from))

(* setobj2s: the taint the destination slot gets.  An untainted value      *)
(* written to the stack is tainted by the writer.                          *)
SlotTaint(x, taint) == IF taint = NULL THEN x.write ELSE taint
=============================================================================
