---------------------------- MODULE TaintContext ----------------------------
(***************************************************************************)
(* What taint propagation promises a host, with no threads, frames or      *)
(* caches: execution has one taint context, wherever control goes, and a   *)
(* stack of contexts saved by the barriers that are open.  The context may *)
(* pick up a taint, and loses it only when a barrier is left, when its     *)
(* saved context returns.                                                  *)
(***************************************************************************)
EXTENDS Integers

CONSTANTS
    Taint, NULL,
    Level,      \* set of numbers: how deep barriers can be
    Explicit    \* subset of {"raise", "set"}: what library functions may do directly

VARIABLES
    ctx,     \* the taint context of execution
    saves    \* contexts saved by the open barriers: a function of their levels

TaintOrNull == Taint \cup {NULL}
Context == [rd : BOOLEAN, wr : BOOLEAN, stack : TaintOrNull, newgc : TaintOrNull,
            newcl : TaintOrNull]

(* The contexts that reading tainted values can lead to.                   *)
Tainted(c) == {c} \cup (IF c.rd THEN {[c EXCEPT !.stack = t] : t \in Taint} ELSE {})

Init == ctx \in [rd : BOOLEAN, wr : BOOLEAN, stack : {NULL}, newgc : {NULL}, newcl : {NULL}]
        /\ saves = [k \in {} |-> ctx]

Read == ctx' \in Tainted(ctx) /\ UNCHANGED saves

(* A barrier may also run its body with a cleared stack taint.             *)
Enter ==
    /\ \E l \in Level :
         /\ \A k \in DOMAIN saves : k < l
         /\ saves' = [k \in DOMAIN saves \cup {l} |-> IF k = l THEN ctx ELSE saves[k]]
    /\ ctx' \in Tainted(ctx) \cup Tainted([ctx EXCEPT !.stack = NULL])

(* An error may leave several barriers at once.                            *)
Leave == \E k \in DOMAIN saves :
    /\ saves' = [j \in {i \in DOMAIN saves : i < k} |-> saves[j]]
    /\ ctx' \in Tainted(saves[k])

(* forceinsecure and loadstring taint execution whatever the mode.         *)
Raise ==
    /\ "raise" \in Explicit
    /\ \E t \in Taint : ctx' = [ctx EXCEPT !.stack = t]
    /\ UNCHANGED saves

(* The taint API of the debug library.                                     *)
Set == "set" \in Explicit /\ ctx' \in Context /\ UNCHANGED saves

Next == Read \/ Enter \/ Leave \/ Raise \/ Set

vars == <<ctx, saves>>

Spec == Init /\ [][Next]_vars
=============================================================================
