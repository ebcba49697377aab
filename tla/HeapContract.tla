---------------------------- MODULE HeapContract ----------------------------
(***************************************************************************)
(* What a garbage-collected heap promises a program: what the program can  *)
(* get at is never reclaimed, an object with a finalizer is finalized once *)
(* and before it is reclaimed, and only when nothing held it but weak      *)
(* references and other objects that are to be finalized.  No colors,      *)
(* phases or lists.                                                        *)
(***************************************************************************)
CONSTANTS
    Obj,
    Finalizable,    \* objects with a finalizer
    Revivable       \* objects the program can find again by other means

VARIABLES
    live,       \* allocated objects
    usable,     \* those the program can get at
    held,       \* those it can without weak references or pending objects
    pending,    \* objects waiting for their finalizer
    done        \* objects whose finalizer has been called

vars == <<live, usable, held, pending, done>>

Init == live = usable /\ usable \in SUBSET Obj /\ held \subseteq usable /\ pending = {} /\ done = {}

(* The program allocates, reads, writes and forgets references.            *)
Program ==
    /\ live \subseteq live'
    /\ usable' \subseteq usable \cup (live' \ live) \cup (Revivable \cap live)
    /\ usable' \subseteq live'
    /\ UNCHANGED <<pending, done>>

(* Objects that are not usable are reclaimed or handed over to finalizers; *)
(* weak references may go.                                                 *)
Collect ==
    /\ live' \subseteq live
    /\ (live \ live') \cap (usable \cup pending) = {}
    /\ (live \ live') \cap Finalizable \subseteq done
    /\ pending \subseteq pending'
    /\ pending' \ pending \subseteq (Finalizable \cap live') \ (held \cup done)
    /\ usable' \subseteq usable
    /\ done' = done \cap live'

(* A finalizer gets its object back.                                       *)
Finalize(o) ==
    /\ o \in pending
    /\ pending' = pending \ {o}
    /\ done' = done \cup {o}
    /\ usable \subseteq usable' /\ usable' \subseteq live
    /\ UNCHANGED live

Next ==
    /\ held' \subseteq usable'
    /\ Program \/ Collect \/ \E o \in Obj : Finalize(o)

Spec == Init /\ [][Next]_vars
=============================================================================
