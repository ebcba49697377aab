----------------------------- MODULE MCTaintVM ------------------------------
(* TaintVM for TLC.  Taints are interchangeable, and so are the closures   *)
(* that are not vararg.                                                    *)
EXTENDS TaintVM

Symmetry == Permutations(Taint) \cup Permutations(Closure \ Vararg)

(* A program whose Lib has no setters of the taint library makes no        *)
(* ExplicitStep.  The part "api" of MCParts has them.                      *)
UnsetNext ==
    Move \/ CallStep \/ ReturnStep \/ ErrorStep \/ CoroutineStep \/ EnvironmentStep
UnsetSpec == Init /\ [][UnsetNext]_vars
=============================================================================
