------------------------------- MODULE MCLuaGC -------------------------------
(* LuaGC for TLC.  Objects of the same kind are interchangeable.           *)
EXTENDS LuaGC, TLC

Symmetry ==
    Permutations(Table \ Weak) \cup Permutations(Closure) \cup Permutations(Upval)
    \cup Permutations(Udata \cap Finalizable)
=============================================================================
