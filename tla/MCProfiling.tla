----------------------------- MODULE MCProfiling ----------------------------
(* Profiling for TLC by itself: every closure is owned by a source of its  *)
(* own.                                                                    *)
EXTENDS Profiling
Owners == [f \in LuaFn |-> f]
=============================================================================
