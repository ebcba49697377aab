CONSTANTS
    Taint = {A}
    NULL = NULL
    Main = main
    Thread = {main, co}
    Closure = {f}
    Vararg = {}
    Cell = {g}
    Lib = {"coroutine", "coroutine.call", "securecall", "hook", "gc", "forceinsecure", "loadstring"}
    MaxFrames = 3
    MaxC = 2
SPECIFICATION UnsetSpec
SYMMETRY Symmetry
INVARIANT FixedOnlyWhileRunningLua
PROPERTIES OneContext FinalizersAreBarriers
