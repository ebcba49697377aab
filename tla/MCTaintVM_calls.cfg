CONSTANTS
    Taint = {A, B}
    NULL = NULL
    Main = main
    Thread = {main}
    Closure = {f, v}
    Vararg = {v}
    Cell = {g}
    Lib = {"securecall", "peek", "delegate", "fenv"}
    MaxFrames = 3
    MaxC = 2
SPECIFICATION UnsetSpec
SYMMETRY Symmetry
INVARIANTS WriteTaintCoherent PinnedStack ComputedByTaintedStaysTainted SavedTaintIsSet
PROPERTY OneContext
