CONSTANTS
    Taint = {A}
    NULL = NULL
    Main = main
    Thread = {main}
    Closure = {f}
    Vararg = {}
    Cell = {g}
    Lib = {"gc", "gcerror"}
    MaxFrames = 3
    MaxC = 2
SPECIFICATION Spec
PROPERTY FinalizersAreBarriers
