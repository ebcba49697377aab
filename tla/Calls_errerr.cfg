CONSTANTS
    Main = main
    Thread = {main, co}
    Fn = {f}
    C = C
    Base = Base
    LUAI_MAXCCALLS = 3
    Band = 1
    LUAI_MAXCALLS = 3
    BASIC_CI_SIZE = 2
    MaxNesting = 4
    Handler = {"none", "function"}
    Ops = {}
SPECIFICATION Spec
INVARIANT ErrErrWhileHandling
