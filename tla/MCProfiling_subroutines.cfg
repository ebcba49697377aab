CONSTANTS
    LuaFn = {f, g}
    pcall = pcall
    resume = resume
    yield = yield
    Owner <- Owners
    main = main
    co = co
    MaxClock = 3
    MaxFrames = 3
    MaxCalls = 2
SPECIFICATION Spec
CHECK_DEADLOCK FALSE
INVARIANT OwnTicksExcludeSubroutines
