CONSTANTS
    Main = Main
    Thread = {Main, Co}
    Fn = {f}
    C = C
    Base = Base
    LUAI_MAXCCALLS = 3
    Band = 1
    LUAI_MAXCALLS = 3
    BASIC_CI_SIZE = 2
    MaxNesting = 4
    Handler = {"none", "function"}
    Ops = {}
    main = main
    co = co
    closure = closure
    upvalue = upvalue
    counted1 = counted1
    counted2 = counted2
    file1 = file1
    file2 = file2
    string = string
    object = object
    value = value
    None = None
    Nil = Nil
SPECIFICATION PartsSpec
CHECK_DEADLOCK FALSE
INVARIANTS
    AllTypes WriteTaintCoherent OpenCallsAreCounted YieldCheckIsExact HandlerOfCatcher HooksDoNotNest ChecksAreRegular
    SubticksAreCountedOnce OwnTicksAreDisjoint
    IsAMap TraversalIsExact LengthIsABorder
    EditsKeepOrder SortKeepsElements SortSorts FindsFirstMatch GsubVisitsGmatch
    StringsAreUnique ReferencesKeepValues
PROPERTIES
    ClosuresOfTaintedCodeAreTainted HeapIsSafe SourcesAddUp CompiledMeansSource AssertionsHold
