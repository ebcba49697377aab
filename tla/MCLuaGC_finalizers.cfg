CONSTANTS
    Thread = {main}
    Main = main
    Table = {a}
    WeakKey = {}
    WeakValue = {}
    Udata = {u1, u2}
    Finalizable = {u1, u2}
    Closure = {}
    Upval = {}
    String = {}
    Keys = {}
    None = None
    MaxStack = 2
    Ops = {"full"}
SPECIFICATION FairSpec
INVARIANT TypeOK
PROPERTIES HeapIsSafe GarbageIsFreed
