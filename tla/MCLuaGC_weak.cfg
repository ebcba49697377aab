CONSTANTS
    Thread = {main}
    Main = main
    Table = {k, v}
    WeakKey = {k}
    WeakValue = {v}
    Udata = {u}
    Finalizable = {u}
    Closure = {}
    Upval = {}
    String = {s}
    Keys = {u}
    None = None
    MaxStack = 2
    Ops = {}
SPECIFICATION Spec
INVARIANTS MemorySafe DeadAreUnusable
PROPERTY WeakEntriesOutliveReferents
