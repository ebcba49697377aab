CONSTANTS
    Thread = {main}
    Main = main
    Table = {a}
    WeakKey = {}
    WeakValue = {}
    Udata = {}
    Finalizable = {}
    Closure = {f, g}
    Upval = {x}
    String = {}
    Keys = {}
    None = None
    MaxStack = 3
    Ops = {"setupvalue"}
SPECIFICATION Spec
INVARIANT TriColour
