CONSTANTS
    Thread = {main}
    Main = main
    Table = {a}
    WeakKey = {}
    WeakValue = {}
    Udata = {}
    Finalizable = {}
    Closure = {f, g}
    Upval = {x, y}
    String = {}
    Keys = {}
    None = None
    MaxStack = 2
    Ops = {}
SPECIFICATION Spec
SYMMETRY Symmetry
INVARIANTS TriColour LinkedOnce
