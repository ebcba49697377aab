CONSTANTS
    main = main
    co = co
    Masks = {{}, {"count", "line"}}
    HookCounts = {1}
    CheckCounts = {2}
    MaxDepth = 2
SPECIFICATION Spec
INVARIANT LimitsAreChecked
