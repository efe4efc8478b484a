SPECIFICATION Spec
CONSTANTS
    main = main  script = script
    c1 = c1  c2 = c2
    t1 = t1  t2 = t2  none = none
    Main = main
    Script = script
    NoTab = none
    Mode = "file"
    Tabs <- TwoTabs
    Callbacks <- TwoCallbacks
    Kinds <- Both
    Hookable <- Both
    SelfClose = TRUE
    MaxOps <- Ops2x1
    MaxEvents <- One
SYMMETRY Symmetry
INVARIANTS
    TypeOK
    GILExclusion
    ClosedTabIsQuiet
    
    CountsCallbacks
CHECK_DEADLOCK FALSE
