SPECIFICATION Spec
CONSTANTS
    main = main  script = script
    c1 = c1  c2 = c2
    t1 = t1  t2 = t2  none = none
    Main = main
    Script = script
    NoTab = none
    Mode = "file"
    Tabs <- OneTab
    Callbacks <- OneCallback
    Kinds <- Network
    Hookable <- Network
    SelfClose = FALSE
    MaxOps <- Ops3x1
    MaxEvents <- One
INVARIANT
    StopsOnlyOnError
CHECK_DEADLOCK FALSE
