SPECIFICATION FairSpec
CONSTANTS
    main = main  script = script
    c1 = c1  c2 = c2
    t1 = t1  t2 = t2  none = none
    Main = main
    Script = script
    NoTab = none
    Mode = "file"
    Tabs <- OneTab
    Callbacks <- TwoCallbacks
    Kinds <- Network
    Hookable <- Network
    SelfClose = FALSE
    MaxOps <- Ops3x0
    MaxEvents <- Two
PROPERTY
    RunEndsInTime
CHECK_DEADLOCK FALSE
