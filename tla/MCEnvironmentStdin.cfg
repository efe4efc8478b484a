SPECIFICATION FairSpec
CONSTANTS
    main = main  script = script
    c1 = c1  c2 = c2
    t1 = t1  t2 = t2  none = none
    Main = main
    Script = script
    NoTab = none
    Mode = "stdin"
    Tabs <- OneTab
    Callbacks <- TwoCallbacks
    Kinds <- Both
    Hookable <- Network
    SelfClose = FALSE
    MaxOps <- Ops2x1
    MaxEvents <- One
INVARIANTS
    ErrorIsReported

    
    
