SPECIFICATION Spec
CONSTANTS
    main = main  script = script
    c1 = c1  c2 = c2
    t1 = t1  t2 = t2  none = none
    Main = main
    Script = script
    NoTab = none
    Mode = "file"
    Tabs <- OneTab
    Callbacks <- OneCallback
    Kinds <- Nothing
    Hookable <- Nothing
    SelfClose = FALSE
    MaxOps <- Ops1x0
    MaxEvents <- One
INVARIANT
    ErrorIsReported
