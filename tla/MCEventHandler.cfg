SPECIFICATION FairSpec
CONSTANTS
    script = script
    callback = callback
    main = main
    Main = main
    Threads <- MCThreads
    MaxEvents = 2
    MaxWaits = 3
    MaxCloses = 2
INVARIANTS
    TypeOK
    NoLostWakeup
    ClosedOnce
PROPERTIES
    ImplementsQueue
    PendingIsServed
    CancelEndsWait
CHECK_DEADLOCK FALSE
