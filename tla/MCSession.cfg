SPECIFICATION Spec
CONSTANTS
    Main = main
    Callbacks = {c1, c2}
    Nobody = nobody
    MaxInputs = 2
    MaxLogs = 1
INVARIANTS
    TypeOK
    LockIsBalanced
    

    
CHECK_DEADLOCK FALSE
