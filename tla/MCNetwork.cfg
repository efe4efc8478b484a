SPECIFICATION MCSpec
CONSTANTS
    script = script  callback1 = callback1  callback2 = callback2
    Readers <- MCReaders
    Fetchers = {script, callback1}
    MaxReads = 2
    MaxSets = 2
    MaxJars = 2
INVARIANTS
    MCTypeOK
    LoadedBeforeFetch
    ServedUnlessDisplaced
    EventsMatchHooks
    CrashOnlyIfShared
PROPERTIES
    TimelyBodyIsRead
    FetchReturns
CHECK_DEADLOCK FALSE
