CONSTANTS
    Servers = {s1, s2}
    Callers = {c1, c2}
    Main = main
    MaxCallbacks = 3
SPECIFICATION FairSpec
CHECK_DEADLOCK FALSE
INVARIANTS
    EmptiedAtShutdown
PROPERTIES
    ImplementsFifo
    SyncSeesEverything
    CallbacksRun
