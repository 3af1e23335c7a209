CONSTANTS
    ServiceThreads = {s1, s2}
    Tasks = {once, every}
    Periodic = {every}
    Delta = 1
    MaxTime = 2
SPECIFICATION SchedulerFairSpec
CHECK_DEADLOCK FALSE
INVARIANTS
    StartedOnce
PROPERTIES
    
    AtOrAfterTime
    QueuedTasksRun
    
