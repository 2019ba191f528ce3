CONSTANTS
    MaxTasks = 4
    MaxIo = 1
    EventFdMax = 2
    TimedWake = 1
SPECIFICATION FairSpec
CHECK_DEADLOCK FALSE
INVARIANTS
    NoLostWakeup
    TasksInOrder
    TasksOwnedOnce
PROPERTIES
    EveryTaskRuns
