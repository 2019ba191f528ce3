CONSTANTS
    MaxTasks = 4
    MaxIo = 0
    EventFdMax = 14
    TimedWake = 4
SPECIFICATION Spec
CHECK_DEADLOCK FALSE
INVARIANT TimedTaskNotFreed
