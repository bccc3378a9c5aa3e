\* Two callers; they stop for good when both wait for a thread that missed Stop().
SPECIFICATION FairSpec
CONSTANTS
    Workers = {w1}
    Callers = {c1, c2}
    MaxTasks = 3
    None = None
INVARIANTS SleepHasCause RunsBounded
PROPERTIES StopEnds
CHECK_DEADLOCK FALSE
