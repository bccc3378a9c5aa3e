\* Two threads that post, exit, interrupt and wake against a loop with nested passes.
SPECIFICATION Spec
CONSTANTS
    Threads = {th1, th2}
    Objects = {}
    TimerIds = {}
    Notifiers = {}
    TimerHandles = {}
    PollHandles = {}
    MaxPosted = 3
    MaxNesting = 2
    None = None
SYMMETRY CallerSymmetry
INVARIANTS NoLostWakeup InterruptEndsWait
