\* Liveness: no nested passes.
SPECIFICATION FairSpec
CONSTANTS
    Threads = {th1, th2}
    Objects = {}
    TimerIds = {}
    Notifiers = {}
    TimerHandles = {}
    PollHandles = {}
    MaxPosted = 2
    MaxNesting = 0
    None = None
PROPERTIES PostedHandled ExitHonoured
