\* A timer and a notifier, which handlers of two nested passes start, stop, enable, disable and
\* destroy while the loop thread and another thread post, exit and interrupt.
SPECIFICATION Spec
CONSTANTS
    Threads = {x}
    Objects = {o1}
    TimerIds = {t1}
    Notifiers = {n1}
    TimerHandles = {th1}
    PollHandles = {ph1, ph2}
    MaxPosted = 1
    MaxNesting = 1
    None = None
SYMMETRY SocketSymmetry
INVARIANTS HandlesTracked OwnersAlive NothingStranded EventsDrained
