\* Two callers and three sockets; all stop for good when the callers wait for a callback that
\* they have missed.
SPECIFICATION FairSpec
CONSTANTS
    Callers = {c1, c2}
    MaxOpens = 3
    MaxEvents = 3
    None = None
INVARIANTS WaitHasCause CloseSafe
PROPERTIES OneConnection CloseEnds
CHECK_DEADLOCK FALSE
