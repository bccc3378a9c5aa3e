\* Two callers and a pool that grows from one thread to three; all stops when the pool is gone
\* or a thread has missed its notification.
SPECIFICATION FairSpec
CONSTANTS
    Callers = {c1, c2}
    Owner = c1
    MaxTasks = 2
    m_iDefaultThreadCount = 1
    None = None
INVARIANTS LossHasCause DestroyedAlone
PROPERTIES TaskRuns DestructorEnds
CHECK_DEADLOCK FALSE
