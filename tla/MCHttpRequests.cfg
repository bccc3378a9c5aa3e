\* One caller that makes gets and posts only; the scheduler is fair to it and to the thread.
SPECIFICATION FairSpec
CONSTANTS
    Callers = {c1}
    Kinds <- GetAndPost
    MaxRequests = 3
INVARIANTS AnswerCurrent NoneForgotten VarOwned
PROPERTIES ExitCompletes
