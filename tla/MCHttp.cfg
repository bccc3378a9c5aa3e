\* Two callers whose tests of m_bWork may both succeed; a post is the one kind that httpError
\* tells from the other requests without a file.
SPECIFICATION Spec
CONSTANTS
    Callers = {c1, c2}
    Kinds <- PostAndDownload
    MaxRequests = 2
SYMMETRY Symmetry
INVARIANTS FileHasReader FileUsable BusyHasCause
