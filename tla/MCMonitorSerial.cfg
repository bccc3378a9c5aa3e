\* Three ports and two devices against a monitor that two callers create and delete.
SPECIFICATION FairSpec
CONSTANTS
    Ports = {p1, p2, p3}
    Devices = {d1, d2}
    Callers = {c1, c2}
    None = None
INVARIANTS SingleInstance ThreadOwned ListenerInSync ThreePollsExact
PROPERTIES InsertionReported RemovalReported DeleteEnds
