\* The header's comment on UpdateSerial.
SPECIFICATION Spec
CONSTANTS
    Ports = {p1, p2, p3}
    Devices = {d1}
    Callers = {c1}
    None = None
PROPERTIES PollReportsBoth
