\* Two devices of one product and a port; all stops when port and monitor are deleted, the
\* bounds are reached, or the program has crashed.
SPECIFICATION FairSpec
CONSTANTS
    d1 = d1
    d2 = d2
    usb = usb
    com1 = com1
    com2 = com2
    Devices <- Two
    PidOf <- OneProduct
    PortOf <- TheirPorts
    MaxPlugs = 2
    Ports = {com1}
    MaxBytes = 2
    MaxWrites = 1
    MaxEvents = 2
    None = None
INVARIANTS InOrderOnce TableSettles
PROPERTIES ReadIsReported PortFollowsDevice DeleteEnds
CHECK_DEADLOCK FALSE
