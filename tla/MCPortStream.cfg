CONSTANTS
    c1 = c1
    c2 = c2
    p1 = p1
    p2 = p2
    Clients = {c1, c2}
    Listeners <- MCListeners
    Enabled = TRUE
    MaxChanges = 2
    MaxConnects = 2
    MaxFaults = 1
SPECIFICATION FairPortsSpec
INVARIANTS
    PortsTypeOK
    ViewIsLastSample
PROPERTY PortsSettle
\* All requests may have been answered.
CHECK_DEADLOCK FALSE
