CONSTANTS
    scope = scope
    k1 = k1
    k2 = k2
    meta = meta
    MaxRequests = 3
    Scopes = {scope}
    Keys = {k1, k2, meta}
    Reserved = {meta}
    Malformed = {}
    Enabled = TRUE
    MaxFaults = 1
    MaxCrashes = 1
    Missing = Missing
    Absent = Absent
    Garbage = Garbage
    Null = Null
    Ops <- MCOps
    Allow <- MCAllow
SPECIFICATION FairSpec
INVARIANT TypeOK
PROPERTIES
    ImplementsMap
    EveryRequestAnswered
\* All requests may have been answered.
CHECK_DEADLOCK FALSE
