CONSTANTS
    t1 = t1
    t2 = t2
    None = None
    MaxRequests = 3
    Threads = {t1, t2}
    Kinds <- AllKinds
    UseAs = TRUE
    Enabled = TRUE
    Permissions = {"read", "write"}
    MaxFaults = 1
    MaxCrashes = 1
SPECIFICATION Spec
INVARIANTS
    TypeOK
    UploadsWhole
    AnswerTellsOutcome
    WorksAsIntended
\* All requests may have been answered.
CHECK_DEADLOCK FALSE
