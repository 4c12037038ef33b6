SPECIFICATION FairSpec
CONSTANTS
    Clients = {c1}
    MaxLines = 2
    MaxConnects = 3
    MaxDrops = 2
    MaxRestarts = 1
INVARIANTS
    TypeOK
    ReplayExact
    IdNamesEvent
PROPERTIES
    EndArrives
