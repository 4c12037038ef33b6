SPECIFICATION Spec
CONSTANTS
    Nodes <- MCNodes
    Peers <- MCPeers
    Xfers = {x1, x2}
    MaxActive = 1
    SelfTransfer = FALSE
    MaxCrashes = 0
INVARIANTS
    TypeOK
    OneAdminAtRest
PROPERTIES
    NoGap
