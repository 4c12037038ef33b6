SPECIFICATION FairSpec
CONSTANTS
    Nodes <- MCNodes
    Peers <- MCPeers
    Xfers = {}
    MaxActive = 0
    SelfTransfer = FALSE
    MaxCrashes = 2
INVARIANTS
    AtMostOneAdmin
PROPERTIES
    AdminEmerges
