CONSTANTS
    MaxRequests = 2
    MaxAgings = 1
    None = None
    Ops <- MCOps
    Configs <- MCConfigs
SPECIFICATION FairProducersSpec
INVARIANTS
    ProducersTypeOK
    CompletedIsEarned
    WriteNeverBlocks
PROPERTY ImplementsLifecycle
