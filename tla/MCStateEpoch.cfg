SPECIFICATION Spec
CONSTANTS
    r1 = r1
    r2 = r2
    r3 = r3
    Reqs <- MCThreeReqs
    NoEpoch = NoEpoch
    MaxEpoch = 2
    MaxCrashes = 1
    MaxWriteFails = 1
INVARIANTS
    TypeOK
    RealTimeOrder
PROPERTIES
    StaleStaysStale
SYMMETRY ThreeSymmetry
