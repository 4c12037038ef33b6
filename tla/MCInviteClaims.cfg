SPECIFICATION Spec
CONSTANTS
    r1 = r1
    r2 = r2
    r3 = r3
    t1 = t1
    t2 = t2
    u1 = u1
    u2 = u2
    NoUser = NoUser
    Unclaimed = Unclaimed
    NoReq = NoReq
    Reqs <- MCReqs
    Tokens <- MCTokens
    Users <- MCUsers
    Genuine <- MCGenuine
    Grantee <- MCGrantee
    MaxCrashes = 1
    MaxWriteFails = 1
INVARIANTS
    TypeOK
    SingleUse
    GrantDurable
    ClaimAccounted
PROPERTIES
    ImplementsLedger
SYMMETRY ReqSymmetry
