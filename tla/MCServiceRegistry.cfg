SPECIFICATION FairSpec
CONSTANTS
    a = a
    b = b
    push = push
    del = del
    prov = prov
    prov2 = prov2
    x = x
    y = y
    hand = hand
    tmp = tmp
    Names <- MCNames
    Position <- MCPosition
    Target <- MCTarget
    Paths = {tmp}
    StagedPath <- MCStagedPath
    Hash <- MCHash
    Pushes = {push}
    Deletes = {del}
    Provisions = {prov, prov2}
    Artifacts = {x, y}
    HandMade = {hand}
    Left = {b}
    None = None
    Broken = Broken
    watcher = watcher
    MaxRequests = 2
    MaxTroubles = 1
INVARIANTS
    TypeOK
    ProvisionedBacked
    ChangesOnTheirWay
PROPERTIES
    SuccessIsServed
    DirectoryArrives
