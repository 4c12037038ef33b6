SPECIFICATION FairSpec
CONSTANTS
    p1 = p1
    c1 = c1
    c2 = c2
    self = self
    peer = peer
    Default = c1
    Missing = Missing
    Broken = Broken
    Absent = Absent
    Self = self
    Names <- MCNames
    Configs <- MCConfigs
    Pushes <- MCOnePush
    MaxEdits = 2
    MaxRestarts = 1
INVARIANTS
    TypeOK
    ServesWholeFile
    NothingForgotten
PROPERTIES
    EditsArrive
