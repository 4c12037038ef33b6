SPECIFICATION FairSpec
CONSTANTS
    p1 = p1
    c1 = c1
    c2 = c2
    self = self
    peer = peer
    Default = c1
    Missing = Missing
    Broken = Broken
    Absent = Absent
    Self = self
    Names <- MCNames
    Configs <- MCConfigs
    Pushes = {}
    MaxEdits = 1
    MaxRestarts = 0
PROPERTY
    HotReloaded
