SPECIFICATION Spec
CONSTANTS
    i1 = i1
    i2 = i2
    i3 = i3
    i4 = i4
    i5 = i5
    c1 = c1
    c2 = c2
    Path = {1, 2, 3, 4, 5}
    Inode = {i1, i2, i3, i4}
    NoFile = NoFile
    Protected = {}
    Depth <- MCDepth
    Parts <- NestedParts
    Content = {c1, c2}
    Excluded = {}
    Unreadable = {}
    MTime <- MCMTime
    Clients = {"cli"}
    Kinds = {"delete"}
    KeepRule = "AlphabeticallyFirst"
    MaxActions = 0
    EnvSteps = 0
SYMMETRY Symmetric
CHECK_DEADLOCK FALSE
PROPERTIES
    PartnersLive
