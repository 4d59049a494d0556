SPECIFICATION Spec
CONSTANTS
    i1 = i1
    i2 = i2
    i3 = i3
    i4 = i4
    i5 = i5
    c1 = c1
    c2 = c2
    Path = {0, 1, 2, 3, 4}
    TmpName = {0}
    Protected = {3, 4}
    Inode = {i1, i2, i3, i4}
    Content = {c1, c2}
    NoFile = NoFile
    Stub = Stub
    Depth <- MCDepth
    Kinds = {"delete", "trash", "hardlink", "reflink", "move", "copy"}
    KeepRules = {"Newest", "LongestPath"}
    MaxRuns = 2
    EnvSteps = 0
SYMMETRY Symmetric
CHECK_DEADLOCK FALSE
INVARIANTS
    TypeOK
    NoLitter
    ReportedEffects
PROPERTIES
    KeepsContract
    ArchiveNeverOverwritten
