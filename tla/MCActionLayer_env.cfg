SPECIFICATION FairSpec
CONSTANTS
    i1 = i1
    i2 = i2
    i3 = i3
    i4 = i4
    i5 = i5
    c1 = c1
    c2 = c2
    Path = {1, 2, 3, 9}
    TmpName = {9}
    Protected = {2, 3}
    Inode = {i1, i2, i3}
    Content = {c1, c2}
    NoFile = NoFile
    Stub = Stub
    Depth <- MCDepth
    Kinds = {"delete", "hardlink", "reflink", "copy"}
    KeepRules = {"Manual"}
    MaxRuns = 1
    EnvSteps = 1
CHECK_DEADLOCK FALSE
PROPERTIES
    ReferenceUntouched
    KeptUntouched
    NeverMissing
    RunEnds
