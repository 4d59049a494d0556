SPECIFICATION Spec
CONSTANTS
    i1 = i1
    i2 = i2
    i3 = i3
    i4 = i4
    i5 = i5
    c1 = c1
    c2 = c2
    Path = {1, 2, 3, 4}
    Inode = {i1, i2, i3, i4}
    NoFile = NoFile
    Torn = Torn
    Protected = {3, 4}
    Depth <- MCDepth
    Content = {c1, c2}
    Kinds = {"delete", "hardlink", "move", "copy"}
    KeepRule = "Newest"
    MaxRuns <- MCMaxRuns
    EnvSteps = 1
SYMMETRY Symmetric
CHECK_DEADLOCK FALSE
INVARIANTS
    TypeOK
    UndoRestores
PROPERTIES
    NothingLost
    ReferenceUntouched
    UndoNeverOverwrites
