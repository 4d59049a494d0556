SPECIFICATION Spec
CONSTANTS
    i1 = i1
    i2 = i2
    i3 = i3
    i4 = i4
    i5 = i5
    c1 = c1
    c2 = c2
    Path = {1, 2, 3, 4}
    Inode = {i1, i2, i3, i4}
    NoFile = NoFile
    Protected = {1}
    Depth <- MCDepth
    Parts <- TwoLevelParts
    Content = {c1, c2}
    Excluded = {}
    Unreadable = {1, 2}
    MTime <- MCMTime
    Clients = {"cli", "gui"}
    Kinds = {"delete", "hardlink", "reflink", "copy"}
    KeepRule = "AlphabeticallyFirst"
    MaxActions = 2
    EnvSteps = 1
SYMMETRY Symmetric
CHECK_DEADLOCK FALSE
INVARIANTS
    MatchesSound
PROPERTIES
    ReferenceUntouched
    LivePlanLosesNothing
    ContentPreserved
