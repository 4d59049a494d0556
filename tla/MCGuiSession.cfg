SPECIFICATION FairSpec
CONSTANTS
    File = {1, 2, 3, 4, 5, 6}
    Initial <- MCInitial
    Photo = {1, 2, 5, 6}
    Age <- MCAge
    Protections = {{}, {2}}
    Looks <- MCLooks
    Orders <- MCOrders
    MaxDistance = 2
    Kinds = {"delete", "hardlink"}
    Profile = {"n1", "n2"}
    Preset = {"o1"}
    Torn = Torn
    Unreadable = Unreadable
    Gone = Gone
    Loading = Loading
    None = None
    Sessions <- MCSessions
CHECK_DEADLOCK FALSE
INVARIANTS
    PageTrue
    ProfilesTrue
PROPERTIES
    LossNeedsStrangeKeep
    SimilarExact
    ScanEnds
