SPECIFICATION Spec
CONSTANTS
    File = {1, 2, 3, 4, 5, 6}
    Initial <- MCInitial
    Photo = {1, 2, 5, 6}
    Age <- MCAge
    Protections = {{}}
    Looks <- MCLooks
    Orders <- MCOrders
    MaxDistance = 2
    Kinds = {"delete"}
    Profile = {"n1", "n2"}
    Preset = {"o1"}
    Torn = Torn
    Unreadable = Unreadable
    Gone = Gone
    Loading = Loading
    None = None
    Sessions <- KeepSessions
CHECK_DEADLOCK FALSE
INVARIANTS
    KeepFromGroup
