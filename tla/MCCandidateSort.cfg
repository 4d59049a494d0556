SPECIFICATION FairSpec
CONSTANTS
    Candidate <- MCCandidate
    Limit = 2
    ProgressInterval = 3
    None = None
CHECK_DEADLOCK FALSE
INVARIANTS
    GroupsExact
    LastProgressExact
PROPERTIES
    ImplementsSortedStream
    ScanFinishes
