SPECIFICATION Spec
CONSTANTS
    Group <- MCGroup
    Size <- MCSize
    Reference = {5}
    Folder = {"A", "B", "C"}
    FilesIn <- MCFilesIn
    Matches <- MCMatches
    Sessions <- MCSessions
    Gone = Gone
CHECK_DEADLOCK FALSE
INVARIANTS
    OnlyWithConsent
    OutputTrue
    HistoryTrue
    ExitTruthful
