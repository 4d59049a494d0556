SPECIFICATION FairSpec
CONSTANTS
    f1 = f1
    f2 = f2
    f3 = f3
    none = none
    s1 = s1
    t1 = t1
    t2 = t2
    t3 = t3
    t4 = t4
    File = {f1, f2, f3}
    Content = {none, s1, t1, t2, t3, t4}
    Size <- MCSize
    Sample <- MCSample
    Hash <- MCHash
    NoFile = NoFile
    SmallFile = 1
    Workers = 1
    QueueLimit = 1
    ChunkMaxFiles = 2
    ChunkMaxBytes = 4
    PerMilli = 1
    Setups <- MCSetups
    EnvSteps = 1
CHECK_DEADLOCK FALSE
INVARIANTS
    TypeOK
    CacheSound
    ReportedEqual
PROPERTIES
    ScanComplete
    ScanEnds
