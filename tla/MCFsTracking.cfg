SPECIFICATION FsSpec
CONSTANTS
    t1 = t1
    t2 = t2
    a1 = a1
    a2 = a2
    Tasks = {t1, t2}
    Addrs = {a1, a2}
    Files <- SampleFiles
    Links = {"l1"}
    StateSize = 1
    InodeDedupSize = 2
    DedupSize = 2
    MaxCalls = 3
    MaxTurns = 2
    NONE = NONE
SYMMETRY Symmetry
INVARIANTS
    FsTypeOK
    EventOfReturningCall
    AccessInProfile
    LinkReportedOnce
CHECK_DEADLOCK FALSE
