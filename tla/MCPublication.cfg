SPECIFICATION Spec
CONSTANTS
    n1 = n1
    n2 = n2
    p1 = p1
    p2 = p2
    t1 = t1
    t2 = t2
    None = None
    Names = {n1, n2}
    Bytes = {x, y}
    Procs = {p1, p2}
    Trans = {t1, t2}
    Scenes <- MCScenes
    MaxSaves = 1
    MaxTroubles = 1
    MaxPasses = 2
    MaxLinks = 4
SYMMETRY Swap
INVARIANTS
    NothingLost
    RecoveryRecorded
    OneSuccessor
    GroupAtomic
    LitterReported
    PreflightSeparates
CHECK_DEADLOCK FALSE
