CONSTANTS
    p1 = p1
    p2 = p2
    a = a
    b = b
    Absent = Absent
    NoRow = NoRow
    NoProc = NoProc
    Procs <- TwoProcs
    NFiles = 1
    Contents <- OneContent
    RollbackFiles <- FirstFile
    SeedFiles <- FirstFile
    Ops <- ProgressOps
    MaxUploads = 0
    Severed <- FirstProc
    Faulty = TRUE
SPECIFICATION FairSpec
INVARIANTS
    MutualExclusion
    AppliedAtMostOnce
PROPERTIES
    EveryInvocationEnds
