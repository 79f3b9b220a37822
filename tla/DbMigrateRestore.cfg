CONSTANTS
    p1 = p1
    p2 = p2
    a = a
    b = b
    Absent = Absent
    NoRow = NoRow
    NoProc = NoProc
    Procs <- TwoProcs
    NFiles = 2
    Contents <- OneContent
    RollbackFiles <- FirstFile
    SeedFiles <- FirstFile
    Ops <- RestoreOps
    MaxUploads = 1
    Severed = {}
    Faulty = TRUE
SPECIFICATION Spec
INVARIANTS
    RestoreAndSeedComplete
PROPERTIES
    AuditTellsTruth
    ImplementsLedger
SYMMETRY Symmetry
