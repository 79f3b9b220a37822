CONSTANTS
    p1 = p1
    p2 = p2
    a = a
    b = b
    Absent = Absent
    NoRow = NoRow
    NoProc = NoProc
    Procs <- TwoProcs
    NFiles = 2
    Contents <- TwoContents
    RollbackFiles <- AllFiles
    SeedFiles <- FirstFile
    Ops <- MigrateOps
    MaxUploads = 0
    Severed = {}
    Faulty = TRUE
SPECIFICATION Spec
INVARIANTS
    LedgerMatchesSchema
    InFilenameOrder
    RollbackReachesTarget
    OkMeansRecorded
SYMMETRY Symmetry
