CONSTANTS
    p1 = p1
    p2 = p2
    p3 = p3
    NoProc = NoProc
    Procs <- TwoProcs
    Versions <- BothVersions
    Faulty = TRUE
SPECIFICATION Spec
INVARIANTS
    TypeOK
    CredentialsConverge
    AppSelfHeals
SYMMETRY PairSymmetry
