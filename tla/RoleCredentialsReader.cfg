CONSTANTS
    p1 = p1
    p2 = p2
    p3 = p3
    NoProc = NoProc
    Procs <- ThreeProcs
    Versions <- OnlyLambda
    Faulty = FALSE
SPECIFICATION Spec
INVARIANTS
    SelfHealing
SYMMETRY Symmetry
