CONSTANTS
    r1 = r1
    r2 = r2
    d1 = d1
    d2 = d2
    f1 = f1
    f2 = f2
    t1 = t1
    t2 = t2
    u1 = u1
    u2 = u2
    u3 = u3
    v = v
    A = A
    B = B
    Earlier = Earlier
    Absent = Absent
    NoRequest = NoRequest
    Rotators <- TwoRotators
    Deployers <- TwoDeployers
    Crews <- Pairs
    Invocations <- FourInvocations
    Folders <- TwoFolders
    Projects <- TwoProjects
    Uids <- FourUids
    Titles <- TwoTitles
    Left <- AtFirst
    Requests <- TypicalRequests
    Faulty = TRUE
SPECIFICATION Spec
INVARIANTS
    TypeOK
    RotationHeals
    DeployIsThere
PROPERTIES
    PruneSparesOthers
SYMMETRY Symmetry
