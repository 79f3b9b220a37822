CONSTANTS
    p1 = p1
    p2 = p2
    k1 = k1
    k2 = k2
    NoRequest = NoRequest
    Procs <- TwoProcs
    Proxies <- TwoProxies
    Invocations <- FourInvocations
    Crews <- Pairs
    Requests <- TypicalRequests
    Faulty = TRUE
SPECIFICATION Spec
INVARIANTS
    TypeOK
    CompleteMeansCurrent
    OkMeansUsable
    DeployedWorks
PROPERTIES
    CompleteIsKept
    DeployFollowsEnvironment
SYMMETRY Symmetry
