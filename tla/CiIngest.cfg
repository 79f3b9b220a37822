CONSTANTS
    c1 = c1
    c2 = c2
    c3 = c3
    r1 = r1
    s1 = s1
    m1 = m1
    m2 = m2
    x = x
    NoOne = NoOne
    Lingering = Lingering
    NoRow = NoRow
    Runs <- OneRun
    Commits <- TwoCommits
    Paths <- OnePath
    Faulty = TRUE
    Scans <- OneScan
    Containers <- ThreeContainers
    Workloads <- Crews
SPECIFICATION FairSpec
INVARIANTS
    TypeOK
    ApplyIsAlone
    MigratedOnce
    AnsweredIsStored
    SourcesFollowScan
PROPERTIES
    EveryRequestEnds
