CONSTANTS
    a = a
    b = b
    x = x
    y = y
    Absent = Absent
    NoRow = NoRow
    NoOne = NoOne
    Clients <- TwoClients
    NFiles = 2
    Contents <- TwoContents
    RollbackFiles <- BothFiles
    SeedFiles <- SecondFile
    Stores <- TwoStores
    Histories <- SomeHistories
    Workloads <- Callers
    MaxCalls = 2
    Faulty = TRUE
SPECIFICATION FairSpec
INVARIANTS
    OkMeansDone
PROPERTIES
    StaysUsable
    ImplementsLedger
    EveryCallReturns
