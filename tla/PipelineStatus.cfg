CONSTANTS
    w1 = w1
    w2 = w2
    atlas = atlas
    Workers <- TwoWorkers
    Owners <- OneOwner
    MaxAttempt = 1
    MaxTime = 1
    Failures = {"FAILED", "ABORTED"}
    Workloads <- Deployments
    NoOwner = NoOwner
    NoStop = NoStop
SPECIFICATION ObservedSpec
INVARIANTS
    ItemIsLatest
    NothingHeldBack
PROPERTIES
    TerminalIsFinalWithinAttempt
    WrittenOnce
SYMMETRY Symmetry
