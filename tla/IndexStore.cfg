SPECIFICATION FairSpec
CONSTANTS
    p1 = p1
    p2 = p2
    fa = fa
    fb = fb
    Procs <- TwoProcs
    Files <- TwoFiles
    Values = {0, 1}
    Snapshots <- Pair
    EmptyIndex <- NoFiles
    NoIndex = NoIndex
    NoProc = NoProc
    Ops = {"init", "rebuild", "update"}
    Faults = {"io", "kill", "power"}
    MaxFaults = 2
INVARIANTS
    TypeOK
    WholeUnlessExposed
    SuccessInstalls
    NothingLeftBehind
PROPERTIES
    ImplementsAtomicIndex
    EverythingEnds
