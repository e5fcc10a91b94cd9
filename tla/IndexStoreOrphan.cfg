SPECIFICATION Spec
CONSTANTS
    p1 = p1
    p2 = p2
    fa = fa
    fb = fb
    Procs <- TwoProcs
    Files <- TwoFiles
    Values = {0, 1, 2}
    Snapshots <- FewSnapshots
    EmptyIndex <- NoFiles
    NoIndex = NoIndex
    NoProc = NoProc
    Ops = {"init", "rebuild", "update"}
    Faults = {"kill"}
    MaxFaults = 1
INVARIANTS
    SuccessIsExact
