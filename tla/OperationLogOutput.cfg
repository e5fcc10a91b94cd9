\* A behaviour may stop: when MaxRuns commands have run there is nothing to do.
SPECIFICATION Spec
CHECK_DEADLOCK FALSE
CONSTANTS
    p1 = p1
    p2 = p2
    Commands <- TwoCommands
    Nobody = Nobody
    Outsider = Outsider
    Kept = 2
    MaxRuns = 3
    MaxFaults = 1
INVARIANTS
    FailedLeavesIndex
