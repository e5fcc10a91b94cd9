SPECIFICATION Spec
CONSTANTS
    p1 = p1
    p2 = p2
    c1 = c1
    c2 = c2
    Inits <- TwoInits
    Configs <- TwoConfigs
    Builder = Builder
    NoProc = NoProc
    None = None
SYMMETRY Symmetry
CONSTANTS
    MaxFaults = 0
INVARIANTS
    SuccessIsConfigured
