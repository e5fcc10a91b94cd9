SPECIFICATION Spec
CONSTANTS
    ca = ca
    cb = cb
    r1 = r1
    r2 = r2
    b1 = b1
    b2 = b2
    g1 = g1
    g2 = g2
    Roots <- TwoRoots
    Revs <- TwoRevs
    TreeOf <- Trees
    Blobs <- TwoBlobs
    Settings <- TwoSettings
    Default = g1
    NoRev = NoRev
    Nothing = Nothing
SYMMETRY Symmetry
INVARIANTS
    StatusIsRight
