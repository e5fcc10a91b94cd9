SPECIFICATION Spec
CONSTANTS
    fa = fa
    fb = fb
    b1 = b1
    b2 = b2
    r1 = r1
    r2 = r2
    Files <- TwoFiles
    Blobs <- TwoBlobs
    Revs <- TwoRevs
    None = None
    Unborn = Unborn
SYMMETRY Symmetry
CONSTANTS
    RootIsTop = TRUE
    MaxActs = 7
INVARIANTS
    TypeOK
    UndisturbedIsExact
    MetaDescribesRows
    NotStaleIsExact
