\* Every text whose comments stand alone or at the ends of its lines is counted
\* right: violated.
SPECIFICATION Spec
CONSTANTS
    Encodings <- AllEncodings
    Internal <- InternalOnes
    Utf8 = "utf8"
    Covers <- Utf16Names
    NoEncoding = "none"
    Paths = {1, 2}
    Blobs <- ThreeBlobs
    Fallbacks <- ThreeFallbacks
    Fts = TRUE
    Gone = Gone
    MaxActs = 1
    PageSize = 2
    Limit = 3
    Requests <- SomeRequests
    Unslashed <- WithoutSlash
    Cleaned <- WithoutDot
    Outside = {4}
    Statuses = {"indexed"}
    Holding <- Containing
    EndsIn <- Containing
    Under <- SecondPath
    PathLength <- Lengths
    Line = 2
    Context = 1
    Wide <- AllWide
    Bytes <- ShortBytes
    Texts <- ShortTexts
    Passages <- SomePassages
INVARIANTS
    TidyTextIsCounted
