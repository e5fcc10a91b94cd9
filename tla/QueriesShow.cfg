\* What docs/DESIGNS/navigation-diagnostics.md:59 says, where another file is
\* shorter and ends in the text asked for: violated.
SPECIFICATION Spec
CONSTANTS
    Encodings <- AllEncodings
    Internal <- InternalOnes
    Utf8 = "utf8"
    Covers <- Utf16Names
    NoEncoding = "none"
    Paths = {1, 2}
    Blobs <- ThreeBlobs
    Fallbacks <- ThreeFallbacks
    Fts = TRUE
    Gone = Gone
    MaxActs = 1
    PageSize = 2
    Limit = 3
    Requests <- OtherRequest
    Unslashed <- Same
    Cleaned <- Same
    Outside = {}
    Statuses = {"indexed"}
    Holding <- BothInside
    EndsIn <- BothInside
    Under <- SecondUnder
    PathLength <- OtherLengths
    Line = 2
    Context = 1
    Wide <- AllWide
    Bytes <- ShortBytes
    Texts <- ShortTexts
    Passages <- SomePassages
INVARIANTS
    LinesAreOfPath
