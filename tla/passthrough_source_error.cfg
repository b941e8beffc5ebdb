\* A tar consumer over a source whose read may fail part way.
CONSTANTS
    NChunks = 3
    ChunkBytes = 2
    ContentEnd = 5
    Modes = {"tar"}
    SourceMayFail = TRUE
    ParseMayFail = FALSE
SPECIFICATION Spec
INVARIANT PartialFingerprintNotInterned
CHECK_DEADLOCK FALSE
