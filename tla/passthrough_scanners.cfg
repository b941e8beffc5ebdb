\* Tar-loop and ReadAll consumers over a source that may fail; the tar
\* archive ends one byte before the stream does (record padding).
CONSTANTS
    NChunks = 3
    ChunkBytes = 2
    ContentEnd = 5
    Modes = {"tar", "readall"}
    SourceMayFail = TRUE
    ParseMayFail = FALSE
SPECIFICATION Spec
INVARIANTS
    TypeOK
    ResultImpliesConsumed
PROPERTIES
    ScanReturns
    TeeGoroutinesEnd
\* Every goroutine ends once the stream is consumed.
CHECK_DEADLOCK FALSE
