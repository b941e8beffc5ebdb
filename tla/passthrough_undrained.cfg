\* Consumers that stop reading before the end: a docker json entry whose
\* value ends one byte before the entry does, and a tar stream the tar
\* reader rejects part way through.
CONSTANTS
    NChunks = 3
    ChunkBytes = 2
    ContentEnd = 5
    Modes = {"json", "tar"}
    SourceMayFail = FALSE
    ParseMayFail = TRUE
SPECIFICATION Spec
PROPERTY TeeGoroutinesEnd
CHECK_DEADLOCK FALSE
