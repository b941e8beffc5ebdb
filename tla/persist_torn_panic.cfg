CONSTANTS
    Blobs <- MCBlobs
    Paths <- MCPaths
    StatKeys <- MCStatKeys
    None = None
    b1 = b1
    b2 = b2
    p1 = p1
    k1 = k1
    MaxFingerprints = 2
    MaxFiles = 2
    MaxArchives = 1
    MaxSessions = 3
    TornWrites = TRUE
SPECIFICATION Spec
INVARIANT
    RestoreNeverPanics
CHECK_DEADLOCK FALSE
