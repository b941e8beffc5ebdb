CONSTANTS
    Names <- MCNames
    Blobs <- MCBlobs
    Stats <- MCStats
    Limit = 1
    Work <- MCWork
    NoBlob = NoBlob
    None = None
    n1 = n1
    n2 = n2
    b1 = b1
    s1 = s1
    s2 = s2
SPECIFICATION Spec
INVARIANTS
    TypeOK
    EntriesComplete
    ArchivesMatchSpec
    ResultsMatchInput
    ImagesFollowManifest
    FindArchivesDirect
CHECK_DEADLOCK FALSE
