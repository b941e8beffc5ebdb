CONSTANTS
    Names <- MCNames
    Blobs <- MCBlobs
    Stats <- MCStats
    Limit = 1
    Work <- FailingNestedWork
    NoBlob = NoBlob
    None = None
    n1 = n1
    n2 = n2
    b1 = b1
    s1 = s1
    s2 = s2
SPECIFICATION Spec
INVARIANT
    EntriesComplete
CHECK_DEADLOCK FALSE
