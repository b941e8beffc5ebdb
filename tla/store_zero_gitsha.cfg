\* Plain files whose size may change between stat and read.
CONSTANTS
    b1 = b1
    b2 = b2
    w1 = w1
    w2 = w2
    Blobs = {b1, b2}
    BlobSize <- MCBlobSize
    Kinds <- MCKinds
    DigestOf <- MCDigestOf
    DigestSize <- MCDigestSize
    Patterns <- MCPatterns
    Zero = Zero
    Workers = {w1, w2}
    Paths = {p1, p2}
    Sizes <- MCSizes
    Outcomes = {"whole", "resized"}
    None = None
    MaxFileScans = 3
    MaxEntryScans = 3
SPECIFICATION Spec
SYMMETRY Symmetry
INVARIANT FileDenotesScannedBlob
\* The scan ends once every file and entry has been fingerprinted.
CHECK_DEADLOCK FALSE
