\* Plain files whose size may change between stat and read, so a
\* fingerprint may be indexed under the zero git sha and given its git sha
\* by a later merge; then find on the restored store.
CONSTANTS
    b1 = b1
    b2 = b2
    w1 = w1
    w2 = w2
    Blobs = {b1, b2}
    BlobSize <- MCBlobSize
    Kinds <- MCKinds
    DigestOf <- MCDigestOf
    DigestSize <- MCDigestSize
    Patterns <- MCPatterns
    Zero = Zero
    Workers = {w1, w2}
    Paths = {p1, p2}
    Sizes <- MCSizes
    Outcomes = {"whole", "resized"}
    None = None
    MaxFileScans = 3
    MaxEntryScans = 3
SPECIFICATION Spec
SYMMETRY Symmetry
INVARIANTS
    FindMatchesReference
    FindListsFilesOfFingerprint
\* The scan ends once every file and entry has been fingerprinted.
CHECK_DEADLOCK FALSE
