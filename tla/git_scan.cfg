\* The git phase over the refs of one repository: the walker's fast path
\* and the blob goroutine interleave, and refs share commits and blobs.
CONSTANTS
    p1 = p1
    p2 = p2
    p3 = p3
    b1 = b1
    b2 = b2
    c1 = c1
    c2 = c2
    Paths <- MCPaths
    Blobs <- MCBlobs
    Commits <- MCCommits
    Tree <- MCTree
    RepoRefs <- MCRepoRefs
    InitialFiles <- MCInitialFiles
SPECIFICATION Spec
INVARIANTS
    TypeOK
    SourcesComplete
    FindReposListsContainingSources
PROPERTIES
    GitScanEnds
    GitSourcesRefined
CHECK_DEADLOCK FALSE
