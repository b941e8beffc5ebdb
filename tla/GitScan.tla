------------------------------- MODULE GitScan -------------------------------
(***************************************************************************)
(* The git phase of ScanAndInventoryPath (src/scanner/inventory.go): the   *)
(* refs InterestingGitRefs selects are scanned one after the other by      *)
(* GitRepoSourceFromRef (src/unnamed/part_016).  For one ref, three        *)
(* goroutines share two channels: the tree walker of FilesChannelFromTree  *)
(* sends a File for every blob the store already knows (the git-sha fast   *)
(* path, FileFromExistingBlob) and queues the others on blobArgs; the blob *)
(* goroutine turns each queued blob into a File (FileFromBlob) and closes  *)
(* files once blobArgs is closed and drained; the ref's goroutine appends  *)
(* every File it receives to the GitRepoSource (RecordBlob) and interns    *)
(* the source (PutGitSource, src/store/cache.go).                          *)
(*                                                                         *)
(* Data abstraction.  A blob is a model value; its fingerprint is the blob *)
(* and its git sha the blob id, so a fingerprint is known by its blob.  A  *)
(* ref is a record of what the selection tests read from it.  Both         *)
(* channels are created with the tree's blob count as capacity, so no send *)
(* blocks; they are sequences.  The tree walk, one entry per step, is the  *)
(* traversal order of the commit's tree.  The store calls the goroutines   *)
(* make are each atomic under their lock; in this phase they are the only  *)
(* writers.                                                                *)
(***************************************************************************)
EXTENDS Naturals, Sequences, SequencesExt

CONSTANTS
    Paths, Blobs, Commits,
    Tree,       \* Tree[c]: the blobs of commit c's tree, <<path, blob>>, in walk order
    RepoRefs,   \* the references of the repositories, in iterator order
    InitialFiles \* Files (<<path, blob>>) the plain-file phase may have put

VARIABLES
    fps,        \* store Fingerprints (cache id = index), each a blob
    files,      \* store Files: [path, fp] with fp a fingerprint index
    sources,    \* store GitRepoSources: [urn, files] with file indexes
    ri,         \* index of the ref GitRepoSourceFromRef is scanning
    pc,         \* the ref goroutine: "start", "record", "done"
    src,        \* the GitRepoSource being built: [urn, commit, files]
    walkAt,     \* the tree walker's next entry
    blobArgs, blobArgsClosed,
    filesCh, filesClosed,
    panicked    \* a goroutine sent on a closed channel

vars == <<fps, files, sources, ri, pc, src, walkAt, blobArgs, blobArgsClosed,
          filesCh, filesClosed, panicked>>

----------------------------------------------------------------------------
(* Ref selection.                                                          *)

\* One reference of the iterator, before the HEAD / reject / remote / name
\* tests: rejected is reject.MatchString(ref.Name()), origin is
\* strings.HasPrefix(ref.Shorthand(), "origin").
Interesting(r) ==
    \/ r.kind = "branch" /\ r.head
    \/ /\ ~r.rejected
       /\ ~(r.kind = "remote" /\ ~r.origin)
       /\ r.kind = "tag" \/ r.short \in {"master", "HEAD"}

InterestingGitRefs(rs) == SelectSeq(rs, Interesting)

Selected == InterestingGitRefs(RepoRefs)

URNCommitOnly(r) == <<r.commit, "", "">>

\* src.URN(): commit, branch, tag.
URN(r) ==
    <<r.commit, IF r.kind = "tag" THEN "" ELSE r.short,
                IF r.kind = "tag" THEN r.short ELSE "">>

----------------------------------------------------------------------------
(* Store operations (src/store/cache.go), by blob.                         *)

FpIds == DOMAIN fps
FileOf(i) == <<files[i].path, fps[files[i].fp]>>

\* GetFingerprintByGitSHA: the fingerprint whose git sha is the blob id.
KnowsBlob(b) == \E i \in FpIds : fps[i] = b

GetFileByNameAndGitSHAAnyPath(p, b) ==
    {i \in DOMAIN files : fps[files[i].fp] = b}

\* GetFileByNameAndGitSHA: Files with that path whose fingerprint has the sha.
GetFileByNameAndGitSHA(p, b) ==
    {i \in DOMAIN files : files[i].path = p /\ fps[files[i].fp] = b}

\* PutFingerprint of a fingerprint with git sha b: the one indexed under b,
\* or a new one.
FpsAfterPut(b) == IF KnowsBlob(b) THEN fps ELSE Append(fps, b)

PutFileOffByOne(p, b) ==
    LET fs2 == FpsAfterPut(b)
        k   == CHOOSE i \in DOMAIN fs2 : fs2[i] = b
        hit == {i \in DOMAIN files : files[i].path = p /\ files[i].fp = k}
    IN IF hit # {} THEN <<fs2, files, CHOOSE i \in hit : TRUE>>
       ELSE <<fs2, Append(files, [path |-> p, fp |-> k]), Len(files)>>

\* PutFile(&File{p, fp}): an existing File with path p and an equal
\* fingerprint is returned, otherwise the fingerprint is put and the File
\* appended.  Returns the Files slice and the File's index.
PutFile(p, b) ==
    LET fs2 == FpsAfterPut(b)
        k   == CHOOSE i \in DOMAIN fs2 : fs2[i] = b
        hit == {i \in DOMAIN files : files[i].path = p /\ files[i].fp = k}
    IN IF hit # {} THEN <<fs2, files, CHOOSE i \in hit : TRUE>>
       ELSE <<fs2, Append(files, [path |-> p, fp |-> k]), Len(files) + 1>>

\* A FindGitSourcesContainingFingerprint mutant: the loop returns at the
\* first source it finds.
FindReposFirstOnly(k) ==
    LET hits == {i \in DOMAIN sources : \E j \in DOMAIN sources[i].files :
                                          files[sources[i].files[j]].fp = k}
    IN IF hits = {} THEN <<>> ELSE << Min(hits) >>

\* FindGitSourcesContainingFingerprint (the find command's FindRepos) of
\* the fingerprint with cache id k: every source, in store order, once for
\* each of its Files whose fingerprint is that one.
FindGitSourcesContainingFingerprint(k) ==
    FlattenSeq([i \in DOMAIN sources |->
                  [j \in 1 .. Len(SelectSeq(sources[i].files, LAMBDA f : files[f].fp = k)) |-> i]])

\* FindGitSourceByURN: the index of the first source with that URN, or 0
\* for nil.  PutGitSource opens with the same loop.
FindGitSourceByURN(u) == SelectInSeq(sources, LAMBDA s : s.urn = u)

\* A send on a channel: it panics when the channel is closed.
Send(ch, closed, x) == IF closed THEN ch ELSE Append(ch, x)

----------------------------------------------------------------------------

Init ==
    /\ \E K \in SUBSET InitialFiles :
          LET bs == SetToSeq({f[2] : f \in K})
              ks == SetToSeq(K)
          IN /\ fps = bs
             /\ files = [i \in DOMAIN ks |->
                           [path |-> ks[i][1],
                            fp   |-> CHOOSE j \in DOMAIN bs : bs[j] = ks[i][2]]]
    /\ sources = <<>>
    /\ ri = 1
    /\ pc = "start"
    /\ src = [urn |-> <<>>, commit |-> CHOOSE c \in Commits : TRUE, files |-> <<>>]
    /\ walkAt = 1
    /\ blobArgs = <<>> /\ blobArgsClosed = FALSE
    /\ filesCh = <<>> /\ filesClosed = FALSE
    /\ panicked = FALSE

----------------------------------------------------------------------------
(* The ref goroutine: GitRepoSourceFromRef and the inventory loop.         *)

Ref == Selected[ri]
Entries == Tree[src.commit]

\* GitRepoSourceFromRef up to the channel set-up: the source is named by
\* the commit the ref peels to; FindGitSourceByURN returns a source with
\* that URN, and the inventory loop goes on to the next ref.  Otherwise
\* the walker and the blob goroutine are started on the tree.
StartRef ==
    /\ ~panicked
    /\ pc = "start"
    /\ ri <= Len(Selected)
    /\ \/ /\ FindGitSourceByURN(URN(Ref)) # 0
          /\ ri' = ri + 1
          /\ UNCHANGED <<pc, src, walkAt, blobArgs, blobArgsClosed, filesCh, filesClosed>>
       \/ /\ FindGitSourceByURN(URN(Ref)) = 0
          /\ src' = [urn |-> URN(Ref), commit |-> Ref.commit, files |-> <<>>]
          /\ pc' = "record"
          /\ walkAt' = 1
          /\ blobArgs' = <<>> /\ blobArgsClosed' = FALSE
          /\ filesCh' = <<>> /\ filesClosed' = FALSE
          /\ UNCHANGED ri
    /\ UNCHANGED <<fps, files, sources, panicked>>

\* for file := range files { src.RecordBlob(file) }.
RecordBlob ==
    /\ ~panicked
    /\ pc = "record"
    /\ filesCh # <<>>
    /\ src' = [src EXCEPT !.files = Append(@, Head(filesCh))]
    /\ filesCh' = Tail(filesCh)
    /\ UNCHANGED <<fps, files, sources, ri, pc, walkAt, blobArgs, blobArgsClosed,
                   filesClosed, panicked>>

\* The range ends once files is closed and drained: PutGitSource returns a
\* source with the same URN, or puts every File (each already in the
\* store, so PutFile returns it) and appends the source.
FinishRef ==
    /\ ~panicked
    /\ pc = "record"
    /\ filesClosed /\ filesCh = <<>>
    /\ sources' = IF FindGitSourceByURN(src.urn) # 0
                  THEN sources
                  ELSE Append(sources, [urn |-> src.urn, files |-> src.files])
    /\ pc' = "start"
    /\ ri' = ri + 1
    /\ UNCHANGED <<fps, files, src, walkAt, blobArgs, blobArgsClosed, filesCh,
                   filesClosed, panicked>>

\* Every selected ref is done: the driver moves on to the archives.
GitPhaseDone ==
    /\ ~panicked
    /\ pc = "start"
    /\ ri > Len(Selected)
    /\ pc' = "done"
    /\ UNCHANGED <<fps, files, sources, ri, src, walkAt, blobArgs, blobArgsClosed,
                   filesCh, filesClosed, panicked>>

----------------------------------------------------------------------------
(* The tree walker of FilesChannelFromTree.                                *)

\* A blob whose git sha the store knows: FileFromExistingBlob returns the
\* first File with the entry's path and that sha (GetFileByNameAndGitSHA),
\* or PutFile of a new File on the existing fingerprint; the walker sends
\* it on files.
WalkKnownBlob ==
    /\ ~panicked
    /\ pc = "record"
    /\ walkAt <= Len(Entries)
    /\ LET e   == Entries[walkAt]
           hit == GetFileByNameAndGitSHA(e[1], e[2])
           put == PutFile(e[1], e[2])
           id  == IF hit # {} THEN Min(hit) ELSE put[3]
       IN /\ KnowsBlob(e[2])
          /\ files' = IF hit # {} THEN files ELSE put[2]
          /\ filesCh' = Send(filesCh, filesClosed, id)
          /\ panicked' = filesClosed
    /\ walkAt' = walkAt + 1
    /\ UNCHANGED <<fps, sources, ri, pc, src, blobArgs, blobArgsClosed, filesClosed>>

\* GetFingerprintByGitSHA finds nothing: the entry is queued on blobArgs.
WalkNewBlob ==
    /\ ~panicked
    /\ pc = "record"
    /\ walkAt <= Len(Entries)
    /\ ~KnowsBlob(Entries[walkAt][2])
    /\ blobArgs' = Send(blobArgs, blobArgsClosed, Entries[walkAt])
    /\ panicked' = blobArgsClosed
    /\ walkAt' = walkAt + 1
    /\ UNCHANGED <<fps, files, sources, ri, pc, src, blobArgsClosed, filesCh, filesClosed>>

\* tree.Walk returns: close(blobArgs).
WalkDone ==
    /\ ~panicked
    /\ pc = "record"
    /\ walkAt > Len(Entries)
    /\ ~blobArgsClosed
    /\ blobArgsClosed' = TRUE
    /\ UNCHANGED <<fps, files, sources, ri, pc, src, walkAt, blobArgs, filesCh,
                   filesClosed, panicked>>

----------------------------------------------------------------------------
(* The blob goroutine of FilesChannelFromTree.                             *)

\* FileFromBlob for the next queued entry: the fingerprint indexed under
\* the blob id, or a new one carrying it, gets the blob's size and any
\* missing digests; PutFile returns the File sent on files.
BlobToFile ==
    /\ ~panicked
    /\ pc = "record"
    /\ blobArgs # <<>>
    /\ LET e == Head(blobArgs)
           put == PutFile(e[1], e[2])
       IN /\ fps' = put[1]
          /\ files' = put[2]
          /\ filesCh' = Send(filesCh, filesClosed, put[3])
          /\ panicked' = filesClosed
    /\ blobArgs' = Tail(blobArgs)
    /\ UNCHANGED <<sources, ri, pc, src, walkAt, blobArgsClosed, filesClosed>>

CloseFilesOmitted ==
    /\ ~panicked
    /\ pc = "record"
    /\ blobArgsClosed /\ blobArgs = <<>>
    /\ ~filesClosed
    /\ UNCHANGED vars

\* The range over blobArgs ends once it is closed and drained: close(files).
CloseFiles ==
    /\ ~panicked
    /\ pc = "record"
    /\ blobArgsClosed /\ blobArgs = <<>>
    /\ ~filesClosed
    /\ filesClosed' = TRUE
    /\ UNCHANGED <<fps, files, sources, ri, pc, src, walkAt, blobArgs, blobArgsClosed,
                   filesCh, panicked>>

----------------------------------------------------------------------------

Walker == WalkKnownBlob \/ WalkNewBlob \/ WalkDone
BlobWorker == BlobToFile \/ CloseFiles
RefLoop == StartRef \/ RecordBlob \/ FinishRef \/ GitPhaseDone

Next == Walker \/ BlobWorker \/ RefLoop

\* Go runs every runnable goroutine eventually; each of the three is weakly
\* fair.
Spec == Init /\ [][Next]_vars /\ WF_vars(Walker) /\ WF_vars(BlobWorker) /\ WF_vars(RefLoop)

----------------------------------------------------------------------------
(* Properties.                                                             *)

TypeOK ==
    /\ fps \in Seq(Blobs)
    /\ \A i \in DOMAIN files : files[i].path \in Paths /\ files[i].fp \in FpIds
    /\ \A i \in DOMAIN sources : ToSet(sources[i].files) \subseteq DOMAIN files
    /\ ToSet(filesCh) \cup ToSet(src.files) \subseteq DOMAIN files
    /\ pc \in {"start", "record", "done"}
    /\ panicked \in BOOLEAN

\* Each File of a GitRepoSource is the path and content of a blob of its
\* commit's tree, and every blob of the tree has exactly one, whichever of
\* the walker's fast path and the blob goroutine produced it and however
\* the three goroutines interleave.
SourcesComplete ==
    \A i \in DOMAIN sources :
        LET t == Tree[sources[i].urn[1]]
        IN /\ Len(sources[i].files) = Len(t)
           /\ {FileOf(j) : j \in ToSet(sources[i].files)} = ToSet(t)

\* Spec 4.6: the Files of a GitRepoSource are appended in traversal order.
SourceInTraversalOrder ==
    \A i \in DOMAIN sources :
        [j \in DOMAIN sources[i].files |-> FileOf(sources[i].files[j])]
            = Tree[sources[i].urn[1]]

\* The git phase implements GitSources: the store's Files (as path and
\* content) and the recorded sources, each with the set of its Files, are
\* those of the abstract scan, with the ref index as its position.  So a
\* ref is skipped exactly when a source with its commit, branch and tag is
\* recorded (FindGitSourceByURN), only Files of the ref's tree are put
\* while it is scanned, PutGitSource comes after all of them, and, under
\* the goroutines' fairness, every selected ref is eventually done.
AbsGit == INSTANCE GitSources WITH
    Refs <- Selected,
    known <- {FileOf(i) : i \in DOMAIN files},
    sources <- [i \in DOMAIN sources |->
                  [urn |-> sources[i].urn,
                   files |-> {FileOf(j) : j \in ToSet(sources[i].files)}]],
    next <- ri

GitSourcesRefined == AbsGit!Spec

(***************************************************************************)
(* Spec 4.2: once the git phase is over, find_git_sources_containing_      *)
(* fingerprint answers, for every stored fingerprint, with the sources of  *)
(* exactly the selected refs whose commit tree holds that blob, one per    *)
(* URN.  It scans the sources PutGitSource kept and compares their Files'  *)
(* fingerprints by pointer, so it needs every ref recorded once, after all *)
(* of its Files, each pointing at the one interned fingerprint of its      *)
(* blob, whether the walker's fast path or the blob goroutine made it.     *)
(***************************************************************************)
FindReposListsContainingSources ==
    pc = "done" =>
        \A k \in FpIds :
            {sources[i].urn : i \in ToSet(FindGitSourcesContainingFingerprint(k))}
                = {URN(r) : r \in {r \in ToSet(Selected) :
                                     \E e \in ToSet(Tree[r.commit]) : e[2] = fps[k]}}

\* The git phase ends: no goroutine sends on a closed channel, no range
\* waits on a channel nobody closes, and every selected ref is scanned.
GitScanEnds == <>(pc = "done")

=============================================================================
