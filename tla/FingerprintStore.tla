-------------------------- MODULE FingerprintStore --------------------------
(***************************************************************************)
(* The in-memory store of fingerprints and files (fingerprintInMemoryCache *)
(* in src/store/cache.go) driven by the two scans of ScanAndInventoryPath  *)
(* (src/scanner/inventory.go) that write to it:                            *)
(*                                                                         *)
(*   - the plain-file loop, one IdentifyFileWithStat at a time             *)
(*     (src/unnamed/part_015), which consults and fills the stat cache;    *)
(*   - the archive phase, where deepScanWorker goroutines run              *)
(*     concurrently and each leaf entry of an archive is fingerprinted by  *)
(*     fingerprintArchiveEntry (src/unnamed/part_012).                     *)
(*                                                                         *)
(* PutFingerprint is split where the code releases its lock: the git-sha   *)
(* lookup (GetFingerprintByGitSHA takes and drops fingerprintsLock) is one *)
(* step, the rescan-and-insert under the re-taken lock another.  PutFile   *)
(* holds filesLock for its whole body and calls PutFingerprint on an       *)
(* already interned fingerprint, which returns at once; it is one step.    *)
(*                                                                         *)
(* Slices are sequences: the cache id of Fingerprints[i] is i-1 in the     *)
(* code and i here.                                                        *)
(***************************************************************************)
EXTENDS Fingerprint, Naturals, Sequences, SequencesExt, FiniteSets

CONSTANTS
    Workers,        \* goroutines that may call the store (model values)
    Paths,          \* file and entry names
    Sizes,          \* sizes a stat or an archive header may declare
    Outcomes,       \* subset of {"whole", "resized", "ioerror"}
    None,           \* nil
    MaxFileScans,   \* bound on IdentifyFileWithStat calls
    MaxEntryScans   \* bound on fingerprintArchiveEntry calls

ASSUME StoreAssumptions ==
    /\ Outcomes \subseteq {"whole", "resized", "ioerror"}
    /\ "whole" \in Outcomes
    /\ {BlobSize[b] : b \in Blobs} \subseteq Sizes
    /\ None \notin Nat
    /\ MaxFileScans \in Nat /\ MaxEntryScans \in Nat

VARIABLES
    fps,        \* v.Fingerprints
    gitIndex,   \* v.gitSHAIndex: git digest -> id, None where absent
    bloom,      \* v.gitSHAFilter: the keys added to the filter
    files,      \* v.Files: records [path, fp]
    statCache,  \* v.statCache: stat key -> fingerprint id, None where absent
    phase,      \* "files" then "archives" in ScanAndInventoryPath
    pc,         \* per worker: "idle", "lookup", "insert", "putfile"
    job,        \* per worker: the locals of the call in progress
    seen,       \* ghost: <<file id, blob>> for every File a scan returned
    fileScans,
    entryScans

vars == <<fps, gitIndex, bloom, files, statCache, phase, pc, job, seen,
          fileScans, entryScans>>

(***************************************************************************)
(* Stat keys.  newCachedStatFingerprintKey keys the cache on size, inode   *)
(* and mtime: a file identity (its path here), the content it had at that  *)
(* mtime (its blob) and the size stat reported.                            *)
(***************************************************************************)
StatKeys == Paths \X Blobs \X Sizes

Ids == Nat \ {0}

Job == [path : Paths, blob : Blobs, cand : FingerprintRec(Sizes),
        existing : Ids \cup {None}, fp : Ids \cup {None},
        stat : StatKeys \cup {None}]

NoJob == [path |-> CHOOSE p \in Paths : TRUE, blob |-> CHOOSE b \in Blobs : TRUE,
          cand |-> FailedSums(0), existing |-> None, fp |-> None, stat |-> None]

\* The sizes a stat (or header) may declare for content b under Outcomes:
\* exactly its length, or, when the file may change between stat and read,
\* any other size.
Declared(b) ==
    IF "resized" \in Outcomes THEN Sizes ELSE {BlobSize[b]}

\* The fingerprint a read of b declared at size d may produce.
Sums(b, d) ==
    {CalculateSums(b, d)} \cup (IF "ioerror" \in Outcomes THEN {FailedSums(d)} ELSE {})

\* newInMemoryCache.
Init ==
    /\ fps = << >>
    /\ gitIndex = [g \in Digests |-> None]
    /\ bloom = {}
    /\ files = << >>
    /\ statCache = [k \in StatKeys |-> None]
    /\ phase = "files"
    /\ pc = [w \in Workers |-> "idle"]
    /\ job = [w \in Workers |-> NoJob]
    /\ seen = {}
    /\ fileScans = 0
    /\ entryScans = 0

(***************************************************************************)
(* GetFingerprintByGitSHA: the filter answers "absent" for keys never      *)
(* added; a false positive falls through to the index, which answers nil   *)
(* as well since every index key is also added to the filter.              *)
(***************************************************************************)
GetFingerprintByGitSHA(g) ==
    IF g \in bloom /\ gitIndex[g] # None THEN gitIndex[g] ELSE None

\* The linear scan of PutFingerprint: the first interned fingerprint that Is
\* the candidate.
ScanForMatch(cand) ==
    LET i == SelectInSeq(fps, LAMBDA efp : Is(efp, cand))
    IN IF i = 0 THEN None ELSE i

\* A PutFingerprint mutant: trust the lookup made before the lock.
MatchExistingTrustLookup(w) == job[w].existing

\* The fingerprint PutFingerprint merges into: the one the lookup returned,
\* else the first match of the scan under the lock.
MatchExisting(w) ==
    IF job[w].existing # None THEN job[w].existing ELSE ScanForMatch(job[w].cand)

\* A PutFile mutant: dedup on the path alone.
FileMatchPathOnly(p, id) == SelectInSeq(files, LAMBDA ef : ef.path = p)

\* The dedup scan of PutFile: same path and the same or an equivalent
\* fingerprint.  0 when there is none.
FileMatch(p, id) ==
    SelectInSeq(files, LAMBDA ef : ef.path = p /\ (ef.fp = id \/ Is(fps[ef.fp], fps[id])))

\* v.gitSHAIndex[fp.GitSHA] = id for a new fingerprint, the zero digest
\* included.
IndexGitSHA(g, id) == [gitIndex EXCEPT ![g] = id]

\* A PutFingerprint mutant: the id of the appended fingerprint off by one.
NewCacheIDOffByOne == Len(fps)

\* uint64(len(v.Fingerprints) - 1) after the append, shifted to 1-based.
NewCacheID == Len(fps) + 1

(***************************************************************************)
(* IdentifyFileWithStat on a file with content b whose stat says size d.   *)
(* A stat-cache hit goes straight to PutFile with the cached, interned     *)
(* fingerprint; a miss reads the file and enters PutFingerprint.  Plain    *)
(* files are scanned one at a time, before any archive.                    *)
(***************************************************************************)
IdentifyFileWithStat(w) ==
    /\ phase = "files"
    /\ fileScans < MaxFileScans
    /\ \A v \in Workers : pc[v] = "idle"
    /\ \E p \in Paths, b \in Blobs :
       \E d \in Declared(b) :
         LET key == <<p, b, d>> IN
         IF statCache[key] # None
         THEN /\ pc' = [pc EXCEPT ![w] = "putfile"]
              /\ job' = [job EXCEPT ![w] = [NoJob EXCEPT !.path = p, !.blob = b,
                                                        !.fp = statCache[key]]]
         ELSE \E c \in Sums(b, d) :
              /\ pc' = [pc EXCEPT ![w] = "lookup"]
              /\ job' = [job EXCEPT ![w] = [NoJob EXCEPT !.path = p, !.blob = b,
                                                        !.cand = c, !.stat = key]]
    /\ fileScans' = fileScans + 1
    /\ UNCHANGED <<fps, gitIndex, bloom, files, statCache, phase, seen, entryScans>>

\* The file loop ends; git repositories are scanned (not here), then the
\* archive workers start.
EndFilesPhase ==
    /\ phase = "files"
    /\ \A v \in Workers : pc[v] = "idle"
    /\ phase' = "archives"
    /\ UNCHANGED <<fps, gitIndex, bloom, files, statCache, pc, job, seen,
                   fileScans, entryScans>>

(***************************************************************************)
(* fingerprintArchiveEntry on a leaf entry with content b.  Tar, zip, cpio *)
(* and ar readers deliver exactly the size in the entry header or fail, so *)
(* a successful read declares the true size.                               *)
(***************************************************************************)
FingerprintArchiveEntry(w) ==
    /\ phase = "archives"
    /\ pc[w] = "idle"
    /\ entryScans < MaxEntryScans
    /\ \E p \in Paths, b \in Blobs :
         /\ pc' = [pc EXCEPT ![w] = "lookup"]
         /\ job' = [job EXCEPT ![w] = [NoJob EXCEPT !.path = p, !.blob = b,
                                                   !.cand = CalculateSums(b, BlobSize[b])]]
    /\ entryScans' = entryScans + 1
    /\ UNCHANGED <<fps, gitIndex, bloom, files, statCache, phase, seen, fileScans>>

\* CalculateSums fails on a truncated entry: the error is logged and nil
\* returned, nothing is stored.
ArchiveEntryReadFails(w) ==
    /\ "ioerror" \in Outcomes
    /\ phase = "archives"
    /\ pc[w] = "idle"
    /\ entryScans < MaxEntryScans
    /\ entryScans' = entryScans + 1
    /\ UNCHANGED <<fps, gitIndex, bloom, files, statCache, phase, pc, job, seen, fileScans>>

\* PutFingerprint up to the lock: GetFingerprintByGitSHA(fp.GitSHA.Raw()),
\* keyed by the candidate's git digest even when it is zero.
LookupGitSHA(w) ==
    /\ pc[w] = "lookup"
    /\ job' = [job EXCEPT ![w].existing = GetFingerprintByGitSHA(job[w].cand.d[GitSHA])]
    /\ pc' = [pc EXCEPT ![w] = "insert"]
    /\ UNCHANGED <<fps, gitIndex, bloom, files, statCache, phase, seen, fileScans, entryScans>>

\* PutFingerprint under fingerprintsLock, a match found: UpdateWith and
\* return the existing fingerprint.  The index and filter are untouched.
MergeFingerprint(w) ==
    /\ pc[w] = "insert"
    /\ MatchExisting(w) # None
    /\ fps' = [fps EXCEPT ![MatchExisting(w)] = UpdateWith(@, job[w].cand)]
    /\ job' = [job EXCEPT ![w].fp = MatchExisting(w)]
    /\ pc' = [pc EXCEPT ![w] = "putfile"]
    /\ UNCHANGED <<gitIndex, bloom, files, statCache, phase, seen, fileScans, entryScans>>

\* PutFingerprint under fingerprintsLock, no match: append, set the cache
\* id, index and filter by the git digest.
InsertFingerprint(w) ==
    /\ pc[w] = "insert"
    /\ MatchExisting(w) = None
    /\ LET id == NewCacheID IN
       /\ fps' = Append(fps, job[w].cand)
       /\ gitIndex' = IndexGitSHA(job[w].cand.d[GitSHA], id)
       /\ bloom' = bloom \cup {job[w].cand.d[GitSHA]}
       /\ job' = [job EXCEPT ![w].fp = id]
    /\ pc' = [pc EXCEPT ![w] = "putfile"]
    /\ UNCHANGED <<files, statCache, phase, seen, fileScans, entryScans>>

(***************************************************************************)
(* The tail of the caller: PutStatFingerprint when IdentifyFileWithStat    *)
(* read the file, then PutFile under filesLock (its PutFingerprint call    *)
(* returns the already interned fingerprint).                              *)
(***************************************************************************)
PutFile(w) ==
    /\ pc[w] = "putfile"
    /\ LET j == job[w]
           m == FileMatch(j.path, j.fp)
           fid == IF m # 0 THEN m ELSE Len(files) + 1
       IN /\ statCache' = IF j.stat # None
                          THEN [statCache EXCEPT ![j.stat] = j.fp] ELSE statCache
          /\ files' = IF m # 0 THEN files
                      ELSE Append(files, [path |-> j.path, fp |-> j.fp])
          /\ seen' = seen \cup {<<fid, j.blob>>}
    /\ pc' = [pc EXCEPT ![w] = "idle"]
    /\ job' = [job EXCEPT ![w] = NoJob]
    /\ UNCHANGED <<fps, gitIndex, bloom, phase, fileScans, entryScans>>

Next ==
    \/ EndFilesPhase
    \/ \E w \in Workers :
         \/ IdentifyFileWithStat(w)
         \/ FingerprintArchiveEntry(w)
         \/ ArchiveEntryReadFails(w)
         \/ LookupGitSHA(w)
         \/ MergeFingerprint(w)
         \/ InsertFingerprint(w)
         \/ PutFile(w)

Spec == Init /\ [][Next]_vars

-----------------------------------------------------------------------------
TypeOK ==
    /\ fps \in Seq(FingerprintRec(Sizes))
    /\ gitIndex \in [Digests -> (1..Len(fps)) \cup {None}]
    /\ bloom \subseteq Digests
    /\ files \in Seq([path : Paths, fp : 1..Len(fps)])
    /\ statCache \in [StatKeys -> (1..Len(fps)) \cup {None}]
    /\ phase \in {"files", "archives"}
    /\ pc \in [Workers -> {"idle", "lookup", "insert", "putfile"}]
    /\ job \in [Workers -> Job]
    /\ seen \subseteq (1..Len(files)) \X Blobs

(***************************************************************************)
(* PutFingerprint interns each content once: no two stored fingerprints   *)
(* share a populated digest of the same kind.  Concurrent archive workers  *)
(* may both miss in GetFingerprintByGitSHA before either takes the lock;   *)
(* only the rescan under the lock keeps them from both appending.          *)
(***************************************************************************)
NoDuplicateDigests ==
    \A i, j \in DOMAIN fps : \A k \in Kinds :
        i # j /\ fps[i].d[k] # Zero => fps[i].d[k] # fps[j].d[k]

(***************************************************************************)
(* Every File the store returns for a scan of content b has a fingerprint  *)
(* whose digests are all digests of b (or none): a file never points at   *)
(* another blob's fingerprint, whatever PutFile dedup, PutFingerprint      *)
(* merging and stat-cache hits did since.                                  *)
(***************************************************************************)
FileDenotesScannedBlob ==
    \A s \in seen : Populated(fps[files[s[1]].fp]) \subseteq {s[2]}

=============================================================================
