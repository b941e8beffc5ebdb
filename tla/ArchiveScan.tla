----------------------------- MODULE ArchiveScan -----------------------------
(***************************************************************************)
(* One deepScanWorker (src/scanner/inventory.go) taking archives and       *)
(* packages from its work channel, each through IdentifyArchiveContents or *)
(* IdentifyPackageContents (src/unnamed/part_012,                          *)
(* src/scanner/package_scanner.go): the stat-cache fast path, dispatch on  *)
(* the file name suffix, the open step of zip, compressed tar and rpm, the *)
(* tar, cpio, zip and ar entry loops, the recursion of                     *)
(* fingerprintArchiveEntry, and the store puts that record the result      *)
(* (PutFile, PutArchiveFile, PutStatFingerprint in src/store/cache.go).    *)
(*                                                                         *)
(* The Go recursion is modelled by an explicit stack of frames, one per    *)
(* container being scanned; a frame holds the locals of its scan loop.     *)
(* Inside one container the entry goroutine hands each entry to the        *)
(* readLoop through an unbuffered channel and sends on done only after the *)
(* last one, so the readLoop appends entries in reader order; that hand-   *)
(* off is folded into the step that produces the entry.  The container     *)
(* fingerprint delivered by the passthrough is abstracted to the           *)
(* container's content (its timing is the subject of Passthrough.tla).     *)
(*                                                                         *)
(* The scan command's docker images (src/scanner/docker.go) run first:    *)
(* one save stream of all the names, scanned by the same frame machinery:  *)
(* an image frame whose entries are layer tars and metadata, layer frames  *)
(* whose entries go to fingerprintArchiveEntry at depth 0.  The daemon is  *)
(* a fixed map from names to images (denotes) and the manifest it writes.  *)
(*                                                                         *)
(* Data abstraction.  An input file is a tree node: a name and the suffix  *)
(* that getArchiveScanner matches (ext), a kind ("file", "dir", or         *)
(* "badheader" for an entry whose header the reader rejects), whether the  *)
(* container's open step succeeds (opens), whether its stream ends         *)
(* cleanly (ok), a blob, and its entries in reader order.  A node's        *)
(* content is the node without its path, so equal contents have equal     *)
(* fingerprints.  No key of the suffix tables is a suffix of another, so   *)
(* the scanner getArchiveScanner finds does not depend on map order.       *)
(***************************************************************************)
EXTENDS Naturals, Sequences, SequencesExt

CONSTANTS
    Names,      \* base names of entries (model values)
    Blobs,      \* contents of plain entries (model values)
    Stats,      \* stat keys (size, inode, mtime) of the worker's inputs
    Limit,      \* the limit argument; deepScanWorker passes 10
    Work,       \* the sequences of pathEntries the work channel may hold
    NoBlob, None

ASSUME ArchiveScanAssumptions ==
    /\ NoBlob \notin Blobs
    /\ None \notin Stats
    /\ Limit \in Nat

\* archiveScanners: suffix -> scanner; compressedTar(algorithm) is named by
\* its algorithm.
ArchiveScanners ==
    ".zip" :> "zip" @@ ".jar" :> "zip" @@ ".tar" :> "tar" @@
    ".txz" :> "xz" @@ ".tar.xz" :> "xz" @@ "tar.sz" :> "snappy" @@
    "tar.lzma" :> "lzma" @@ ".tgz" :> "gzip" @@ ".tar.gz" :> "gzip" @@
    ".tar.bz2" :> "bz2" @@ ".tbz2" :> "bz2" @@ ".ar" :> "ar" @@
    ".cpio" :> "cpio"

\* pkgScanners: suffix -> scanner.
PkgScanners == ".rpm" :> "rpm" @@ ".deb" :> "deb"

IsScannableArchive(n) == n.ext \in DOMAIN ArchiveScanners
IsScannablePackage(n) == n.ext \in DOMAIN PkgScanners
IsContainer(n) == IsScannableArchive(n) \/ IsScannablePackage(n)

Scanner(n) == IF IsScannableArchive(n) THEN ArchiveScanners[n.ext]
                                       ELSE PkgScanners[n.ext]

\* The entry loop a scanner ends in: compressedTar and scanTar call
\* scanTarStream, scanDEB calls scanAR, scanRPM calls scanCPIOStream.
Loop(s) == CASE s \in {"tar", "xz", "snappy", "lzma", "gzip", "bz2"} -> "tar"
             [] s \in {"ar", "deb"} -> "ar"
             [] s \in {"cpio", "rpm"} -> "cpio"
             [] s = "zip" -> "zip"

\* Scanners with a step that reads before the first entry and returns
\* nil, nil on error: scanZip's ReadAll and zip.NewReader, Decompress of
\* xz, lzma and gzip (their readers parse a header; bzip2 and snappy
\* readers do not), and scanRPM's ReadAll, ReadPackageFile and Decompress
\* of the payload compression.
HasOpenStep(s) == s \in {"zip", "xz", "lzma", "gzip", "rpm"}

\* Docker image tars and their layer tars are read by tar.NewReader loops
\* in scanDockerImageTarStream and scanDockerLayerTarStream.
IsDockerTar(n) == n.kind \in {"image", "layer"}
FrameLoop(n) == IF IsDockerTar(n) THEN "tar" ELSE Loop(Scanner(n))

\* Node constructors for the input trees.
Leaf(k, n, b) ==
    [name |-> n, ext |-> "", kind |-> k, opens |-> TRUE, ok |-> TRUE,
     blob |-> b, kids |-> <<>>]
Container(n, e, opens, ok, kids) ==
    [name |-> n, ext |-> e, kind |-> "file", opens |-> opens, ok |-> ok,
     blob |-> NoBlob, kids |-> kids]

Content(n) == [k \in DOMAIN n \ {"name", "ext"} |-> n[k]]

\* A File as PutFile deduplicates it: path and fingerprint.
FileKey(n) == <<<<n.name, n.ext>>, Content(n)>>

VARIABLES
    input,      \* the pathEntries sent on the work channel
    wi,         \* index of the next one the worker receives
    stack,      \* one frame per container being scanned, innermost last
    files,      \* store Files, as keys; cache id = index
    archives,   \* store ArchiveFiles: [file |-> id, entries |-> <<id,...>>]
    statCache,  \* stat key -> interned fingerprint (a content), or None
    results     \* what deepScanWorker sent on output, one per input

vars == <<input, wi, stack, files, archives, statCache, results>>

\* The locals of one scan: a scanner without an open step starts opened;
\* manifest is imageMeta.Manifest of an image scan.
Frame(n, d, st) ==
    [node |-> n, next |-> 1, entries |-> <<>>, depth |-> d, stat |-> st,
     opened |-> IsDockerTar(n) \/ ~HasOpenStep(Scanner(n)), manifest |-> <<>>]

\* ScanAndInventoryPath's walk sorts what it finds: names that
\* IsScannableArchive go to archives, IsScannablePackage to packages, the
\* rest to paths (whose scan is in FingerprintStore).  The archive pool
\* runs before the package pool, and the scan command runs
\* ScanDockerImages before any path.
IsDockerSave(x) == x.kind = "docker"
IsArchivePath(x) == x.kind = "path" /\ IsScannableArchive(x.node)
IsPackagePath(x) == x.kind = "path" /\ IsScannablePackage(x.node)
Classify(w) ==
    SelectSeq(w, IsDockerSave) \o SelectSeq(w, IsArchivePath) \o SelectSeq(w, IsPackagePath)

Init ==
    /\ input \in {Classify(w) : w \in Work}
    /\ wi = 1
    /\ stack = <<>>
    /\ files = <<>>
    /\ archives = <<>>
    /\ statCache = [s \in Stats |-> None]
    /\ results = <<>>

Top == stack[Len(stack)]
Entry == Top.node.kids[Top.next]
AtEntry == Len(stack) > 0 /\ Top.opened /\ Top.next <= Len(Top.node.kids)
AtEnd == Len(stack) > 0 /\ Top.opened /\ Top.next > Len(Top.node.kids)
Idle == stack = <<>>

\* PutFile: an existing File with the same path and an equal fingerprint
\* is returned, otherwise the File is appended.
PutFile(fs, key) == IF key \in ToSet(fs) THEN fs ELSE Append(fs, key)
FileId(fs, key) == CHOOSE i \in DOMAIN fs : fs[i] = key

\* The ArchiveFiles whose File is the given one (PutArchiveFile's "archive
\* already known" scan and GetArchiveFile compare File pointers).
KnownArchiveByPath(as, fs, id) == {i \in DOMAIN as : fs[as[i].file][1] = fs[id][1]}
KnownArchive(as, fs, id) == {i \in DOMAIN as : as[i].file = id}

\* PutArchiveFile(archive) with archive.File already put as file id: an
\* archive with that File is returned, otherwise the entries are put again
\* (they are already interned, PutFile returns them) and it is appended.
ArchivesAfterPut(id, entries) ==
    IF KnownArchive(archives, files', id) # {} THEN archives
    ELSE Append(archives, [file |-> id, entries |-> entries])
ArchiveId(as, fs, id) == CHOOSE i \in KnownArchive(as, fs, id) : TRUE

ResumeDropped(s, e) ==
    LET p == s[Len(s)]
    IN [p EXCEPT !.next = @ + 1]

\* The frame below the top after the nested call returned entry e (a file
\* id or a layer, or None for nil).  The archive readLoops and the image
\* readLoop skip a nil; the layer readLoop tests layer != nil instead of
\* the entry and appends it.
Resume(s, e) ==
    LET p == s[Len(s)]
    IN [p EXCEPT !.next = @ + 1,
                 !.entries = IF e = None /\ p.node.kind # "layer" THEN @ ELSE Append(@, e)]

\* Return from the top frame handing e to the caller's loop, with result r
\* (the archive, or the images).  From the outermost frame of a path
\* IdentifyArchiveContents puts the stat fingerprint of file e when the
\* archive is not nil, and deepScanWorker sends the archive on its output
\* channel; ScanDockerImages returns the images.
Return(e, r) ==
    IF Len(stack) = 1
    THEN /\ stack' = <<>>
         /\ results' = Append(results, r)
         /\ statCache' = IF r = None \/ Top.stat = None THEN statCache
                         ELSE [statCache EXCEPT ![Top.stat] = files'[e][2]]
    ELSE LET below == SubSeq(stack, 1, Len(stack) - 1)
         IN /\ stack' = [below EXCEPT ![Len(below)] = Resume(below, e)]
            /\ UNCHANGED <<results, statCache>>

\* Does tr.Next() / cr.Next() / arr.Next() skip a directory entry?  Only
\* the ar loop has no IsDir check (ar archives hold no directories).
SkipsDirs(l) == l \in {"tar", "cpio", "zip"}

\* err == tar.ErrHeader: the loop restarts the reader past the bad header.
\* scanCPIOStream makes the same comparison, but go-cpio reports a bad
\* header with its own error value, never tar.ErrHeader; scanARStream has
\* no restart, and scanZip sends the error of entry.Open.
RestartsOnBadHeader(l) == l = "tar"

----------------------------------------------------------------------------
(* The worker loop and IdentifyArchiveContents / IdentifyPackageContents. *)

NextInput == input[wi]

\* FindFilesWithFingerprint(fp): the Files whose fingerprint is fp, in
\* store order, and the first of them GetArchiveFile finds an archive for.
FindFilesWithFingerprintAnyFile(fp) == DOMAIN files
FindFilesWithFingerprint(fp) == {i \in DOMAIN files : files[i][2] = fp}
\* GetStatFingerprint(stat): the fingerprint cached under the stat key, or nil.
GetStatFingerprint(st) == statCache[st]

StatHits(st) ==
    IF st = None THEN {}
    ELSE IF GetStatFingerprint(st) = None THEN {}
    ELSE {i \in FindFilesWithFingerprint(GetStatFingerprint(st)) :
            KnownArchive(archives, files, i) # {}}

\* The stat fast path: GetStatFingerprint finds a fingerprint and one of
\* its Files has an ArchiveFile, which is returned without scanning.
StatCacheHit ==
    /\ Idle
    /\ wi <= Len(input)
    /\ StatHits(NextInput.stat) # {}
    /\ LET f == Min(StatHits(NextInput.stat))
       IN results' = Append(results, ArchiveId(archives, files, f))
    /\ wi' = wi + 1
    /\ UNCHANGED <<input, stack, files, archives, statCache>>

\* No hit: getArchiveScanner / getPackageScanner, fingerprintPassthrough
\* and the scanner, at depth 0 with the stat of the pathEntry; or
\* ScanDockerImages: ImageSave and scanDockerImageTarStream, no stat.
StartScan ==
    /\ Idle
    /\ wi <= Len(input)
    /\ StatHits(NextInput.stat) = {}
    /\ stack' = <<Frame(NextInput.node, 0, NextInput.stat)>>
    /\ wi' = wi + 1
    /\ UNCHANGED <<input, files, archives, statCache, results>>

----------------------------------------------------------------------------
(* Steps of the innermost scanner.                                         *)

\* The open step succeeds: zip.NewReader over the read bytes, the
\* decompressor, or the rpm header and payload decompressor.
Open ==
    /\ Len(stack) > 0
    /\ ~Top.opened
    /\ Top.node.opens
    /\ stack' = [stack EXCEPT ![Len(stack)].opened = TRUE]
    /\ UNCHANGED <<input, wi, files, archives, statCache, results>>

\* The open step fails: scanZip sends the error on done before any entry;
\* compressedTar and scanRPM return nil, nil.
OpenFails ==
    /\ Len(stack) > 0
    /\ ~Top.opened
    /\ ~Top.node.opens
    /\ Return(None, None)
    /\ UNCHANGED <<input, wi, files, archives>>

SkipDirectoryAndNext ==
    /\ AtEntry
    /\ Entry.kind = "dir"
    /\ SkipsDirs(FrameLoop(Top.node))
    /\ stack' = [stack EXCEPT ![Len(stack)].next = @ + 2]
    /\ UNCHANGED <<input, wi, files, archives, statCache, results>>

\* hdr.FileInfo().IsDir() / entry.Mode().IsDir(): continue.
SkipDirectory ==
    /\ AtEntry
    /\ Entry.kind = "dir"
    /\ SkipsDirs(FrameLoop(Top.node))
    /\ stack' = [stack EXCEPT ![Len(stack)].next = @ + 1]
    /\ UNCHANGED <<input, wi, files, archives, statCache, results>>

\* tar.ErrHeader: tr = tar.NewReader(tarFile); continue.  The header block
\* was consumed by the failed Next, so the new reader starts past it.
RestartReader ==
    /\ AtEntry
    /\ Entry.kind = "badheader"
    /\ RestartsOnBadHeader(FrameLoop(Top.node))
    /\ stack' = [stack EXCEPT ![Len(stack)].next = @ + 1]
    /\ UNCHANGED <<input, wi, files, archives, statCache, results>>

\* Any other reader error (entry.Open for zip), or a stream that does not
\* end cleanly after its last entry: done <- err; the readLoop drains
\* entries and returns nil, nil, so the enclosing fingerprintArchiveEntry
\* returns nil and its loop logs "Error scanning entry" and goes on.
\* Nothing is put for the container.
ReaderError ==
    /\ \/ AtEntry /\ Entry.kind = "badheader"
                  /\ ~RestartsOnBadHeader(FrameLoop(Top.node))
       \/ AtEnd /\ ~Top.node.ok
    /\ Return(None, None)
    /\ UNCHANGED <<input, wi, files, archives>>

\* fingerprintArchiveEntry, name neither a scannable archive nor package:
\* CalculateSums, PutFingerprint, PutFile; the entry is sent to the
\* readLoop and appended.
FingerprintFile ==
    /\ AtEntry
    /\ Entry.kind = "file"
    /\ ~IsContainer(Entry)
    /\ LET key == FileKey(Entry)
       IN /\ files' = PutFile(files, key)
          /\ stack' = [stack EXCEPT ![Len(stack)] =
                          [@ EXCEPT !.next = @ + 1,
                                    !.entries = Append(@, FileId(files', key))]]
    /\ UNCHANGED <<input, wi, archives, statCache, results>>

\* fingerprintArchiveEntry, IsScannableArchive(name) or
\* IsScannablePackage(name): depth++ and IdentifyArchiveContents or
\* IdentifyPackageContents(name, size, nil, content, depth, limit).  With
\* a nil stat there is no fast path.  The depth is never compared with
\* limit.
EnterContainer ==
    /\ AtEntry
    /\ Entry.kind = "file"
    /\ IsContainer(Entry)
    /\ stack' = Append(stack, Frame(Entry, Top.depth + 1, None))
    /\ UNCHANGED <<input, wi, files, archives, statCache, results>>

\* done <- nil: the readLoop breaks, PutFile of the container with the
\* fingerprint from the passthrough, PutArchiveFile, return archive.File
\* and the archive PutArchiveFile returned.
FinishArchive ==
    /\ AtEnd
    /\ Top.node.kind = "file"
    /\ Top.node.ok
    /\ LET key == FileKey(Top.node)
           id == FileId(files', key)
       IN /\ files' = PutFile(files, key)
          /\ archives' = ArchivesAfterPut(id, Top.entries)
          /\ Return(id, ArchiveId(archives', files', id))
    /\ UNCHANGED <<input, wi>>

----------------------------------------------------------------------------
(* Steps of scanDockerImageTarStream and scanDockerLayerTarStream.         *)

\* A "<id>/layer.tar" entry: fingerprintPassthrough over tr and
\* scanDockerLayerTarStream, whose entries go to fingerprintArchiveEntry
\* with depth 0 and limit 10.
EnterLayer ==
    /\ AtEntry
    /\ Entry.kind = "layer"
    /\ stack' = Append(stack, Frame(Entry, 0, None))
    /\ UNCHANGED <<input, wi, files, archives, statCache, results>>

\* "<id>.json", "<id>/json", "repositories" and any other entry are read
\* and parsed; nothing of them reaches the store or the images.
SkipMetadata ==
    /\ AtEntry
    /\ Entry.kind = "meta"
    /\ stack' = [stack EXCEPT ![Len(stack)].next = @ + 1]
    /\ UNCHANGED <<input, wi, files, archives, statCache, results>>

\* A manifest entry has RepoTags[0] unless the image was saved by id.
Tagged(m) == m.tags # <<>>

\* "manifest.json": Decode into imageMeta.Manifest (left empty when the
\* JSON does not decode), then ImageInspectWithRaw(m.RepoTags[0]) for
\* every entry.
ReadManifest ==
    /\ AtEntry
    /\ Entry.kind = "manifest"
    /\ ~Entry.ok \/ \A i \in DOMAIN Top.node.manifest : Tagged(Top.node.manifest[i])
    /\ stack' = [stack EXCEPT ![Len(stack)].next = @ + 1,
                              ![Len(stack)].manifest = IF Entry.ok THEN Top.node.manifest ELSE @]
    /\ UNCHANGED <<input, wi, files, archives, statCache, results>>

\* A layer tar that ends: the layer with its Files, sent on layers.
FinishLayer ==
    /\ AtEnd
    /\ Top.node.kind = "layer"
    /\ Top.node.ok
    /\ Return([name |-> Top.node.name, files |-> Top.entries], None)
    /\ UNCHANGED <<input, wi, files, archives>>

\* The layer of imgLayers with the given id that the assembly keeps: its
\* inner loop overwrites on every match, so the last one read.
LayerNamed(ls, id) ==
    LET js == {j \in DOMAIN ls : ls[j].name = id}
    IN IF js = {} THEN None ELSE ls[Max(js)]

\* Layers listed in the order they were read rather than manifest order.
AssembleImagesReadOrder(names, man, ls) ==
    [ii \in DOMAIN names |->
        IF ii <= Len(man)
        THEN [name |-> names[ii], config |-> man[ii].config,
              layers |-> SelectSeq(ls, LAMBDA l : l # None /\ l.name \in ToSet(man[ii].layers))]
        ELSE [name |-> names[ii], config |-> None, layers |-> <<>>]]

\* images: one per name given, the ii-th filled from the ii-th manifest
\* entry with its layers in manifest order.
AssembleImages(names, man, ls) ==
    [ii \in DOMAIN names |->
        IF ii <= Len(man)
        THEN [name |-> names[ii], config |-> man[ii].config,
              layers |-> [i \in DOMAIN man[ii].layers |-> LayerNamed(ls, man[ii].layers[i])]]
        ELSE [name |-> names[ii], config |-> None, layers |-> <<>>]]

\* The image tar ends: the images are assembled in manifest order.
FinishImage ==
    /\ AtEnd
    /\ Top.node.kind = "image"
    /\ Top.node.ok
    /\ Len(Top.manifest) <= Len(Top.node.names)
    /\ Return(None, [panicked |-> FALSE,
                     images |-> AssembleImages(Top.node.names, Top.manifest, Top.entries)])
    /\ UNCHANGED <<input, wi, files, archives>>

\* A runtime panic ends the scan command: images[ii] for a manifest with
\* more entries than names (a name that is a repository saves all its
\* tags), or RepoTags[0] of an image saved by id.  The deferred
\* PersistRememberedObjects still runs; no later input is scanned.
DockerPanics ==
    /\ \/ AtEnd /\ Top.node.kind = "image" /\ Top.node.ok
              /\ Len(Top.manifest) > Len(Top.node.names)
       \/ AtEntry /\ Entry.kind = "manifest" /\ Entry.ok
                 /\ \E i \in DOMAIN Top.node.manifest : ~Tagged(Top.node.manifest[i])
    /\ stack' = <<>>
    /\ results' = Append(results, [panicked |-> TRUE, images |-> <<>>])
    /\ wi' = Len(input) + 1
    /\ UNCHANGED <<input, files, archives, statCache>>

Next ==
    \/ StatCacheHit
    \/ StartScan
    \/ Open
    \/ OpenFails
    \/ SkipDirectory
    \/ RestartReader
    \/ ReaderError
    \/ FingerprintFile
    \/ EnterContainer
    \/ FinishArchive
    \/ EnterLayer
    \/ SkipMetadata
    \/ ReadManifest
    \/ FinishLayer
    \/ FinishImage
    \/ DockerPanics

Spec == Init /\ [][Next]_vars

\* The worker has received every pathEntry and finished its last scan.
Drained == Idle /\ wi > Len(input)

\* ScanDockerImages panicked.
Panicked == \E k \in DOMAIN results :
                IsDockerSave(input[k]) /\ results[k] # None /\ results[k].panicked

----------------------------------------------------------------------------
(* Properties.                                                             *)

TypeOK ==
    /\ \A k \in DOMAIN input : IsDockerSave(input[k]) \/ IsContainer(input[k].node)
    /\ wi \in 1 .. Len(input) + 1
    /\ \A i \in DOMAIN files : files[i][1][1] \in Names
    /\ \A a \in ToSet(archives) :
          a.file \in DOMAIN files /\ ToSet(a.entries) \subseteq DOMAIN files
    /\ \A i \in DOMAIN stack :
          /\ stack[i].depth \in Nat
          /\ stack[i].next \in 1 .. Len(stack[i].node.kids) + 1
          /\ stack[i].node.kind = "image"
               \/ ToSet(stack[i].entries) \subseteq DOMAIN files \cup {None}
    /\ \A k \in DOMAIN results :
          IF IsDockerSave(input[k])
          THEN results[k] = None \/ results[k].panicked
                 \/ DOMAIN results[k].images = DOMAIN input[k].node.names
          ELSE results[k] = None \/ results[k] \in DOMAIN archives
    /\ ~Panicked => Len(results) = wi - 1 - (IF Idle THEN 0 ELSE 1)

\* The entries fingerprintArchiveEntry must produce for a container's
\* children: one per non-directory entry the reader delivers.
Listed(k) == k.kind = "file"

\* The layer tar of save x that layer record l was scanned from.
LayerTarOf(x, l) == CHOOSE c \in ToSet(x.node.kids) : c.kind = "layer" /\ c.name = l.name

\* The layers of the images a docker scan returned.
ReturnedLayers(r) == UNION {ToSet(r.images[ii].layers) : ii \in DOMAIN r.images} \ {None}

\* Entries ents of a container record list exactly one File per
\* non-directory entry of node n, in reader order, each with that entry's
\* path and content.
ListsEntries(ents, n) ==
    LET expected == SelectSeq(n.kids, Listed)
    IN /\ Len(ents) = Len(expected)
       /\ \A j \in 1 .. Len(ents) : ents[j] # None /\ files[ents[j]] = FileKey(expected[j])

\* Spec property 5 (containment fidelity) and spec 4.7 for the records the
\* scan loops leave: every ArchiveFile PutArchiveFile stores, and every
\* DockerLayer of a returned image, lists exactly one File per
\* non-directory entry of its tar, in reader order, with that entry's path
\* and content, whatever happened to a nested archive among them.
EntriesComplete ==
    /\ \A i \in DOMAIN archives :
          ListsEntries(archives[i].entries, files[archives[i].file][2])
    /\ \A k \in DOMAIN results :
          (IsDockerSave(input[k]) /\ results[k] # None) =>
              \A l \in ReturnedLayers(results[k]) :
                  ListsEntries(l.files, LayerTarOf(input[k], l))

\* The spec's recursion: fingerprint_entry recurses into a nested archive
\* or package only when depth < limit, otherwise it fingerprints it as a
\* plain file.  The Files of the containers that get an ArchiveFile when
\* n is scanned at depth d.
RECURSIVE SpecArchiveKeys(_, _)
SpecArchiveKeys(n, d) ==
    {FileKey(n)} \cup
      UNION {SpecArchiveKeys(n.kids[j], d + 1) :
               j \in {i \in DOMAIN n.kids : IsContainer(n.kids[i]) /\ d < Limit}}

\* The containers the spec's recursion gives an ArchiveFile for one input;
\* for a docker save, those under its layer entries, fingerprinted from
\* depth 0.
SpecInputKeys(x) ==
    IF IsDockerSave(x)
    THEN UNION {UNION {SpecArchiveKeys(l.kids[j], 1) :
                         j \in {i \in DOMAIN l.kids : IsContainer(l.kids[i]) /\ 0 < Limit}} :
                  l \in {c \in ToSet(x.node.kids) : c.kind = "layer"}}
    ELSE SpecArchiveKeys(x.node, 0)

\* When every scan returned a result and nothing panicked, the ArchiveFiles
\* in the store are exactly those of the spec's recursion from depth 0
\* with deepScanWorker's limit: no nested container is missed and none
\* beyond the limit is unpacked.
ArchivesMatchSpec ==
    (Drained /\ None \notin ToSet(results) /\ ~Panicked) =>
        {files[a.file] : a \in ToSet(archives)} =
            UNION {SpecInputKeys(input[k]) : k \in DOMAIN input}

\* Every archive deepScanWorker sends on its output describes the file it
\* was given: its File has that file's fingerprint, whether the scanner
\* built it or the stat-cache fast path (GetStatFingerprint,
\* FindFilesWithFingerprint, GetArchiveFile) found it from an earlier scan.
ResultsMatchInput ==
    \A k \in DOMAIN results :
        (~IsDockerSave(input[k]) /\ results[k] # None) =>
            files[archives[results[k]].file][2] = Content(input[k].node)

\* The manifest entry of an image save with the given config.
ManifestOf(img, c) == CHOOSE m \in ToSet(img.manifest) : m.config = c

\* The ArchiveFiles among whose entries file id occurs, once per
\* occurrence, in store order.
ArchivesListing(id) ==
    FlattenSeq([a \in DOMAIN archives |->
                  [j \in 1 .. Len(SelectSeq(archives[a].entries, LAMBDA e : e = id)) |-> a]])

\* A FindArchiveFilesContainingFingerprint mutant: the indirectArchives
\* search of its commented-out block is enabled, adding the archives that
\* contain a direct hit's own File.
FindArchivesIndirect(fp) ==
    LET direct == FlattenSeq([i \in DOMAIN files |->
                    IF files[i][2] = fp THEN ArchivesListing(i) ELSE <<>>])
    IN direct \o FlattenSeq([d \in DOMAIN direct |-> ArchivesListing(archives[direct[d]].file)])

\* fingerprintInMemoryCache.FindArchiveFilesContainingFingerprint (the
\* find command's scanner.FindArchives): for every File
\* FindFilesWithFingerprint returns, every ArchiveFile with an entry that
\* is that File, appended once per such entry.
FindArchiveFilesContainingFingerprint(fp) ==
    FlattenSeq([i \in DOMAIN files |->
                  IF files[i][2] = fp THEN ArchivesListing(i) ELSE <<>>])

\* The contents of the Files the spec's recursion lists as entries of the
\* container whose File is k.
SpecEntryContents(k) ==
    {Content(k[2].kids[j]) : j \in {i \in DOMAIN k[2].kids : Listed(k[2].kids[i])}}

(***************************************************************************)
(* Spec 4.2 and scenario S3: after the scans, find_archives_containing_    *)
(* fingerprint answers with exactly the archives that directly contain a   *)
(* File of that fingerprint, by the spec's own recursion over the inputs:  *)
(* the nested archive holding the entry, never the archive around it.      *)
(* FindArchiveFilesContainingFingerprint walks Files, ArchiveFiles and     *)
(* entries by pointer, after the stat-cache fast path, PutArchiveFile's    *)
(* "already known" return and the docker layers have shaped the store.    *)
(***************************************************************************)
FindArchivesDirect ==
    (Drained /\ None \notin ToSet(results) /\ ~Panicked) =>
        LET keys == UNION {SpecInputKeys(input[k]) : k \in DOMAIN input}
        IN \A c \in UNION {SpecEntryContents(k) : k \in keys} \cup {files[i][2] : i \in DOMAIN files} :
              {files[archives[a].file] : a \in ToSet(FindArchiveFilesContainingFingerprint(c))}
                = {k \in keys : c \in SpecEntryContents(k)}

\* Spec 4.7: the layers of every DockerImage ScanDockerImages returns are
\* those of its config's manifest entry, in manifest order, however the
\* save ordered the layer tars.  A layer may be nil when its tar failed.
ImagesFollowManifest ==
    \A k \in DOMAIN results :
        (IsDockerSave(input[k]) /\ results[k] # None) =>
            \A ii \in DOMAIN results[k].images :
                LET im == results[k].images[ii]
                IN im.config # None =>
                    LET m == ManifestOf(input[k].node, im.config)
                    IN /\ Len(im.layers) = Len(m.layers)
                       /\ \A i \in DOMAIN im.layers :
                             im.layers[i] # None => im.layers[i].name = m.layers[i]

\* Each DockerImage returned for a name given to ScanDockerImages is the
\* image the daemon resolves that name to (its ImageID is that image's
\* config), and the scan returns instead of panicking.
ImagesMatchNames ==
    \A k \in DOMAIN results :
        IsDockerSave(input[k]) =>
            /\ results[k] # None =>
                  /\ ~results[k].panicked
                  /\ \A ii \in DOMAIN results[k].images :
                        LET im == results[k].images[ii]
                        IN im.config = input[k].node.denotes[im.name]

=============================================================================
