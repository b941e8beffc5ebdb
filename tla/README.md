# TLA+ models of binprint

This directory holds TLA+ models of binprint's fingerprint store and of the scanners that feed it. The Go sources are under `src/`, and every definition is written from them. `PROJECT.json` maps each definition to the lines it models, and lists the runs, the mutants, the findings and the hazards.

## The system

binprint fingerprints every blob it can reach: plain files, archive and package entries, git blobs and docker layer entries. A fingerprint is nine digests of the blob plus a size. All fingerprints go into one process-global, deduplicating store, which is restored from `fingerprint.yaml` at start and persisted at exit.

| Part | Source | State | Operations |
|---|---|---|---|
| Fingerprint | `src/unnamed/part_007`, `src/hash/gitsha.go` | 9 digests + Size | `CalculateSums`, `Is`, `UpdateWith` |
| Store | `src/store/cache.go` | `Fingerprints`, `Files`, `ArchiveFiles`, `GitRepoSources`, `gitSHAIndex`, `gitSHAFilter` (Bloom), four mutexes | `PutFingerprint`, `GetFingerprintByGitSHA`, `PutFile`, `PutArchiveFile`, `GetArchiveFile`, `PutGitSource`, finds, `Verify` |
| Stat cache | `src/store/cache.go` | ARC map from `size,inode,mtime` to a fingerprint | `GetStatFingerprint`, `PutStatFingerprint` |
| Inventory driver | `src/scanner/inventory.go`, `src/cmd/binprint/hash.go` | path lists | docker images first, then per path: plain files, git repos, 3 archive workers, 3 package workers |
| Plain files | `src/unnamed/part_015` | — | `IdentifyFileWithStat` |
| Archive scanners | `src/unnamed/part_012` | per-scan goroutine + select loop | `IdentifyArchiveContents`, tar/cpio/zip/ar loops, `fingerprintArchiveEntry` (recursive) |
| Package scanner | `src/scanner/package_scanner.go` | — | rpm via cpio, deb via ar |
| Passthrough tee | `src/unnamed/part_016` (second file) | copier and hasher goroutines, two `io.Pipe`s, `fpResult` (buffer 1) | `fingerprintPassthrough` |
| Git scanner | `src/unnamed/part_016` (first file) | walker and blob goroutines | `InterestingGitRefs`, `GitRepoSourceFromRef`, `FileFromBlob` |
| Docker scanner | `src/scanner/docker.go` | image and layer goroutines | `ScanDockerImages`, `scanDockerImageTarStream`, `scanDockerLayerTarStream` |
| Persistence | `src/store/cache.go` | `fingerprint.yaml` | `PersistRememberedObjects`, `RestoreRememberedObjects`, `Verify` |
| Find queries | `src/unnamed/part_011`, `src/unnamed/part_017`, `src/scanner/cache.go` | — | `NewDigestMatcher`, `DigestMatcher.Match`, `FingerprintMatcher.Match`, `FindMatchingFingerprint` |

How the parts interact:

- Every scanner ends in `PutFingerprint`, then `PutFile`, and for containers `PutArchiveFile`.
- `PutFingerprint` releases `fingerprintsLock` between its git-sha lookup and its insert, and the archive workers run concurrently, so their puts interleave.
- A container is read through the passthrough: its hasher goroutine interns the container's fingerprint while the scanner goroutine interns the entries.
- Nested archives recurse through `fingerprintArchiveEntry`; docker layers are scanned entry by entry with the same function.
- The CLI runs restore, then scan, then persist, in that order; the persist is deferred, so it also runs after a panic.
- `binprint find <algo>:<hex>` restores the persisted store and queries it. A whole git sha is looked up in the git-sha index; every other pattern is matched against the fingerprints in order.

## Modules

| Module | Part | MC module |
|---|---|---|
| `Fingerprint.tla` | digests as pure operators | — |
| `FingerprintStore.tla` | store, stat cache, plain-file loop, archive workers' leaf puts | `MCFingerprintStore.tla` |
| `FingerprintQuery.tla` | find queries over the store (extends `FingerprintStore`) | `MCFingerprintStore.tla` |
| `Passthrough.tla` | the tee and its consumers | (constants in the cfgs) |
| `ArchiveScan.tla` | one deep-scan worker over archives, packages and docker saves | `MCArchiveScan.tla` |
| `GitScan.tla` | the git phase | `MCGitScan.tla` |
| `GitSources.tla` | what the git phase promises (abstract) | instanced by `GitScan` |
| `Persistence.tla` | restore, scan, persist across killed processes | `MCPersistence.tla` |

### `Fingerprint.tla`

A blob is a model value that stands for its bytes. The digest of blob `b` is `b`, and `Zero` is "not computed". `CalculateSums(b, declared)` sets Size to the declared size and drops the git sha when the declared size differs from the blob's length (`GitShaHasher.Done`). `FailedSums` is the io-error path, which drops every digest. `Is` keeps the code's size "cheap negative" check and then requires some non-zero digest to be equal. `UpdateWith` fills only zero fields.

### `FingerprintStore.tla`

The store slices are sequences (cache id = index), with `gitIndex`, `bloom`, `files`, `statCache`, the driver's `phase`, and per worker a `pc` and the locals of the call in progress. Actions: `IdentifyFileWithStat` (a stat hit, or a read with a declared size that may be stale and may fail), `EndFilesPhase`, `FingerprintArchiveEntry` / `ArchiveEntryReadFails`, `LookupGitSHA` (its own lock acquisition), `MergeFingerprint` / `InsertFingerprint` (under the re-taken lock), and `PutFile`. Bloom false positives need no branch: the exact index answers nil for them, the same as a filter miss.

### `FingerprintQuery.tla`

Here the digests' bytes matter, so `DigestOf[k][b]` gives them: a byte is its two hex digits, and a pattern character is a digit with its case. The operators follow the code:

- `NewDigestMatcher` sets `B` only when `hex.DecodeString` succeeds, i.e. for an even number of digits of either case.
- `DigestMatch` is `DigestMatcher.Match`: the size check, then a byte prefix, or a prefix of the lower-case `String()`.
- `GetDigest` returns a zero digest (not nil) for a digest never computed.
- `FingerprintMatch` never matches `*`.
- `FindMatchingFingerprint` sends `git`/`gitsha` with 20 decoded bytes to `GetFingerprintByGitSHA` and everything else to the store's first-match scan (`FindInStore`).
- `FindFilesWithFingerprint` (the command's `FindFiles`) looks the found fingerprint up again by its git sha, then lists the Files pointing at the fingerprint that lookup returned.

`SpecMatch` is spec 4.8's rule, and `FindMatchesReference` compares the two on every store state with no call in progress. `FindListsFilesOfFingerprint` checks that the File matches printed for a fingerprint are exactly the Files pointing at it. The find command first restores the persisted store, and `loadSerializedCache` rebuilds the git-sha index and Bloom filter from every fingerprint's current git sha (`RestoredLookup`: the highest id with that sha wins, as the later write to the map does). So the lookups see the rebuilt index, not the one the scan left.

### `Passthrough.tla`

The copier (`io.Copy` into a `MultiWriter` of the two pipes, then the deferred closes), the hasher (`CalculateSums` to EOF, send on `fpResult`) and the consumer (the tar loop with `len(fpResult) == 0` and `consumeRemainder`, `ReadAll`, or a json decoder that may stop before EOF) are three processes. A pipe write blocks until the reader has taken all of its bytes. The source gives `NChunks` chunks and may fail; the parser needs the first `ContentEnd` bytes and may leave the rest. A failed source read leads to the same two deferred `Close` calls as EOF. `PartialFingerprintNotInterned` states spec 4.2 and 4.3: no container fingerprint is interned for a source that failed.

### `ArchiveScan.tla`

One `deepScanWorker` takes its inputs from the work channel in the order the walk classified them (`Classify`: docker saves, archives, packages). A stack of frames models the Go recursion, one frame per container being read, holding the locals of its read loop. Each input is a tree: name, suffix, kind, whether the open step succeeds, whether the stream ends cleanly, and the entries in reader order.

- `StatCacheHit` / `StartScan`: the fast path of `IdentifyArchiveContents` and `IdentifyPackageContents` (`GetStatFingerprint`, `FindFilesWithFingerprint`, `GetArchiveFile`), or a new scan.
- `Open` / `OpenFails`: the open step of zip (`ReadAll`, `zip.NewReader`), compressed tar (`Decompress`) and rpm.
- `SkipDirectory`, `RestartReader` (tar's `ErrHeader` restart), `ReaderError`, `FingerprintFile`, `EnterContainer` (depth + 1, never compared with the limit), `FinishArchive` (`PutFile`, `PutArchiveFile`, `PutStatFingerprint`).
- Docker: `EnterLayer`, `SkipMetadata`, `ReadManifest` (with `ImageInspectWithRaw(m.RepoTags[0])`), `FinishLayer`, `FinishImage` (assembly by manifest position) and `DockerPanics` (an untagged manifest entry, or a manifest longer than the names).

`FindArchiveFilesContainingFingerprint` (the find command's `FindArchives`) is the query over this module's store: for every File with the fingerprint, every ArchiveFile with that File among its entries, once per such entry.

The daemon is a fixed map `denotes` from names to image configs, plus the manifest `docker save` writes. The container fingerprint the passthrough delivers is abstracted to the container's content; its timing is in `Passthrough`.

### `GitScan.tla`

`InterestingGitRefs` is a filter over abstract refs. Per ref, the tree walker sends a File for every blob the store knows (`FileFromExistingBlob`) and queues the others on `blobArgs`. The blob goroutine turns each into a File (`FileFromBlob`) and closes `files` after `blobArgs` is drained. A ref whose URN `FindGitSourceByURN` finds is skipped (`StartRef`). The ref goroutine appends each File (`RecordBlob`) and then calls `PutGitSource`, which opens with the same URN lookup.

`FindGitSourcesContainingFingerprint` (the find command's `FindRepos`) lists every stored source once for each of its Files that points at the fingerprint.

`GitSources.tla` states what the phase promises without goroutines or channels. The refs are taken in order. A ref whose URN is already recorded is skipped. Otherwise its tree's Files reach the store one at a time, and then one source holding exactly those Files is recorded. `GitScan` instantiates it with a refinement mapping:

- `Refs` is the selected refs;
- `known` is the Files in the store, as `<<path, blob>>`;
- each source's Files are read as a set;
- `next` is the ref index.

`GitSourcesRefined` (the abstract `Spec`, with its weak fairness) is a property of the `git_scan` run.

### `Persistence.tla`

Sessions restore (`loadSerializedCache` and `Verify`), scan (puts that keep references valid), and persist (`os.Create`, then the yaml encoder writing one item per step). The process may be killed between any two steps. When torn writes are enabled, a kill can also cut an item after its id key. Such a cut item decodes its missing fields as zero. If the cut falls after a fingerprint's id, the restore succeeds with an empty fingerprint. If it falls after a File's id, the id 0 leaves a nil slot that `Verify` dereferences. The properties promise nothing about a session that restores a cut document, except that it does not panic, and `persist_torn_panic` shows that promise broken.

## Runs

| Run | Expect | What it shows |
|---|---|---|
| `store_workers` | pass | With honest stat sizes and possible read errors, two workers racing through the lookup/rescan window never intern a content twice (`NoDuplicateDigests`), and every File keeps pointing at a fingerprint of the content it was scanned with (`FileDenotesScannedBlob`). |
| `store_zero_gitsha` | violation of `FileDenotesScannedBlob` | A file read with a stale size has no git sha. It is interned under the zero key, and later unrelated content read the same way is merged into it. |
| `store_restored_find` | pass | With stat sizes that may change between stat and read, a fingerprint can be interned under the zero git sha and get its git sha from a later merge. `find` on the restored store still answers every git, gitsha and sha1 pattern as spec 4.8 says (`FindMatchesReference`): prefixes of odd and even length in either case, and full shas through the rebuilt index. `FindFiles` lists exactly the Files of the found fingerprint. |
| `passthrough_scanners` | pass | For the tar loop and `ReadAll`, with tar padding left unread and a source that may fail: a sent fingerprint means every byte was consumed (so skipping `consumeRemainder` is safe), the scan returns, and both goroutines end. |
| `passthrough_source_error` | violation of `PartialFingerprintNotInterned` | The first read of the source fails. `io.Copy`'s error is only logged, and the deferred `Close` calls end both pipes as at EOF. The hasher then interns the fingerprint of the bytes read so far as the container's fingerprint, and the tar loop sees a clean end. |
| `passthrough_undrained` | violation of `TeeGoroutinesEnd` | A json decoder that has its value, or a tar reader that fails mid-stream, stops reading. The copier blocks in a pipe write forever. |
| `archive_scan` | pass | This run covers every entry loop, both package formats, open failures, directories, bad headers, failing outer containers, the stat-cache fast path and docker saves. Over all of them, `EntriesComplete` (archives and docker layers list every entry), `ArchivesMatchSpec`, `ResultsMatchInput` and `ImagesFollowManifest` (layers named and ordered as the manifest says) all hold. After the scans, `FindArchivesDirect` holds: `find` names, for every entry content, exactly the archives that directly contain it, as computed from the inputs by the spec's recursion. The outer archive of a nested one is never named (the indirect search in the code is commented out). |
| `archive_nested_failure` | violation of `EntriesComplete` | A nested archive that fails part-way (truncated, mislabelled, or a cpio with one bad header) vanishes from its parent's entries. In a docker layer, a nil File takes its place instead: the layer's `readLoop` tests the layer, not the File. |
| `docker_image_names` | violation of `ImagesMatchNames` | Only saves of tagged images whose manifest.json decodes are enumerated, so the failure is the pairing itself. The names are paired with manifest entries by position. Two names tagging one image leave the second DockerImage without an ImageID, and a different manifest order swaps ImageIDs. |
| `persist_sessions` | pass | Over three sessions that may be killed between encoder writes, an item cut mid-way included (`TornWrites = TRUE`), a session whose `fingerprint.yaml` is the whole document of the last persist restores exactly the store that persist wrote, stat cache included (`PersistRoundTrip`). |
| `persist_torn_panic` | violation of `RestoreNeverPanics` | An item cut after its id key decodes with id 0. The restore ignores the load error, and `Verify` dereferences the nil slot, so every later run panics. |
| `git_scan` | pass | Over two clones whose refs share commits and blobs, every ref ends, and each GitRepoSource holds exactly one File per tree blob with its path and content. After the phase, `FindReposListsContainingSources` holds: `find` names, for every stored fingerprint, exactly the URNs of the selected refs whose tree holds its blob. The goroutine model refines `GitSources`, liveness included. |

Each property of a passing run has a mutant in `PROJECT.json`: a plausible bug in one mapped definition (a dropped rescan, a path-only dedup, an index not rebuilt on restore, an off-by-one id, a dropped entry, an archive lookup by path, layers in read order, a forgotten close, a drain never done, a URN that drops branch and tag, a stat cache not restored) that TLC then catches.

### Bounds and why they are enough

- **FingerprintStore**: two blobs of lengths 1 and 2, stat sizes {0,1,2}, one git and one non-git digest (the eight non-git kinds are handled alike), two paths, two workers, at most 3 file and 3 entry scans. That lets two entries of one blob race with a third scan behind them. Symmetry is over workers and paths, which are interchangeable model values. `store_restored_find` drops read errors (outcomes whole and resized) to stay within minutes; a resized read is what produces the zero-key fingerprints the rebuilt index has to handle.
- **FingerprintQuery**: digests of 2 bytes stand in for 20. Two git shas share their first byte, so prefix patterns can be ambiguous, and one sha1 starts with a zero digit, like the zero digest. The patterns are every prefix of every digest's hex and of the zero digest's, in lower and upper case, under `git`, `gitsha` and `sha1`: 90 patterns, checked in every quiescent state.
- **Passthrough**: 3 chunks of 2 bytes with content ending at byte 5, so a pipe write can be partly read and one byte of padding can remain.
- **ArchiveScan**: `Limit = 1`, two names and one blob. The inputs cover every suffix and outcome with up to two entries, nested containers one deep, a stat key given twice, and six docker saves (one name; two names in both manifest orders; two tags of one image; a repository saving two images; an image saved by id).
- **GitScan**: seven refs over two commits, with a blob at two paths and blobs the plain-file phase may already have put.
- **Persistence**: at most 2 fingerprints, 2 files, 1 archive and 3 sessions, which is enough for a kill in every field of every item kind.

### Fairness and termination

`Passthrough` and `GitScan` check liveness under weak fairness of each goroutine: the Go scheduler runs every runnable goroutine, and no goroutine here waits on a condition that can flicker. `GitSources` asks only weak fairness of its whole next-state relation: every selected ref is eventually skipped or recorded. Through the refinement, this follows from the goroutines' fairness. The other modules check safety only. `CHECK_DEADLOCK FALSE` is set everywhere, because every model ends in a state where the scan is over.

## Not modelled

- Hash algorithm internals: digests are abstract and injective.
- Decompression itself. Only whether `Decompress` fails at open is kept.
- The `filepath.Walk` callback's symlink handling, progress bars and logging.
- The docker daemon API beyond the name-to-image map: repo digests, tarsum, connection errors.
- Wildcard find patterns. `FingerprintMatcher.Match` returns false for `*` (`src/unnamed/part_017:32`, marked TODO), so `find *:<hex>` never finds anything, while spec 4.8 says it compares every populated digest. `SpecMatch` states the spec's rule, but the patterns checked leave `*` out: the divergence is plain from the code and needs no model checker.
- Duplicate lines in `FindRepos` and `FindArchives`. Both append a container once per matching entry, so a commit holding the blob at two paths, or an archive holding it twice, is printed twice. The properties compare sets. The duplicates are plain from the loops and only affect the output, so no run is spent on them.
- The archive depth limit. `fingerprintArchiveEntry` increments `depth`, but nothing compares it with `limit` (`src/unnamed/part_012:420`), so nested archives are unpacked at any depth, contrary to spec 4.5. `ArchivesMatchSpec` states the limit, and `archive_scan` checks it only over inputs no deeper than `Limit`. A chain one level deeper violates it, but the never-read parameter is plain from the code, so no run is spent on it.
- ARC eviction, which only loses cache hits, and mtime granularity of the stat key.
- CLI printing and the snapcat utility.
- Silent corruption from a torn `fingerprint.yaml`. A fingerprint cut after its id restores as an empty fingerprint with no error, and `Verify` accepts it. `Persistence` reaches that state, but no run states the prefix promise it breaks: the one violation run for torn writes shows the panic instead. Cuts inside a value (an even-length hex prefix of a digest) are not modelled; only cuts between keys are.
- `GitScan.SourceInTraversalOrder` is defined but no run checks it. TLC finds it violated: known blobs overtake queued ones, so a source's Files are not in tree order, as spec 4.6 requires. The hazards in `PROJECT.json` record this.
