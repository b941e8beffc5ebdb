----------------------------- MODULE Persistence -----------------------------
(***************************************************************************)
(* The on-disk store across sessions (src/store/cache.go):                 *)
(* RestoreRememberedObjects at the start of a session (decode              *)
(* fingerprint.yaml, loadSerializedCache, Verify), the scan adding         *)
(* objects, and PersistRememberedObjects at its end (Verify,               *)
(* NewSerializedCache, os.Create, the yaml encoder streaming the document  *)
(* out).  The process may be killed at any point; a kill while the         *)
(* encoder writes leaves a prefix of the document on disk.                 *)
(*                                                                         *)
(* Data abstraction.  The store keeps fingerprints (one blob each), Files  *)
(* (path, fingerprint id), ArchiveFiles (File id, entry ids) and the stat  *)
(* cache (key to fingerprint id); ids are 0-based slice indexes, as in the *)
(* code.  Git repositories serialize like archives and are left out.  The *)
(* document is the sequence of its list items in field order of           *)
(* SerializedCache.  A prefix cut inside an item keeps its first fields;   *)
(* yaml decodes the missing ones (or a key with no value) as zero.  The    *)
(* scan itself is abstracted to puts that keep references valid (the puts  *)
(* are modelled in FingerprintStore and ArchiveScan).  The gob file is     *)
(* written first but never read (useGob = false) and is left out.          *)
(***************************************************************************)
EXTENDS Naturals, Sequences, SequencesExt

CONSTANTS
    Blobs,          \* fingerprint contents (model values)
    Paths,          \* file paths (model values)
    StatKeys,       \* stat-cache keys (model values)
    None,
    MaxFingerprints, MaxFiles, MaxArchives,   \* bounds on the store's size
    MaxSessions,    \* bound on the number of process runs
    TornWrites      \* whether a kill can cut the document inside an item

ASSUME MaxFingerprints >= 1 /\ MaxSessions >= 2 /\ TornWrites \in BOOLEAN

\* Id of the i-th element of a slice (Go indexes from 0).
Id(i) == i - 1
Ids(s) == {Id(i) : i \in DOMAIN s}

EmptyStore ==
    [fps |-> <<>>, files |-> <<>>, archives |-> <<>>,
     stat |-> [k \in StatKeys |-> None]]

VARIABLES
    store,      \* the session's in-memory store
    disk,       \* fingerprint.yaml: [kind |-> "absent", "garbled" or "doc", items]
    doc,        \* the document the running persist is writing
    phase,      \* "start", "scan", "persist", "done", "panicked"
    sessions,   \* processes started so far
    restored,   \* the store the last RestoreRememberedObjects returned
    diskOf      \* the store whose document disk holds (a prefix of)

vars == <<store, disk, doc, phase, sessions, restored, diskOf>>

----------------------------------------------------------------------------
(* NewSerializedCache: every reference becomes the target's cache id.      *)

Item(sec, id, val, ref, refs) ==
    [sec |-> sec, id |-> id, val |-> val, ref |-> ref, refs |-> refs]

\* The yaml field order of each kind of item: SerializedFingerprint (ID,
\* then the inline digests), SerializedFile (ID, Path, Fingerprint),
\* SerializedArchiveFile (ID, File, Entries), a StatCache entry (key, id).
Fields(sec) ==
    CASE sec = "fp"      -> <<"id", "val">>
      [] sec = "file"    -> <<"id", "val", "ref">>
      [] sec = "archive" -> <<"id", "ref", "refs">>
      [] sec = "stat"    -> <<"val", "ref">>

NewSerializedCache(s) ==
    [i \in DOMAIN s.fps |-> Item("fp", Id(i), s.fps[i], 0, <<>>)]
    \o [i \in DOMAIN s.files |->
          Item("file", Id(i), s.files[i].path, s.files[i].fp, <<>>)]
    \o [i \in DOMAIN s.archives |->
          Item("archive", Id(i), None, s.archives[i].file, s.archives[i].entries)]
    \o SetToSeq({Item("stat", 0, k, s.stat[k], <<>>) :
                   k \in {j \in StatKeys : s.stat[j] # None}})

\* An item whose text stops after its first n fields.  A yaml null
\* decodes to the zero value: 0 for ids, "" or zero digests, no entries.
Torn(it, n) ==
    LET kept == {Fields(it.sec)[j] : j \in 1 .. n}
    IN [it EXCEPT !.id   = IF "id" \in kept THEN @ ELSE 0,
                  !.val  = IF "val" \in kept THEN @ ELSE None,
                  !.ref  = IF "ref" \in kept THEN @ ELSE 0,
                  !.refs = IF "refs" \in kept THEN @ ELSE <<>>]

----------------------------------------------------------------------------
(* loadSerializedCache over a decoded document.                            *)

Section(d, sec) == SelectSeq(d, LAMBDA it : it.sec = sec)

\* "Mismatched ... id": the first item of a section whose ID is not its
\* index stops the load with an error, leaving nil in the slot.
IdsMismatch(d) ==
    \E sec \in {"fp", "file", "archive"} :
        \E i \in DOMAIN Section(d, sec) : Section(d, sec)[i].id # Id(i)

\* v.Fingerprints[sf.Fingerprint], v.Files[eID], v.Files[sa.File] and
\* v.Fingerprints[fpID] index the slices decoded before: an id beyond them
\* is an index-out-of-range panic.
RefsOutOfRange(d) ==
    \/ \E it \in ToSet(Section(d, "file")) \cup ToSet(Section(d, "stat")) :
          it.ref \notin Ids(Section(d, "fp"))
    \/ \E it \in ToSet(Section(d, "archive")) :
          ~(({it.ref} \cup ToSet(it.refs)) \subseteq Ids(Section(d, "file")))

LoadedWithoutStat(d) ==
    [fps      |-> [i \in DOMAIN Section(d, "fp") |-> Section(d, "fp")[i].val],
     files    |-> [i \in DOMAIN Section(d, "file") |->
                     [path |-> Section(d, "file")[i].val,
                      fp   |-> Section(d, "file")[i].ref]],
     archives |-> [i \in DOMAIN Section(d, "archive") |->
                     [file    |-> Section(d, "archive")[i].ref,
                      entries |-> Section(d, "archive")[i].refs]],
     stat     |-> [k \in StatKeys |-> None]]

\* The store loadSerializedCache builds when no check fails.
Loaded(d) ==
    [fps      |-> [i \in DOMAIN Section(d, "fp") |-> Section(d, "fp")[i].val],
     files    |-> [i \in DOMAIN Section(d, "file") |->
                     [path |-> Section(d, "file")[i].val,
                      fp   |-> Section(d, "file")[i].ref]],
     archives |-> [i \in DOMAIN Section(d, "archive") |->
                     [file    |-> Section(d, "archive")[i].ref,
                      entries |-> Section(d, "archive")[i].refs]],
     stat     |-> [k \in StatKeys |->
                     IF \E it \in ToSet(Section(d, "stat")) : it.val = k
                     THEN (CHOOSE it \in ToSet(Section(d, "stat")) : it.val = k).ref
                     ELSE None]]

----------------------------------------------------------------------------
(* The session.                                                            *)

Init ==
    /\ store = EmptyStore
    /\ disk = [kind |-> "absent", items |-> <<>>]
    /\ doc = <<>>
    /\ phase = "start"
    /\ sessions = 1
    /\ restored = EmptyStore
    /\ diskOf = EmptyStore

\* RestoreRememberedObjects.  A missing file or a decode error (an empty
\* file is io.EOF) returns nil and the session keeps its empty store.
\* Otherwise loadSerializedCache runs, its error is ignored, and Verify
\* reads every slot: after a "Mismatched ... id" error the slot is nil
\* and v.Files[id].CacheID() panics; a reference out of range panics in
\* the load itself.  Either way the process dies.
Unreadable(dk) == dk.kind # "doc" \/ dk.items = <<>>

RestoreRememberedObjects ==
    /\ phase = "start"
    /\ \/ /\ Unreadable(disk)
          /\ store' = EmptyStore /\ restored' = EmptyStore
          /\ phase' = "scan"
       \/ /\ ~Unreadable(disk)
          /\ IdsMismatch(disk.items) \/ RefsOutOfRange(disk.items)
          /\ phase' = "panicked"
          /\ UNCHANGED <<store, restored>>
       \/ /\ ~Unreadable(disk)
          /\ ~IdsMismatch(disk.items) /\ ~RefsOutOfRange(disk.items)
          /\ store' = Loaded(disk.items) /\ restored' = Loaded(disk.items)
          /\ phase' = "scan"
    /\ UNCHANGED <<disk, doc, sessions, diskOf>>

\* The scan's puts, as they change the slices: PutFingerprint and PutFile
\* append a new object (after their dedup scans), PutArchiveFile appends
\* an archive whose File is new to the archives, PutStatFingerprint adds
\* or replaces a key.
PutFingerprint(b) ==
    /\ phase = "scan"
    /\ Len(store.fps) < MaxFingerprints
    /\ b \notin ToSet(store.fps)
    /\ store' = [store EXCEPT !.fps = Append(@, b)]
    /\ UNCHANGED <<disk, doc, phase, sessions, restored, diskOf>>

PutFileOffByOne(p, i) ==
    /\ phase = "scan"
    /\ Len(store.files) < MaxFiles
    /\ [path |-> p, fp |-> i] \notin ToSet(store.files)
    /\ store' = [store EXCEPT !.files = Append(@, [path |-> p, fp |-> i + 1])]
    /\ UNCHANGED <<disk, doc, phase, sessions, restored, diskOf>>

PutFile(p, i) ==
    /\ phase = "scan"
    /\ Len(store.files) < MaxFiles
    /\ [path |-> p, fp |-> i] \notin ToSet(store.files)
    /\ store' = [store EXCEPT !.files = Append(@, [path |-> p, fp |-> i])]
    /\ UNCHANGED <<disk, doc, phase, sessions, restored, diskOf>>

PutArchiveFile(f, es) ==
    /\ phase = "scan"
    /\ Len(store.archives) < MaxArchives
    /\ \A a \in ToSet(store.archives) : a.file # f
    /\ store' = [store EXCEPT !.archives = Append(@, [file |-> f, entries |-> es])]
    /\ UNCHANGED <<disk, doc, phase, sessions, restored, diskOf>>

PutStatFingerprint(k, i) ==
    /\ phase = "scan"
    /\ store.stat[k] # i
    /\ store' = [store EXCEPT !.stat[k] = i]
    /\ UNCHANGED <<disk, doc, phase, sessions, restored, diskOf>>

\* PersistRememberedObjects: Verify (ids equal slice indexes, which holds
\* of every store the puts build), NewSerializedCache, then
\* os.Create("fingerprint.yaml") truncates the file.
PersistRememberedObjects ==
    /\ phase = "scan"
    /\ doc' = NewSerializedCache(store)
    /\ disk' = [kind |-> "doc", items |-> <<>>]
    /\ diskOf' = store
    /\ phase' = "persist"
    /\ UNCHANGED <<store, sessions, restored>>

\* The yaml encoder flushes its buffer to the file.
WriteItem ==
    /\ phase = "persist"
    /\ Len(disk.items) < Len(doc)
    /\ disk' = [disk EXCEPT !.items = Append(@, doc[Len(@) + 1])]
    /\ UNCHANGED <<store, doc, phase, sessions, restored, diskOf>>

\* ymlEncoder.Close and yamlFile.Close: the session ends.
FinishPersist ==
    /\ phase = "persist"
    /\ Len(disk.items) = Len(doc)
    /\ phase' = "done"
    /\ UNCHANGED <<store, disk, doc, sessions, restored, diskOf>>

\* The next process starts (after a clean exit, a kill or a panic).
NewSession ==
    /\ sessions < MaxSessions
    /\ phase' = "start"
    /\ sessions' = sessions + 1
    /\ doc' = <<>>

\* A session ends: normally, by a panic, or killed while scanning or
\* between two writes of the encoder.
Restart ==
    /\ phase \in {"scan", "persist", "done", "panicked"}
    /\ NewSession
    /\ UNCHANGED <<store, disk, restored, diskOf>>

\* Killed inside a write: the next item is cut after n of its fields, or
\* inside a key or value so that the yaml no longer parses.
KillMidItem ==
    /\ phase = "persist"
    /\ Len(disk.items) < Len(doc)
    /\ LET it == doc[Len(disk.items) + 1]
       IN \/ /\ TornWrites
             /\ \E n \in (IF it.sec = "stat" THEN 1 ELSE 0) .. Len(Fields(it.sec)) - 1 :
                   disk' = [disk EXCEPT !.items = Append(@, Torn(it, n))]
          \/ disk' = [disk EXCEPT !.kind = "garbled"]
    /\ NewSession
    /\ UNCHANGED <<store, restored, diskOf>>

Next ==
    \/ RestoreRememberedObjects
    \/ \E b \in Blobs : PutFingerprint(b)
    \/ \E p \in Paths, i \in Ids(store.fps) : PutFile(p, i)
    \/ \E f \in Ids(store.files), es \in BoundedSeq(Ids(store.files), 1) :
          PutArchiveFile(f, es)
    \/ \E k \in StatKeys, i \in Ids(store.fps) : PutStatFingerprint(k, i)
    \/ PersistRememberedObjects
    \/ WriteItem
    \/ FinishPersist
    \/ Restart
    \/ KillMidItem

Spec == Init /\ [][Next]_vars

----------------------------------------------------------------------------
(* Properties.                                                             *)

StoreOK(s) ==
    /\ s.fps \in Seq(Blobs \cup {None})
    /\ \A f \in ToSet(s.files) : f.path \in Paths \cup {None} /\ f.fp \in Ids(s.fps)
    /\ \A a \in ToSet(s.archives) :
          ({a.file} \cup ToSet(a.entries)) \subseteq Ids(s.files)
    /\ \A k \in StatKeys : s.stat[k] \in Ids(s.fps) \cup {None}

TypeOK ==
    /\ StoreOK(store) /\ StoreOK(restored) /\ StoreOK(diskOf)
    /\ disk.kind \in {"absent", "garbled", "doc"}
    /\ phase \in {"start", "scan", "persist", "done", "panicked"}
    /\ sessions \in 1 .. MaxSessions

\* Spec 4.4 and 7 (StoreInconsistency): whatever fingerprint.yaml holds,
\* RestoreRememberedObjects either loads a store that verifies or
\* discards it and starts empty; it never brings the process down.
RestoreNeverPanics == phase # "panicked"

\* Spec property 6 (serialization round-trip): a session whose
\* fingerprint.yaml is the whole document of the last persist restores
\* exactly the store that persist wrote, stat cache included, whatever
\* earlier sessions did: killed mid-item, panicked on a torn file, or
\* restored a cut document and persisted again.  (A session that restores
\* a cut document gets no such promise: an item cut after its id decodes
\* its missing fields as zero, and load and Verify accept it.)
PersistRoundTrip ==
    (phase = "scan" /\ disk.kind = "doc" /\ disk.items = NewSerializedCache(diskOf))
        => restored = diskOf

=============================================================================
