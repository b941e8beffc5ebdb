---------------------------- MODULE MCArchiveScan ----------------------------
(***************************************************************************)
(* Inputs for ArchiveScan: the files the worker is given and their stat   *)
(* keys.  Which entry kinds a container can hold is fixed by its loop: ar  *)
(* archives hold no directories, only tar and zip entries can fail their  *)
(* header without failing a well-formed container, and a step that can    *)
(* fail before the first entry exists only for the scanners that have one. *)
(***************************************************************************)
EXTENDS ArchiveScan, FiniteSets, TLC

CONSTANTS n1, n2, b1, s1, s2

MCNames == {n1, n2}
MCBlobs == {b1}
MCStats == {s1, s2}

\* The suffixes of the run: one per entry loop and open step, both package
\* formats, and a compressed tar.
\* Docker saves.  The daemon holds two images: config "A" with layer
\* "l1", config "B" with layers "l2" then "l1", and config "C" with layer
\* "l3", which holds a truncated tar.  Names n1 and n2 are given
\* to ScanDockerImages.
Layers == {[name |-> "l1", ext |-> "", kind |-> "layer", opens |-> TRUE, ok |-> TRUE,
            blob |-> NoBlob, kids |-> <<Leaf("dir", n1, NoBlob), Leaf("file", n1, b1)>>],
           [name |-> "l2", ext |-> "", kind |-> "layer", opens |-> TRUE, ok |-> TRUE,
            blob |-> NoBlob, kids |-> <<Container(n2, ".tar", TRUE, TRUE, <<Leaf("file", n2, b1)>>)>>],
           [name |-> "l3", ext |-> "", kind |-> "layer", opens |-> TRUE, ok |-> TRUE,
            blob |-> NoBlob, kids |-> <<Leaf("file", n1, b1),
                                        Container(n2, ".tar", TRUE, FALSE, <<Leaf("file", n2, b1)>>)>>]}
LayerTar(id) == CHOOSE l \in Layers : l.name = id
ImageLayers == "A" :> <<"l1">> @@ "B" :> <<"l2", "l1">> @@ "C" :> <<"l3">>
MEntry(c, tags) == [config |-> c, layers |-> ImageLayers[c], tags |-> tags]
Meta(k, ok) == [name |-> k, ext |-> "", kind |-> k, opens |-> TRUE, ok |-> ok,
                blob |-> NoBlob, kids |-> <<>>]

\* An image tar: the layers of the manifest's images, the manifest and a
\* config json, in any order the daemon writes them.
SaveKids(man, mok) ==
    LET ids == UNION {ToSet(man[i].layers) : i \in DOMAIN man}
        parts == {LayerTar(id) : id \in ids} \cup {Meta("manifest", mok), Meta("meta", TRUE)}
    IN {p \in [1 .. Cardinality(parts) -> parts] : ToSet(p) = parts}

DockerSave(names, denotes, man) ==
    UNION {{[kind |-> "docker", stat |-> None,
             node |-> [name |-> "save", ext |-> "", kind |-> "image", opens |-> TRUE, ok |-> ok,
                       blob |-> NoBlob, names |-> names, denotes |-> denotes,
                       manifest |-> man, kids |-> kids]] :
               ok \in BOOLEAN, kids \in SaveKids(man, mok)} : mok \in BOOLEAN}

\* One name; two names in either manifest order; two tags of one image; a
\* repository name that saves two images; an image saved by id.
DockerWork ==
    {<<d>> : d \in
       DockerSave(<<n1>>, n1 :> "A", <<MEntry("A", <<n1>>)>>)
       \cup DockerSave(<<n1, n2>>, n1 :> "A" @@ n2 :> "B", <<MEntry("A", <<n1>>), MEntry("B", <<n2>>)>>)
       \cup DockerSave(<<n1, n2>>, n1 :> "A" @@ n2 :> "B", <<MEntry("B", <<n2>>), MEntry("A", <<n1>>)>>)
       \cup DockerSave(<<n1, n2>>, n1 :> "A" @@ n2 :> "A", <<MEntry("A", <<n1, n2>>)>>)
       \cup DockerSave(<<n1>>, n1 :> "A", <<MEntry("A", <<n1>>), MEntry("B", <<n1>>)>>)
       \cup DockerSave(<<n1>>, n1 :> "A", <<MEntry("A", <<>>)>>)}

\* The saves of images that have tags, whose manifest.json decodes: the
\* names given pick the images, and only the pairing of names with
\* manifest entries decides each image's ImageID.
DockerTaggedWork ==
    {w \in DockerWork :
        /\ \A i \in DOMAIN w[1].node.manifest : Tagged(w[1].node.manifest[i])
        /\ \A c \in ToSet(w[1].node.kids) : c.kind = "manifest" => c.ok}

MCExts == {".tar", ".tgz", ".zip", ".cpio", ".deb", ".rpm"}

ScannerOf(e) == (ArchiveScanners @@ PkgScanners)[e]

PE(s, n) == [kind |-> "path", stat |-> s, node |-> n]
Single(R) == {<<PE(s1, r)>> : r \in R}

\* The entries a container with suffix e can hold.
LeavesOf(e) ==
    LET l == Loop(ScannerOf(e))
    IN {Leaf("file", n, b1) : n \in MCNames}
         \cup (IF l = "ar" THEN {} ELSE {Leaf("dir", n1, NoBlob)})
         \cup (IF l \in {"tar", "zip"} THEN {Leaf("badheader", n1, NoBlob)} ELSE {})

\* The open and end outcomes a container with suffix e can have: only a
\* scanner with an open step fails it, and a zip has no stream end.
Outcomes(e) ==
    {<<o, k>> \in BOOLEAN \X BOOLEAN :
        /\ (HasOpenStep(ScannerOf(e)) \/ o)
        /\ (ScannerOf(e) # "zip" \/ k)}

\* Well-formed nested containers with at most one entry: a bad header
\* only in a tar, whose loop restarts past it.
Survives(e) == {l \in LeavesOf(e) : l.kind # "badheader" \/ Loop(ScannerOf(e)) = "tar"}
Nested == UNION {{Container(n, e, TRUE, TRUE, s) : n \in MCNames, s \in BoundedSeq(Survives(e), 1)} :
                   e \in {".tar", ".zip", ".deb", ".rpm"}}

\* Outermost containers of every suffix and outcome, with up to two
\* entries that are leaves or well-formed nested containers (height at most
\* 1, the limit of the run).
WellFormedRoots ==
    UNION {{Container(n1, e, oc[1], oc[2], s) :
              oc \in Outcomes(e), s \in BoundedSeq(LeavesOf(e) \cup Nested, 2)} :
             e \in MCExts}

\* Small inputs for the stat cache: two one-file tars, a tar holding a
\* copy of the first under another name, and a gzip tar that fails to open.
Inner == Container(n1, ".tar", TRUE, TRUE, <<Leaf("file", n1, b1)>>)
SmallRoots ==
    {Inner,
     Container(n2, ".tar", TRUE, TRUE, <<Leaf("file", n2, b1)>>),
     Container(n2, ".tar", TRUE, TRUE, <<[Inner EXCEPT !.name = n2]>>),
     Container(n1, ".tgz", FALSE, TRUE, <<>>)}

\* The same file given twice, and a file given twice after another.
StatWork ==
    {<<PE(s1, a), PE(s1, a)>> : a \in SmallRoots}
      \cup {<<PE(s1, b), PE(s2, a), PE(s2, a)>> : a, b \in SmallRoots}

\* A walk that also finds a plain file and a package before an archive:
\* the package is scanned after the archive, the plain file not here.
WalkWork ==
    {<<PE(s1, Leaf("file", n2, b1)),
       PE(s2, Container(n2, ".deb", TRUE, TRUE, <<Leaf("file", n2, b1)>>)),
       PE(s1, Inner)>>}

MCWork == Single(WellFormedRoots) \cup StatWork \cup WalkWork \cup DockerWork

\* A well-formed tar holding one container that fails: a truncated tar, a
\* zip or gzip tar that does not open (a file named like an archive that
\* is not one), or a cpio archive with a bad header; and an image whose
\* layer holds a truncated tar.
FailingNestedWork ==
    Single({Container(n1, ".tar", TRUE, TRUE, <<Leaf("file", n1, b1), c>>) :
              c \in {Container(n2, ".zip", FALSE, TRUE, <<>>),
                     Container(n2, ".tgz", FALSE, TRUE, <<>>),
                     Container(n2, ".tar", TRUE, FALSE, <<Leaf("file", n2, b1)>>),
                     Container(n2, ".cpio", TRUE, TRUE,
                               <<Leaf("badheader", n1, NoBlob), Leaf("file", n2, b1)>>)}})
      \cup {<<d>> : d \in DockerSave(<<n1>>, n1 :> "C", <<MEntry("C", <<n1>>)>>)}

=============================================================================
