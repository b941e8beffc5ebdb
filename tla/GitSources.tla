------------------------------ MODULE GitSources ------------------------------
(***************************************************************************)
(* What the git phase of a scan promises (spec 3 and 4.6), without its     *)
(* goroutines and channels.  The selected refs are taken in order.  A ref  *)
(* whose identity string is already recorded is skipped; otherwise the     *)
(* Files of its commit's tree are put into the store one at a time, in any *)
(* order, and once all of them are there one GitRepoSource holding them is *)
(* recorded.  A File is its <<path, blob>>; fingerprints are not visible   *)
(* here.                                                                   *)
(***************************************************************************)
EXTENDS Naturals, Sequences, SequencesExt

CONSTANTS
    Tree,         \* Tree[c]: the <<path, blob>> entries of commit c's tree
    Refs,         \* the refs the scan selects, in order
    InitialFiles  \* Files an earlier phase may already have put

VARIABLES
    known,    \* the Files in the store
    sources,  \* the recorded GitRepoSources: [urn, files] with files a set
    next      \* the index of the ref being scanned

vars == <<known, sources, next>>

\* The identity string urn:x-fp:git:<commit>:<branch>:<tag>: a tag ref
\* names the tag, any other ref the branch.
URN(r) ==
    <<r.commit, IF r.kind = "tag" THEN "" ELSE r.short,
                IF r.kind = "tag" THEN r.short ELSE "">>

Recorded(u) == \E i \in DOMAIN sources : sources[i].urn = u

Current == Refs[next]

Init ==
    /\ known \in SUBSET InitialFiles
    /\ sources = <<>>
    /\ next = 1

\* The ref's source is already recorded: nothing is scanned.
SkipRef ==
    /\ next <= Len(Refs)
    /\ Recorded(URN(Current))
    /\ next' = next + 1
    /\ UNCHANGED <<known, sources>>

\* One File of the current ref's tree reaches the store.
PutTreeFile ==
    /\ next <= Len(Refs)
    /\ ~Recorded(URN(Current))
    /\ \E e \in ToSet(Tree[Current.commit]) \ known :
          known' = known \cup {e}
    /\ UNCHANGED <<sources, next>>

\* Every File of the tree is in the store: the source is recorded with
\* exactly those Files.
RecordSource ==
    /\ next <= Len(Refs)
    /\ ~Recorded(URN(Current))
    /\ ToSet(Tree[Current.commit]) \subseteq known
    /\ sources' = Append(sources, [urn |-> URN(Current),
                                   files |-> ToSet(Tree[Current.commit])])
    /\ next' = next + 1
    /\ UNCHANGED known

Next == SkipRef \/ PutTreeFile \/ RecordSource

\* Every selected ref is eventually skipped or recorded.
Spec == Init /\ [][Next]_vars /\ WF_vars(Next)

=============================================================================
