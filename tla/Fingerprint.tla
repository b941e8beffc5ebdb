----------------------------- MODULE Fingerprint -----------------------------
(***************************************************************************)
(* The record.Fingerprint value (src/unnamed/part_007) and the pure        *)
(* operations the store builds on: computing it (CalculateSums with the    *)
(* size check of GitShaHasher.Done), matching (Is) and merging             *)
(* (UpdateWith).                                                           *)
(*                                                                         *)
(* Data abstraction.  A blob is a model value standing for its bytes.      *)
(* The digest of kind k of blob b is written b itself: digests of          *)
(* different blobs differ and digests of one blob agree, which is all the  *)
(* store can observe of them.  Zero is the all-zero digest ("not           *)
(* computed").  Kinds is a subset of the nine algorithms; all but the git  *)
(* sha are handled alike by the code, so one or two of them suffice.       *)
(***************************************************************************)
EXTENDS Naturals

CONSTANTS
    Blobs,      \* contents that may be scanned (model values)
    BlobSize,   \* BlobSize[b]: number of bytes of blob b
    Kinds,      \* digest algorithms modelled; must contain "git"
    Zero        \* the zero-valued digest of every kind

GitSHA == "git"

ASSUME FingerprintAssumptions ==
    /\ GitSHA \in Kinds
    /\ Zero \notin Blobs
    /\ BlobSize \in [Blobs -> Nat]

Digests == Blobs \cup {Zero}

\* The Fingerprint struct: one digest per kind plus Size (part_007:16-28).
FingerprintRec(Sizes) == [d : [Kinds -> Digests], size : Sizes]

\* GitShaHasher.Done discards the digest (sends nil, which CalculateSums
\* ignores) when the number of bytes hashed differs from the size declared
\* in the "blob <size>\0" header.
GitDigest(b, declared) == IF declared = BlobSize[b] THEN b ELSE Zero

\* CalculateSums(data, size) on a fresh Fingerprint whose copy succeeded:
\* Size takes the declared size, every hasher sees the whole of blob b,
\* the git hasher is built with the declared size.
CalculateSums(b, declared) ==
    [d    |-> [k \in Kinds |-> IF k = GitSHA THEN GitDigest(b, declared) ELSE b],
     size |-> declared]

\* CalculateSums when io.Copy returns an error: every digest is drained
\* and dropped, only the Size assigned before hashing remains.
FailedSums(declared) == [d |-> [k \in Kinds |-> Zero], size |-> declared]

\* The populated digests of a fingerprint.
Populated(f) == {f.d[k] : k \in {j \in Kinds : f.d[j] # Zero}}

\* Fingerprint.Is for two distinct Fingerprint values: the size check is
\* the "cheap negative case", then any non-zero digest of f equal to the
\* same kind of digest of of.
SizesConflict(f, of) == f.size # 0 /\ of.size # 0 /\ f.size # of.size

Is(f, of) ==
    /\ ~SizesConflict(f, of)
    /\ \E k \in Kinds : f.d[k] # Zero /\ f.d[k] = of.d[k]

\* Fingerprint.UpdateWith: fill every zero-valued digest and a zero Size
\* from of; populated fields are never overwritten.
UpdateWith(f, of) ==
    [d    |-> [k \in Kinds |-> IF f.d[k] = Zero THEN of.d[k] ELSE f.d[k]],
     size |-> IF f.size = 0 THEN of.size ELSE f.size]

=============================================================================
