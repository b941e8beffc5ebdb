------------------------- MODULE MCFingerprintStore -------------------------
(***************************************************************************)
(* Model-checking instance of FingerprintStore: two contents of different  *)
(* lengths, two paths, two concurrent archive workers, and find queries   *)
(* over the store they leave.                                              *)
(***************************************************************************)
EXTENDS FingerprintQuery, TLC

CONSTANTS b1, b2, w1, w2

\* b1 is one byte long, b2 two; a stat may also report 0.
MCBlobSize == [b \in Blobs |-> IF b = b1 THEN 1 ELSE 2]

MCSizes == {0, 1, 2}

\* One non-git digest stands for the eight algorithms the code treats alike;
\* sha1 is one a find pattern can name.
MCKinds == {"git", "sha1"}

\* Digests of two bytes stand for 20: a0b0 and a00b share their first byte,
\* as do no two sha1 digests, and 0ba0 starts with a zero digit.
MCDigestSize == 2

MCDigestOf ==
    [k \in MCKinds |->
       IF k = "git"
       THEN [b \in Blobs |-> IF b = b1 THEN <<<<10, 0>>, <<11, 0>>>>
                                      ELSE <<<<10, 0>>, <<0, 11>>>>]
       ELSE [b \in Blobs |-> IF b = b1 THEN <<<<0, 11>>, <<10, 0>>>>
                                      ELSE <<<<11, 0>>, <<0, 10>>>>]]

Upper(s) == [i \in DOMAIN s |-> [s[i] EXCEPT !.upper = s[i].v >= 10]]

\* Every prefix of every digest's hex string, and of the zero digest's, in
\* lower and upper case, under each algorithm name a sha1 or git digest has.
\* The wildcard is left out: FingerprintMatcher.Match never matches it.
MCPatterns ==
    LET strings == {String(MCDigestOf[k][b]) : k \in MCKinds, b \in Blobs}
                   \cup {String([i \in 1..MCDigestSize |-> <<0, 0>>])}
        prefixes == {SubSeq(s, 1, n) : s \in strings, n \in 1..2 * MCDigestSize}
    IN [algo : {"git", "gitsha", "sha1"}, hex : prefixes \cup {Upper(s) : s \in prefixes}]

WorkerSymmetry == Permutations({w1, w2})
PathSymmetry == Permutations(Paths)
Symmetry == WorkerSymmetry \cup PathSymmetry

=============================================================================
