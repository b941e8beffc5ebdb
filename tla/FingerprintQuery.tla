-------------------------- MODULE FingerprintQuery --------------------------
(***************************************************************************)
(* The find query over the store (binprint find <algo>:<hex>): parsing the *)
(* pattern (NewDigestMatcher, src/unnamed/part_011), matching a digest     *)
(* (DigestMatcher.Match) and a fingerprint (FingerprintMatcher.Match,      *)
(* src/unnamed/part_017, with Fingerprint.GetDigest, part_007), and        *)
(* scanner.FindMatchingFingerprint (src/scanner/cache.go), which sends a   *)
(* full-length git pattern to GetFingerprintByGitSHA and every other       *)
(* pattern to the store's linear scan.                                     *)
(*                                                                         *)
(* The find command restores the store a scan persisted, so a query sees   *)
(* the store of FingerprintStore in a state where no call is in progress,  *)
(* with the git-sha index and filter that loadSerializedCache rebuilt from *)
(* every fingerprint's git sha as it is now, not the scan's own index.     *)
(* Here the bytes of the digests matter: DigestOf gives them for every     *)
(* blob, a byte is its two hex digits and a hex character is a digit with  *)
(* its case.                                                               *)
(***************************************************************************)
EXTENDS FingerprintStore

CONSTANTS
    DigestOf,    \* DigestOf[k][b]: the bytes of the kind-k digest of blob b
    DigestSize,  \* bytes in a digest: sha1.Size, 20, for the git sha
    Patterns     \* find arguments the matcherFormat regexp accepts: [algo, hex]

Nibble == 0..15
Byte == Nibble \X Nibble
Char == [v : Nibble, upper : BOOLEAN]

\* The algorithms of matcherFormat, ^(\*|git|gitsha|sha1|sha256|sha384|sha512):
MatcherAlgos == {"*", "git", "gitsha", "sha1", "sha256", "sha384", "sha512"}

\* The algorithms GetDigest maps to the digest field of the same name.
NamedDigestAlgos == {"sha1", "sha256", "sha384", "sha512"}

ZeroBytes == [i \in 1..DigestSize |-> <<0, 0>>]

ASSUME QueryAssumptions ==
    /\ DigestSize \in Nat \ {0}
    /\ \A k \in Kinds :
         /\ DigestOf[k] \in [Blobs -> [1..DigestSize -> Byte]]
         /\ \A b, c \in Blobs : b # c => DigestOf[k][b] # DigestOf[k][c]
         /\ \A b \in Blobs : DigestOf[k][b] # ZeroBytes
    /\ Patterns \subseteq [algo : MatcherAlgos \cap ({"*", "git", "gitsha"} \cup Kinds),
                           hex : Seq(Char) \ {<<>>}]

\* Digest.Bytes(): the digest array; a digest never computed is all zero.
Bytes(k, x) == IF x = Zero THEN ZeroBytes ELSE DigestOf[k][x]

\* digest160.String: hex.EncodeToString, two lower-case digits per byte.
String(d) == [i \in 1..2 * Len(d) |->
                [v |-> d[(i + 1) \div 2][2 - (i % 2)], upper |-> FALSE]]

\* hex.DecodeString: digits of either case, two per byte; an odd length is
\* an error.
DecodeString(hex) ==
    IF Len(hex) % 2 = 1 THEN None
    ELSE [i \in 1..Len(hex) \div 2 |-> <<hex[2 * i - 1].v, hex[2 * i].v>>]

\* NewDigestMatcher on a pattern the regexp accepts: B is set only when the
\* hex decodes.
NewDigestMatcher(p) == [T |-> p.algo, P |-> p.hex, B |-> DecodeString(p.hex)]

\* DigestMatcher.Match: a B longer than the digest never matches; else a
\* byte prefix when B is set, a prefix of the lower-case hex string when not.
DigestMatch(m, d) ==
    /\ m.B # None => Len(m.B) <= Len(d)
    /\ IF m.B # None THEN IsPrefix(m.B, d) ELSE IsPrefix(m.P, String(d))

\* Fingerprint.GetDigest: the digest an algorithm name selects, nil for a
\* name it does not know.  The fields are arrays, so a digest never computed
\* is returned as zeros, not nil.
GetDigest(f, alg) ==
    CASE alg \in {"git", "gitsha"}            -> Bytes(GitSHA, f.d[GitSHA])
      [] alg \in NamedDigestAlgos \cap Kinds   -> Bytes(alg, f.d[alg])
      [] OTHER                                 -> None

\* A loadSerializedCache mutant: the index is not rebuilt, and find sees
\* the index the scan left.
RestoredLookupStale(g) == GetFingerprintByGitSHA(g)

\* loadSerializedCache step 1: gitSHAIndex[fingerprint.GitSHA] = id and
\* gitSHAFilter.Add for every fingerprint in id order, so the last
\* fingerprint with a git sha holds its key; GetFingerprintByGitSHA on the
\* restored store then answers from that index.
RestoredLookup(g) ==
    LET ids == {i \in DOMAIN fps : fps[i].d[GitSHA] = g}
    IN IF ids = {} THEN None ELSE Max(ids)

\* FingerprintMatcher.Match: the wildcard (and an empty algorithm) never
\* matches; otherwise the digest of the matcher's algorithm is compared.
FingerprintMatch(m, f) ==
    /\ m.T \notin {"*", ""}
    /\ GetDigest(f, m.T) # None
    /\ DigestMatch(m, GetDigest(f, m.T))

\* fingerprintInMemoryCache.FindMatchingFingerprint: the first fingerprint
\* of the slice that matches, under fingerprintsLock.
FindInStore(m) ==
    LET i == SelectInSeq(fps, LAMBDA f : FingerprintMatch(m, f))
    IN IF i = 0 THEN None ELSE i

\* scanner.FindMatchingFingerprint: a git or gitsha matcher whose bytes are a
\* whole sha goes to GetFingerprintByGitSHA; bytes no blob's git sha has are
\* never in the filter.  Every other matcher scans the store.
FindMatchingFingerprint(m) ==
    IF m.T \in {"git", "gitsha"} /\ m.B # None /\ Len(m.B) = DigestSize
    THEN LET g == {x \in Digests : Bytes(GitSHA, x) = m.B}
         IN IF g = {} THEN None ELSE RestoredLookup(CHOOSE x \in g : TRUE)
    ELSE FindInStore(m)

\* A FindFilesWithFingerprint mutant: the loop returns at its first match.
FindFilesFirstOnly(id) ==
    LET r == RestoredLookup(fps[id].d[GitSHA])
        m == IF r = None THEN {} ELSE {i \in DOMAIN files : files[i].fp = r}
    IN IF m = {} THEN {} ELSE {Min(m)}

\* fingerprintInMemoryCache.FindFilesWithFingerprint (scanner.FindFiles),
\* called by find on the fingerprint it found: the fingerprint is looked up
\* again by its git sha, then every File pointing at the one the lookup
\* returned is listed.
FindFilesWithFingerprint(id) ==
    LET r == RestoredLookup(fps[id].d[GitSHA])
    IN IF r = None THEN {} ELSE {i \in DOMAIN files : files[i].fp = r}

-----------------------------------------------------------------------------
(***************************************************************************)
(* What spec 4.8 says a query answers: the algorithm's digest (every       *)
(* populated digest for the wildcard) compared by byte prefix for an even  *)
(* number of hex digits and by prefix of the hex string for an odd one;    *)
(* the git-sha index only makes the full-sha case O(1).                    *)
(***************************************************************************)
AlgoKind(a) == IF a \in {"git", "gitsha"} THEN GitSHA ELSE a

SpecDigestMatch(hex, d) ==
    IF Len(hex) % 2 = 0 THEN IsPrefix(DecodeString(hex), d)
    ELSE IsPrefix(hex, String(d))

SpecMatch(p, f) ==
    IF p.algo = "*"
    THEN \E k \in Kinds : f.d[k] # Zero /\ SpecDigestMatch(p.hex, Bytes(k, f.d[k]))
    ELSE SpecDigestMatch(p.hex, Bytes(AlgoKind(p.algo), f.d[AlgoKind(p.algo)]))

QuiescentStore == \A w \in Workers : pc[w] = "idle"

(***************************************************************************)
(* find <algo>:<hex> on a store a scan left behind answers as spec 4.8     *)
(* says: a fingerprint it returns matches the pattern, and it returns      *)
(* nothing only when no stored fingerprint matches.  The full-sha lookup   *)
(* through the restored gitSHAIndex and filter must agree with the linear  *)
(* scan, whatever merges PutFingerprint made during the scan,              *)
(* including those that gave a fingerprint its git sha after it was        *)
(* indexed under the zero key.                                             *)
(***************************************************************************)
FindMatchesReference ==
    QuiescentStore =>
        \A p \in Patterns :
            LET r == FindMatchingFingerprint(NewDigestMatcher(p)) IN
            /\ r # None => SpecMatch(p, fps[r])
            /\ r = None => \A i \in DOMAIN fps : ~SpecMatch(p, fps[i])

(***************************************************************************)
(* The "File matches" find prints for a fingerprint are exactly the Files  *)
(* that point at it.  FindFilesWithFingerprint re-resolves the fingerprint *)
(* through the restored git-sha index, so it lists another fingerprint's  *)
(* Files, or none, whenever that index entry is not this fingerprint.      *)
(***************************************************************************)
FindListsFilesOfFingerprint ==
    QuiescentStore =>
        \A id \in DOMAIN fps :
            FindFilesWithFingerprint(id) = {i \in DOMAIN files : files[i].fp = id}

=============================================================================
