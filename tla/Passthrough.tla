---------------------------- MODULE Passthrough ----------------------------
(***************************************************************************)
(* fingerprintPassthrough (src/unnamed/part_016, second file) and the      *)
(* scanners that consume its reader (src/unnamed/part_012,                 *)
(* src/scanner/docker.go).                                                 *)
(*                                                                         *)
(* Three goroutines share two io.Pipes and the channel fpResult (buffer 1): *)
(*   copier:   io.Copy(io.MultiWriter(hashWriter, wrapWrite), r), then the *)
(*             deferred wrapWrite.Close() and hashWriter.Close();          *)
(*   hasher:   CalculateSums(readerToHash) to EOF, PutFingerprint, send on *)
(*             fpResult, close it;                                         *)
(*   consumer: the scanner reading the returned reader, then (depending   *)
(*             on the scanner) draining it and receiving from fpResult.    *)
(*                                                                         *)
(* An io.Pipe Write blocks until readers have consumed all of its bytes;   *)
(* a Read takes any non-empty prefix of them.  The source r yields         *)
(* NChunks chunks of ChunkBytes bytes (io.Copy's reads) and may fail       *)
(* instead of yielding the next one.  The format parser has to read the    *)
(* first ContentEnd bytes; what follows (tar record padding, whitespace    *)
(* after a json value) it may leave unread.                                *)
(***************************************************************************)
EXTENDS Naturals

CONSTANTS
    NChunks,        \* chunks the source yields before EOF
    ChunkBytes,     \* bytes per chunk
    ContentEnd,     \* bytes the format parser must read to finish
    Modes,          \* consumer kinds: "tar", "json", "readall"
    SourceMayFail,  \* the source read may return an error
    ParseMayFail    \* the format parser may report an error mid-stream

Total == NChunks * ChunkBytes

ASSUME PassthroughAssumptions ==
    /\ NChunks \in Nat \ {0} /\ ChunkBytes \in Nat \ {0}
    /\ ContentEnd \in 1..Total
    /\ Modes \subseteq {"tar", "json", "readall"} /\ Modes # {}
    /\ SourceMayFail \in BOOLEAN /\ ParseMayFail \in BOOLEAN

VARIABLES
    mode,        \* which scanner consumes the reader
    srcRead,     \* chunks the copier has read from r
    srcFailed,   \* r returned an error
    copier,      \* copier goroutine's pc
    hashPending, \* unread bytes of the copier's current write to hashWriter
    hashClosed,  \* hashWriter closed
    hashed,      \* bytes the hasher has read
    hasher,      \* hasher goroutine's pc
    wrapPending, \* unread bytes of the copier's current write to wrapWrite
    wrapClosed,  \* wrapWrite closed
    consumed,    \* bytes the consumer has read
    fpBuf,       \* values buffered in fpResult (0 or 1)
    consumer     \* consumer's pc

vars == <<mode, srcRead, srcFailed, copier, hashPending, hashClosed, hashed,
          hasher, wrapPending, wrapClosed, consumed, fpBuf, consumer>>

Init ==
    /\ mode \in Modes
    /\ srcRead = 0
    /\ srcFailed = FALSE
    /\ copier = "read"
    /\ hashPending = 0
    /\ hashClosed = FALSE
    /\ hashed = 0
    /\ hasher = "copy"
    /\ wrapPending = 0
    /\ wrapClosed = FALSE
    /\ consumed = 0
    /\ fpBuf = 0
    /\ consumer = "parse"

-----------------------------------------------------------------------------
(* The copier goroutine.                                                   *)

\* io.Copy reads the next chunk from r, reaches EOF, or gets an error.
CopierRead ==
    /\ copier = "read"
    /\ \/ srcRead < NChunks /\ srcRead' = srcRead + 1 /\ copier' = "writeHash"
                            /\ UNCHANGED srcFailed
       \/ srcRead = NChunks /\ copier' = "closeWrap" /\ UNCHANGED <<srcRead, srcFailed>>
       \/ /\ SourceMayFail /\ srcRead < NChunks
          /\ srcFailed' = TRUE /\ copier' = "closeWrap" /\ UNCHANGED srcRead
    /\ UNCHANGED <<mode, hashPending, hashClosed, hashed, hasher, wrapPending,
                   wrapClosed, consumed, fpBuf, consumer>>

\* MultiWriter writes the chunk to hashWriter first.
CopierWriteHash ==
    /\ copier = "writeHash"
    /\ hashPending' = hashPending + ChunkBytes
    /\ copier' = "hashWait"
    /\ UNCHANGED <<mode, srcRead, srcFailed, hashClosed, hashed, hasher,
                   wrapPending, wrapClosed, consumed, fpBuf, consumer>>

\* The pipe Write returns once the hasher has read every byte.
HashWritten == hashPending = 0

\* A mutant of the pipe: Write returns before its bytes are read.
WrapWrittenBuffered == TRUE

\* The pipe Write returns once the consumer has read every byte.
WrapWritten == wrapPending = 0

\* MultiWriter then writes the chunk to wrapWrite.
CopierWriteWrap ==
    /\ copier = "hashWait"
    /\ HashWritten
    /\ wrapPending' = wrapPending + ChunkBytes
    /\ copier' = "wrapWait"
    /\ UNCHANGED <<mode, srcRead, srcFailed, hashPending, hashClosed, hashed,
                   hasher, wrapClosed, consumed, fpBuf, consumer>>

CopierWrapDone ==
    /\ copier = "wrapWait"
    /\ WrapWritten
    /\ copier' = "read"
    /\ UNCHANGED <<mode, srcRead, srcFailed, hashPending, hashClosed, hashed,
                   hasher, wrapPending, wrapClosed, consumed, fpBuf, consumer>>

\* The deferred closes run in reverse order of the defers: wrapWrite first.
\* Both are plain Close, so readers see io.EOF even when r failed.
CopierCloseWrap ==
    /\ copier = "closeWrap"
    /\ wrapClosed' = TRUE
    /\ copier' = "closeHash"
    /\ UNCHANGED <<mode, srcRead, srcFailed, hashPending, hashClosed, hashed,
                   hasher, wrapPending, consumed, fpBuf, consumer>>

\* A mutant of the copier: the deferred hashWriter.Close() forgotten.
CloseHashWriterForgotten == UNCHANGED hashClosed

\* defer hashWriter.Close()
CloseHashWriter == hashClosed' = TRUE

CopierCloseHash ==
    /\ copier = "closeHash"
    /\ CloseHashWriter
    /\ copier' = "done"
    /\ UNCHANGED <<mode, srcRead, srcFailed, hashPending, hashed, hasher,
                   wrapPending, wrapClosed, consumed, fpBuf, consumer>>

-----------------------------------------------------------------------------
(* The hasher goroutine.                                                   *)

\* CalculateSums' io.Copy reads whatever the copier has written.
HasherRead ==
    /\ hasher = "copy"
    /\ hashPending > 0
    /\ hashed' = hashed + hashPending
    /\ hashPending' = 0
    /\ UNCHANGED <<mode, srcRead, srcFailed, copier, hashClosed, hasher,
                   wrapPending, wrapClosed, consumed, fpBuf, consumer>>

\* At io.EOF: the digests are collected, PutFingerprint and
\* PutStatFingerprint run, the fingerprint is sent on fpResult (which has
\* room for it) and fpResult is closed.
HasherFinish ==
    /\ hasher = "copy"
    /\ hashPending = 0
    /\ hashClosed
    /\ fpBuf' = 1
    /\ hasher' = "done"
    /\ UNCHANGED <<mode, srcRead, srcFailed, copier, hashPending, hashClosed,
                   hashed, wrapPending, wrapClosed, consumed, consumer>>

-----------------------------------------------------------------------------
(* The consumer: the scanner goroutine and the scan function's tail.       *)

\* A mutant of PipeReader.Read: a whole chunk taken whatever is left.
ReadSizesChunk == 1..ChunkBytes

\* PipeReader.Read copies at most the unread rest of the current Write.
ReadSizes == 1..wrapPending

\* A Read of the passthrough reader takes a non-empty prefix of the bytes
\* the copier is writing: the format parser while parsing, ioutil.ReadAll
\* in consumeRemainder while draining.
ConsumerRead ==
    /\ consumer \in {"parse", "drain"}
    /\ wrapPending > 0
    /\ \E n \in ReadSizes :
         /\ consumed' = consumed + n
         /\ wrapPending' = wrapPending - n
    /\ UNCHANGED <<mode, srcRead, srcFailed, copier, hashPending, hashClosed,
                   hashed, hasher, wrapClosed, fpBuf, consumer>>

\* Where each scanner goes once it has what it parses: scanTarStream (and
\* the cpio, ar and docker tar loops) checks len(fpResult); the docker json
\* entries call <-fpCh right after Decode; ioutil.ReadAll only ends at EOF.
AfterParse(m) == IF m = "tar" THEN "check" ELSE "await"

\* tar.Reader.Next has read the end-of-archive blocks, or json.Decoder has
\* a complete value: the parser stops reading, padding may remain.
ParseStops ==
    /\ consumer = "parse"
    /\ mode \in {"tar", "json"}
    /\ consumed >= ContentEnd
    /\ consumer' = AfterParse(mode)
    /\ UNCHANGED <<mode, srcRead, srcFailed, copier, hashPending, hashClosed,
                   hashed, hasher, wrapPending, wrapClosed, consumed, fpBuf>>

\* The parser's Read returns io.EOF.  Before ContentEnd a tar reader treats
\* EOF at a header boundary as the end of the archive, a json decoder
\* reports an error and the caller still waits on fpCh.
ParseEOF ==
    /\ consumer = "parse"
    /\ wrapPending = 0
    /\ wrapClosed
    /\ consumer' = AfterParse(mode)
    /\ UNCHANGED <<mode, srcRead, srcFailed, copier, hashPending, hashClosed,
                   hashed, hasher, wrapPending, wrapClosed, consumed, fpBuf>>

\* The tar reader returns an error other than ErrHeader, or the decompressor
\* in front of it does (corrupt data, after at least one byte), or the
\* stream ends before the archive does: scanTarStream drains its entries
\* channel and returns nil, nil, leaving the passthrough reader where it
\* is.  A json decoder error is only logged and <-fpCh follows.
ParseFails ==
    /\ consumer = "parse"
    /\ mode \in {"tar", "json"}
    /\ \/ ParseMayFail /\ consumed > 0
       \/ wrapClosed /\ wrapPending = 0 /\ consumed < ContentEnd
    /\ consumer' = IF mode = "tar" THEN "done" ELSE "await"
    /\ UNCHANGED <<mode, srcRead, srcFailed, copier, hashPending, hashClosed,
                   hashed, hasher, wrapPending, wrapClosed, consumed, fpBuf>>

\* A mutant of the drain check: consumeRemainder skipped.
NeedsDrainNever == FALSE

\* if len(fpResult) == 0 { consumeRemainder(tarFile) }
NeedsDrain == fpBuf = 0

CheckResult ==
    /\ consumer = "check"
    /\ consumer' = IF NeedsDrain THEN "drain" ELSE "await"
    /\ UNCHANGED <<mode, srcRead, srcFailed, copier, hashPending, hashClosed,
                   hashed, hasher, wrapPending, wrapClosed, consumed, fpBuf>>

\* consumeRemainder's ReadAll returns at io.EOF.
DrainEOF ==
    /\ consumer = "drain"
    /\ wrapPending = 0
    /\ wrapClosed
    /\ consumer' = "await"
    /\ UNCHANGED <<mode, srcRead, srcFailed, copier, hashPending, hashClosed,
                   hashed, hasher, wrapPending, wrapClosed, consumed, fpBuf>>

\* <-fpResult, then PutFile and PutArchiveFile (not modelled here).
ReceiveFingerprint ==
    /\ consumer = "await"
    /\ fpBuf = 1
    /\ fpBuf' = 0
    /\ consumer' = "done"
    /\ UNCHANGED <<mode, srcRead, srcFailed, copier, hashPending, hashClosed,
                   hashed, hasher, wrapPending, wrapClosed, consumed>>

-----------------------------------------------------------------------------
Copier == CopierRead \/ CopierWriteHash \/ CopierWriteWrap \/ CopierWrapDone
          \/ CopierCloseWrap \/ CopierCloseHash
Hasher == HasherRead \/ HasherFinish
Consumer == ConsumerRead \/ ParseStops \/ ParseEOF \/ ParseFails \/ CheckResult
            \/ DrainEOF \/ ReceiveFingerprint

Next == Copier \/ Hasher \/ Consumer

\* The Go scheduler keeps running every goroutine that is not blocked.
Fairness == WF_vars(Copier) /\ WF_vars(Hasher) /\ WF_vars(Consumer)

Spec == Init /\ [][Next]_vars /\ Fairness

-----------------------------------------------------------------------------
TypeOK ==
    /\ mode \in Modes
    /\ srcRead \in 0..NChunks /\ srcFailed \in BOOLEAN
    /\ copier \in {"read", "writeHash", "hashWait", "wrapWait", "closeWrap",
                   "closeHash", "done"}
    /\ hashPending \in 0..Total /\ hashClosed \in BOOLEAN /\ hashed \in 0..Total
    /\ hasher \in {"copy", "done"}
    /\ wrapPending \in 0..Total /\ wrapClosed \in BOOLEAN /\ consumed \in 0..Total
    /\ fpBuf \in 0..1
    /\ consumer \in {"parse", "check", "drain", "await", "done"}

(***************************************************************************)
(* The container fingerprint is ready only after the consumer has read     *)
(* every byte the copier took from r.  This is what makes skipping         *)
(* consumeRemainder when len(fpResult) > 0 safe: the check races with the  *)
(* hasher's send, but a result already sent means nothing is left.         *)
(***************************************************************************)
ResultImpliesConsumed ==
    hasher = "done" => consumed = srcRead * ChunkBytes /\ hashed = consumed

(***************************************************************************)
(* A container fingerprint is interned only for a source read whole (spec  *)
(* 4.2: a fingerprint of a stream cut short is partial and must not be     *)
(* interned; spec 4.3: a tee error reaches the consumer).  The copier      *)
(* ends a failed io.Copy with the same deferred Close calls as a clean     *)
(* EOF, so the hasher cannot tell the two apart.                           *)
(***************************************************************************)
PartialFingerprintNotInterned == hasher = "done" => ~srcFailed

(***************************************************************************)
(* The scan function returns: scanTarStream, the docker entry loop or      *)
(* ReadAll reaches the end of its work instead of blocking on a pipe or    *)
(* on fpResult.                                                            *)
(***************************************************************************)
ScanReturns == <>(consumer = "done")

(***************************************************************************)
(* Both passthrough goroutines end, and the container fingerprint is       *)
(* interned (spec 4.3: if the consumer stops early the tee must drain the  *)
(* rest so the fingerprint still completes).                               *)
(***************************************************************************)
TeeGoroutinesEnd == <>(copier = "done" /\ hasher = "done")

=============================================================================
