----------------------------- MODULE Downloads -----------------------------
(***************************************************************************)
(* Reading blobs while the storage blocks they lie in are combined, freed  *)
(* and written again: FileDownloadService, api/stream, the downloads in    *)
(* flight and the cache of StorageBlocksManager.                           *)
(*                                                                         *)
(* StorageBlocks has every statement of the job worker.  Here the worker   *)
(* does what matters to somebody who reads: it combines the residual       *)
(* blocks, moves the references one by one, frees what is left, and        *)
(* stores other blob blocks in what is free.                               *)
(***************************************************************************)
EXTENDS Integers, Sequences, SequencesExt, FiniteSets

CONSTANTS
    Streams, Slices,\* requests that download a whole blob, and a range of one
    Blobs,
    Parts,          \* Parts[b]: the blob blocks of a blob, linked from the start
    Size,           \* bytes of a blob block
    Residual,       \* the blob blocks stored at the start, one a storage block
    Coming,         \* the blob blocks somebody has inserted and is going to store
    CONFIG_MAX_NUMBER_OF_CACHED_BLOCKS,
    RangeChunk,     \* 4 MiB: what a range without an end is cut to
    Ranges,         \* the ranges asked for: first byte and last byte or Open
    MaxFailures     \* bound: reads of a backend that fail

BlobBlocks == Range(Residual) \cup Coming
Open == -1

ASSUME BlobBlocksHaveBytes ==
    /\ Residual \in Seq(BlobBlocks) /\ Residual # <<>>
    /\ Size \in [BlobBlocks -> Nat \ {0}] /\ Parts \in [Blobs -> Seq(BlobBlocks)]
ASSUME RangesAreParsed ==
    /\ \A range \in Ranges : range[1] \in Nat /\ range[2] \in Nat \cup {Open}
    /\ RangeChunk \in Nat
ASSUME CacheHasALimit == CONFIG_MAX_NUMBER_OF_CACHED_BLOCKS \in Nat

VARIABLES
    file, info,     \* content of a storage block, and what its iv and tag decrypt
    refs, freed,    \* blobblocks_storageblocks, and the free list
    cache,          \* StorageBlocksCache, least recently used first
    fetch,          \* inFlightRequests and how far each of them is
    pc, request, rows, got, \* a request: the bytes wanted, their rows, the parts read
    todo, waiting,  \* parts <<request, index>> not begun, and that wait for a download
    worker, source, target, arriving, \* the job worker
    misread,        \* history: requests that read no row, or two, for a blob block
    overtaken,      \* history: requests that lost a block they had still to read
    failures        \* reads that have failed

storage == <<file, info, refs, freed>>
reading == <<pc, request, rows, got, todo, waiting>>
job == <<worker, source, target, arriving>>
history == <<misread, overtaken>>
vars == <<storage, cache, fetch, reading, job, history, failures>>

Readers == Streams \cup Slices
Least(m, n) == IF m < n THEN m ELSE n
Greatest(m, n) == IF m < n THEN n ELSE m

StorageBlocks == 1..(Len(Residual) + 1)
Combined == Len(Residual) + 1
BlockBytes(b) == [i \in 1..Size[b] |-> <<b, i>>]
Joined(blobBlocks) == FlattenSeq([k \in DOMAIN blobBlocks |-> BlockBytes(blobBlocks[k])])
Length(blobBlocks) == Len(Joined(blobBlocks))
BlobBytes(blob) == Joined(Parts[blob])
TotalSize(blob) == Length(Parts[blob])
NoFetch == [at |-> "none", bytes |-> <<>>, iv |-> <<>>]
NoRequest == [blob |-> 0, range |-> <<0, 0>>, stream |-> FALSE]
Reference(b, s, offset) == [blobBlock |-> b, storageBlock |-> s, offset |-> offset]
RefsOf(b) == {r \in refs : r.blobBlock = b}

Init ==
    /\ file = [s \in StorageBlocks |-> IF s = Combined THEN <<>> ELSE BlockBytes(Residual[s])]
    /\ info = file
    /\ refs = {Reference(Residual[s], s, 0) : s \in 1..Len(Residual)}
    /\ freed = {} /\ cache = <<>>
    /\ fetch = [s \in StorageBlocks |-> NoFetch]
    /\ pc = [d \in Readers |-> "idle"] /\ request = [d \in Readers |-> NoRequest]
    /\ rows = [d \in Readers |-> <<>>] /\ got = [d \in Readers |-> <<>>]
    /\ todo = {} /\ waiting = {}
    /\ worker = "idle" /\ source = 0 /\ target = 0 /\ arriving = {}
    /\ misread = {} /\ overtaken = {} /\ failures = 0

(***************************************************************************)
(* StorageBlocksCache.                                                     *)
(***************************************************************************)
Holds(entries, s) == \E i \in DOMAIN entries : entries[i].block = s
Place(entries, s) == CHOOSE i \in DOMAIN entries : entries[i].block = s
Without(entries, s) == IF Holds(entries, s) THEN RemoveAt(entries, Place(entries, s)) ELSE entries
Cached(s) == Holds(cache, s)
TryServe(s) == cache[Place(cache, s)]

\* Mutant: pruned down to one entry more than the limit.
PruneCacheIfFull_Late ==
    LET pruneCount == Len(cache) - CONFIG_MAX_NUMBER_OF_CACHED_BLOCKS - 1 IN
    IF pruneCount <= 0 THEN cache ELSE SubSeq(cache, pruneCount + 1, Len(cache))

\* The entries not used for longest go, down to the limit.
PruneCacheIfFull ==
    LET pruneCount == Len(cache) - CONFIG_MAX_NUMBER_OF_CACHED_BLOCKS IN
    IF pruneCount <= 0 THEN cache ELSE SubSeq(cache, pruneCount + 1, Len(cache))

\* Pruned first, added then.
AddToCache(s, bytes) ==
    cache' = Append(Without(PruneCacheIfFull, s), [block |-> s, bytes |-> bytes])

(***************************************************************************)
(* api/stream and FileDownloadService.                                     *)
(***************************************************************************)
\* QueryBlobStorageInfo: a row for each reference of each blob block, by its offset, and
\* so none for a blob block that is still being stored.
StorageInfo(blob) ==
    LET Row(k, r) == [offset |-> Length(SubSeq(Parts[blob], 1, k - 1)),
                      size |-> Size[r.blobBlock], storageBlock |-> r.storageBlock,
                      storageOffset |-> r.offset]
        References(k) == SetToSeq(RefsOf(Parts[blob][k]))
    IN FlattenSeq([k \in DOMAIN Parts[blob] |->
                     [i \in DOMAIN References(k) |-> Row(k, References(k)[i])]])

\* A range without an end is one chunk long; both ends are inclusive.
ParseRangeHeader(range, totalSize) ==
    LET inclusiveEnd == IF range[2] = Open THEN range[1] + RangeChunk - 1 ELSE range[2]
        rangedEnd == Least(inclusiveEnd, totalSize - 1)
    IN [start |-> range[1], length |-> rangedEnd - range[1] + 1]

\* Mutant: the end of the overlap forgets how far the range starts before the block.
ComputeOverlap_FromBlock(offset, length, entry) ==
    LET Clamp(n) == Least(Greatest(n, 0), entry.size)
        from == Clamp(offset - entry.offset)
        to == Clamp(from + length)
    IN [offset |-> from, size |-> to - from, storageBlock |-> entry.storageBlock,
        storageOffset |-> entry.storageOffset + from]

ComputeOverlap(offset, length, entry) ==
    LET Clamp(n) == Least(Greatest(n, 0), entry.size)
        from == Clamp(offset - entry.offset)
        to == Clamp(offset - entry.offset + length)
    IN [offset |-> from, size |-> to - from, storageBlock |-> entry.storageBlock,
        storageOffset |-> entry.storageOffset + from]

\* The overlaps of a range with the rows, without the empty ones.
Overlaps(blob, range) ==
    LET slice == ParseRangeHeader(range, TotalSize(blob))
        entries == StorageInfo(blob)
        Overlap(i) == ComputeOverlap(slice.start, slice.length, entries[i])
    IN FlattenSeq([i \in DOMAIN entries |->
                     IF Overlap(i).size > 0 THEN <<Overlap(i)>> ELSE <<>>])

Begin(d, r, parts) ==
    /\ pc[d] = "idle"
    /\ pc' = [pc EXCEPT ![d] = "reading"]
    /\ request' = [request EXCEPT ![d] = r]
    /\ rows' = [rows EXCEPT ![d] = parts]
    /\ got' = [got EXCEPT ![d] = [i \in DOMAIN parts |-> <<>>]]
    /\ todo' = todo \cup ({d} \X DOMAIN parts)
    /\ misread' = IF \E k \in DOMAIN Parts[r.blob] : Cardinality(RefsOf(Parts[r.blob][k])) # 1
                  THEN misread \cup {d} ELSE misread
    /\ UNCHANGED <<storage, cache, fetch, waiting, job, overtaken, failures>>

DownloadBlob(d, blob) ==
    Begin(d, [blob |-> blob, range |-> <<0, Open>>, stream |-> TRUE], StorageInfo(blob))

DownloadBlobSlice(d, blob, range) ==
    Begin(d, [blob |-> blob, range |-> range, stream |-> FALSE], Overlaps(blob, range))

\* subarray: what lies past the end of the buffer is left out.
Part(row, bytes) == SubSeq(bytes, row.storageOffset + 1,
                           Least(row.storageOffset + row.size, Len(bytes)))
Read(d, i) == <<d, i>> \notin todo \cup waiting
Fails(d) == IF request[d].stream THEN "stuck" ELSE "failed"

\* DownloadPart: a stream reads its parts one after the other, a slice all at once.
\* A block comes from the cache, or from a download in flight, or from a new one.
DownloadPart(d, i) ==
    LET s == rows[d][i].storageBlock IN
    /\ pc[d] = "reading" /\ <<d, i>> \in todo
    /\ request[d].stream => \A j \in 1..(i - 1) : Read(d, j)
    /\ todo' = todo \ {<<d, i>>}
    /\ IF Cached(s)
       THEN /\ got' = [got EXCEPT ![d][i] = Part(rows[d][i], TryServe(s).bytes)]
            /\ cache' = Append(Without(cache, s), TryServe(s))
            /\ UNCHANGED <<pc, fetch, waiting>>
       ELSE IF fetch[s].at = "rejected"
       THEN pc' = [pc EXCEPT ![d] = Fails(d)] /\ UNCHANGED <<cache, fetch, got, waiting>>
       ELSE /\ waiting' = waiting \cup {<<d, i>>}
            /\ fetch' = [fetch EXCEPT ![s].at = IF @ = "none" THEN "read" ELSE @]
            /\ UNCHANGED <<pc, cache, got>>
    /\ UNCHANGED <<storage, request, rows, job, history, failures>>

(***************************************************************************)
(* DownloadAndDecryptStorageBlock, at most one for each storage block.     *)
(***************************************************************************)
WaitingFor(s) == {w \in waiting : rows[w[1]][w[2]].storageBlock = s}

\* The promise stays in inFlightRequests, and whoever asks for it gets the error.  The
\* reader of a stream is not told and waits.
Reject(s) ==
    /\ fetch' = [fetch EXCEPT ![s] = [NoFetch EXCEPT !.at = "rejected"]]
    /\ pc' = [d \in Readers |-> IF \E w \in WaitingFor(s) : w[1] = d THEN Fails(d) ELSE pc[d]]
    /\ waiting' = waiting \ WaitingFor(s)
    /\ UNCHANGED <<storage, cache, request, rows, got, todo, job, history>>

ReadFails(s) ==
    /\ fetch[s].at = "read" /\ failures < MaxFailures
    /\ failures' = failures + 1
    /\ Reject(s)

DownloadEncryptedStorageBlock(s) ==
    /\ fetch[s].at = "read"
    /\ failures' = failures
    /\ IF file[s] = <<>>
       THEN Reject(s)
       ELSE /\ fetch' = [fetch EXCEPT ![s] = [at |-> "info", bytes |-> file[s], iv |-> <<>>]]
            /\ UNCHANGED <<storage, cache, reading, job, history>>

QueryEncryptionInfo(s) ==
    /\ fetch[s].at = "info"
    /\ fetch' = [fetch EXCEPT ![s].at = "decrypt", ![s].iv = info[s]]
    /\ UNCHANGED <<storage, cache, reading, job, history, failures>>

\* Mutant: of the parts that wait for one download, one is answered.
Decrypt_AnswersOne(s) ==
    LET answered == CHOOSE w \in WaitingFor(s) : TRUE IN
    /\ fetch[s].at = "decrypt" /\ fetch[s].bytes = fetch[s].iv
    /\ AddToCache(s, fetch[s].bytes)
    /\ got' = [got EXCEPT ![answered[1]][answered[2]] =
                          Part(rows[answered[1]][answered[2]], fetch[s].bytes)]
    /\ waiting' = waiting \ {answered}
    /\ fetch' = [fetch EXCEPT ![s] = NoFetch]
    /\ UNCHANGED <<storage, pc, request, rows, todo, job, history, failures>>

Decrypt(s) ==
    /\ fetch[s].at = "decrypt"
    /\ failures' = failures
    /\ IF fetch[s].bytes # fetch[s].iv
       THEN Reject(s)
       ELSE /\ AddToCache(s, fetch[s].bytes)
            /\ got' = [d \in Readers |-> [i \in DOMAIN got[d] |->
                        IF <<d, i>> \in WaitingFor(s) THEN Part(rows[d][i], fetch[s].bytes)
                                                      ELSE got[d][i]]]
            /\ waiting' = waiting \ WaitingFor(s)
            /\ fetch' = [fetch EXCEPT ![s] = NoFetch]
            /\ UNCHANGED <<storage, pc, request, rows, todo, job, history>>

(***************************************************************************)
(* The job worker: one combination, its garbage, and later uploads.        *)
(***************************************************************************)
CombineResidualBlocks ==
    /\ worker = "idle" /\ source = 0
    /\ file' = [file EXCEPT ![Combined] = FlattenSeq([s \in 1..Len(Residual) |-> file[s]])]
    /\ info' = [info EXCEPT ![Combined] = file'[Combined]]
    /\ worker' = "move" /\ source' = 1
    /\ UNCHANGED <<refs, freed, cache, fetch, reading, target, arriving, history, failures>>

MoveReference ==
    /\ worker = "move"
    /\ refs' = refs \cup {Reference(Residual[source], Combined,
                                    Length(SubSeq(Residual, 1, source - 1)))}
    /\ worker' = "drop"
    /\ UNCHANGED <<file, info, freed, cache, fetch, reading, source, target, arriving,
                   history, failures>>

RemoveReferences ==
    /\ worker = "drop"
    /\ refs' = {r \in refs : r.storageBlock # source}
    /\ worker' = IF source < Len(Residual) THEN "move" ELSE "idle"
    /\ source' = source + 1
    /\ UNCHANGED <<file, info, freed, cache, fetch, reading, target, arriving,
                   history, failures>>

FreeUnreferencedStorageBlock(s) ==
    /\ worker = "idle" /\ source > Len(Residual) /\ s # Combined
    /\ s \notin freed /\ \A r \in refs : r.storageBlock # s
    /\ file' = [file EXCEPT ![s] = <<>>]
    /\ freed' = freed \cup {s}
    /\ overtaken' = overtaken \cup {d \in Readers : \E i \in DOMAIN rows[d] :
           /\ rows[d][i].storageBlock = s
           /\ <<d, i>> \in waiting \cup IF pc[d] = "reading" THEN todo ELSE {}}
    /\ UNCHANGED <<info, refs, cache, fetch, reading, job, misread, failures>>

StoreFile(b, s) ==
    /\ worker = "idle" /\ s \in freed /\ b \in Coming \ arriving
    /\ file' = [file EXCEPT ![s] = BlockBytes(b)]
    /\ freed' = freed \ {s}
    /\ arriving' = arriving \cup {b}
    /\ worker' = "info" /\ target' = s
    /\ UNCHANGED <<info, refs, cache, fetch, reading, source, history, failures>>

UpdateStorageBlockInfo ==
    /\ worker = "info"
    /\ info' = [info EXCEPT ![target] = file[target]]
    /\ worker' = "uncache"
    /\ UNCHANGED <<file, refs, freed, cache, fetch, reading, source, target, arriving,
                   history, failures>>

RemoveFromCache ==
    /\ worker = "uncache"
    /\ cache' = Without(cache, target)
    /\ worker' = "refer"
    /\ UNCHANGED <<storage, fetch, reading, source, target, arriving, history, failures>>

AddBlobBlockStorage ==
    /\ worker = "refer"
    /\ refs' = refs \cup {Reference(info[target][1][1], target, 0)}
    /\ worker' = "idle"
    /\ UNCHANGED <<file, info, freed, cache, fetch, reading, source, target, arriving,
                   history, failures>>

Work ==
    \/ CombineResidualBlocks \/ MoveReference \/ RemoveReferences
    \/ \E s \in StorageBlocks : FreeUnreferencedStorageBlock(s)
    \/ \E b \in Coming, s \in StorageBlocks : StoreFile(b, s)
    \/ UpdateStorageBlockInfo \/ RemoveFromCache \/ AddBlobBlockStorage

Fetch(s) == DownloadEncryptedStorageBlock(s) \/ QueryEncryptionInfo(s) \/ Decrypt(s)

Next ==
    \/ \E d \in Streams, blob \in Blobs : DownloadBlob(d, blob)
    \/ \E d \in Slices, blob \in Blobs, range \in Ranges : DownloadBlobSlice(d, blob, range)
    \/ \E d \in Readers : \E i \in DOMAIN rows[d] : DownloadPart(d, i)
    \/ \E s \in StorageBlocks : Fetch(s) \/ ReadFails(s)
    \/ Work

Spec == Init /\ [][Next]_vars

\* The event loop goes on with every request, and backends answer.
FairSpec ==
    /\ Spec
    /\ \A d \in Readers : WF_vars(\E i \in DOMAIN rows[d] : DownloadPart(d, i))
    /\ \A s \in StorageBlocks : WF_vars(Fetch(s))

(***************************************************************************)
(* Properties.                                                             *)
(***************************************************************************)
Served(d) == pc[d] = "reading" /\ \A i \in DOMAIN rows[d] : Read(d, i)

\* The bytes a request asked for, as the range header defines them.
Wanted(d) ==
    LET blob == request[d].blob  range == request[d].range IN
    IF request[d].stream THEN BlobBytes(blob)
    ELSE SubSeq(BlobBytes(blob), range[1] + 1,
                Least(IF range[2] = Open THEN range[1] + RangeChunk ELSE range[2] + 1,
                      TotalSize(blob)))

\* The bytes asked for are the bytes served, unless the request read no row for a blob
\* block that was still being stored, or two for one that was being moved, or some
\* request read a block after it was freed.
ServedIsRight ==
    \A d \in Readers :
        Served(d) => FlattenSeq(got[d]) = Wanted(d) \/ d \in misread \/ overtaken # {}

\* Pruning before adding bounds the cache by one entry more than its limit.
CacheIsBounded ==
    /\ Len(cache) <= CONFIG_MAX_NUMBER_OF_CACHED_BLOCKS + 1
    /\ \A i, j \in DOMAIN cache : i # j => cache[i].block # cache[j].block

\* Every download is served in the end, unless a read failed or a block was freed
\* under a request.  After either the blocks concerned can be read no more.
DownloadsAreServed ==
    \A d \in Readers : pc[d] = "reading" ~> Served(d) \/ failures > 0 \/ overtaken # {}

=============================================================================
