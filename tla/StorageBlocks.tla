--------------------------- MODULE StorageBlocks ---------------------------
(***************************************************************************)
(* The life of storage blocks in the service: StorageBlocksManager, the    *)
(* table access of StorageBlocksController, the storing half of            *)
(* FileUploadProcessor and the storage half of GarbageColletor.            *)
(*                                                                         *)
(* One Node process runs the job worker (one job at a time, prefetch 1)    *)
(* and any number of HTTP requests that store a new revision ("revisers"). *)
(* They interleave at every await, so there is one action per database     *)
(* statement or backend call; code between two awaits belongs to the       *)
(* action before it.  A blob is one blob block here (blobs of several      *)
(* blocks are the catalogue's business, not the storage's), and a blob     *)
(* block is identified by its bytes, never by its row id.                  *)
(***************************************************************************)
EXTENDS Naturals, Sequences, FiniteSets

CONSTANTS
    BlobBlocks,       \* the byte strings clients upload
    Size,             \* Size[b]: length of b
    Worker,           \* the process that consumes the job queue
    Revisers,         \* HTTP requests that store a revision
    Nobody,           \* holder of a free lock
    NumberOfBackends, \* backends 1..NumberOfBackends, fastest tier first
    BLOCKSIZE,        \* CONST_BLOCKSIZE
    THRESHOLD,        \* CONST_NUMBER_OF_STORAGE_BLOCKS_COMBINATION_THRESHOLD
    MAX_REPLICATION,  \* CONST_STORAGEBLOCKS_MAX_REPLICATION
    Uploads,          \* blob blocks uploaded as files, through a job
    Revised,          \* blob blocks uploaded as revisions, by a request
    Expirable,        \* blob blocks whose files get deleted for good
    FreedBefore,      \* the process starts with this many storage blocks, all free
    MaxStorageBlocks, \* bound: rows ever inserted into storageblocks
    MaxCrashes        \* bound: crashes of the process

Procs == {Worker} \cup Revisers
Backends == 1..NumberOfBackends
IsLeast(k, S) == k \in S /\ \A l \in S : k <= l
StorageIds == 1..MaxStorageBlocks

ASSUME WorkerIsNoReviser == Worker \notin Revisers
ASSUME NobodyIsNoProcess == Nobody \notin Procs
ASSUME SizeAssumption == BlobBlocks # {} /\ Size \in [BlobBlocks -> 0..BLOCKSIZE]
ASSUME BoundsAssumption ==
    /\ NumberOfBackends \in Nat \ {0}
    /\ BLOCKSIZE \in Nat \ {0}
    /\ THRESHOLD \in Nat
    /\ MAX_REPLICATION \in Nat \ {0}
    /\ MaxStorageBlocks \in Nat \ {0}
    /\ FreedBefore \in 0..MaxStorageBlocks
    /\ MaxCrashes \in Nat
ASSUME UploadsAssumption ==
    Uploads \subseteq BlobBlocks /\ Revised \subseteq BlobBlocks /\ Expirable \subseteq BlobBlocks

VARIABLES
    \* tables
    blobBlocks,    \* blobblocks
    link,          \* link[b]: is b in blobs_blocks, and is its file still wanted
    refs,          \* blobblocks_storageblocks
    count,         \* storageblocks holds the rows 1..count
    info,          \* size, iv and authTag of a row: those of this content
    freed,         \* storageblocks_freed
    residual,      \* storageblocks_residual
    locs,          \* storagebackends_storageblocks
    \* storage backends
    files,
    \* memory of the process
    lock,          \* storageBlockAcquirementLock
    cache,         \* decrypted storage blocks of StorageBlocksCache
    pc, bb, blk, buf,           \* where each process is, and its locals
    job,                        \* the delivered, not yet acknowledged job
    rows, sources, pos, delta,  \* locals of CombineResidualBlocks
    moving, doomed, garbage, targets,  \* result sets the worker iterates over
    \* message broker and environment
    queue, submitted, crashes

catalog == <<blobBlocks, link, refs>>
table   == <<count, info, freed, residual>>
stores  == <<locs, files>>
memory  == <<lock, cache>>
locals  == <<bb, blk, buf>>
combine == <<rows, sources, pos, delta>>
results == <<moving, doomed, garbage, targets>>
outside == <<submitted, crashes>>
tables  == <<catalog, table>>
others  == <<job, combine, results, queue, outside>>
vars == <<catalog, table, stores, memory, pc, locals, job, combine, results,
          queue, outside>>

(***************************************************************************)
(* Contents of a storage block, rows and jobs.                             *)
(***************************************************************************)
\* What a storage block holds: blob blocks at offsets, and bytes in all.
Content == [data: SUBSET (BlobBlocks \X Nat), size: Nat]

\* size 0, iv "" and authTag "": no encrypted content belongs to the row.
\* It also stands for a missing file and for a missing cache entry.
Blank == [data |-> {}, size |-> 0]

Plain(b) == [data |-> {<<b, 0>>}, size |-> Size[b]]
Shifted(c, offset) == {<<x[1], x[2] + offset>> : x \in c.data}
Concat(c, d) == [data |-> c.data \cup Shifted(d, c.size), size |-> c.size + d.size]

Refs == [blobBlock: BlobBlocks, storageBlock: StorageIds, offset: Nat]
RefsTo(s) == {r \in refs : r.storageBlock = s}
RefsOf(b) == {r \in refs : r.blobBlock = b}

UploadJob(b)    == [type |-> "upload-file", blobBlock |-> b]
ReplicateJob(s) == [type |-> "replicate", storageBlock |-> s]
CombineJob      == [type |-> "combine-residual-blocks"]
CollectJob      == [type |-> "collect-garbage"]
NoJob           == [type |-> "none"]

Jobs == [type: {"upload-file"}, blobBlock: BlobBlocks]
        \cup [type: {"replicate"}, storageBlock: StorageIds]
        \cup {CombineJob, CollectJob}

Init ==
    /\ blobBlocks = {} /\ link = [b \in BlobBlocks |-> "none"] /\ refs = {}
    /\ count = FreedBefore /\ freed = 1..FreedBefore /\ residual = {}
    /\ info = [s \in StorageIds |-> Blank]
    /\ locs = [s \in StorageIds |-> {}]
    /\ files = [s \in StorageIds |-> [k \in Backends |-> Blank]]
    /\ lock = Nobody /\ cache = [s \in StorageIds |-> Blank]
    /\ pc = [p \in Procs |-> "idle"]
    /\ \E b \in BlobBlocks : bb = [p \in Procs |-> b]    \* unset
    /\ blk = [p \in Procs |-> 1] /\ buf = [p \in Procs |-> Blank]
    /\ job = NoJob
    /\ rows = <<>> /\ sources = {} /\ pos = 0 /\ delta = [s \in StorageIds |-> 0]
    /\ moving = {} /\ doomed = {} /\ garbage = {} /\ targets = {}
    /\ queue = <<>> /\ submitted = {} /\ crashes = 0

(***************************************************************************)
(* Control flow of one process.                                            *)
(***************************************************************************)
Goto(p, l) == pc' = [pc EXCEPT ![p] = l]

\* An exception leaves the handler: the worker never acknowledges its job and,
\* with prefetch 1, gets no other one; a request just ends.
Fail(p) == Goto(p, "failed")

\* The handler returns: the worker acknowledges the job.
Return(p) ==
    /\ Goto(p, IF p = Worker THEN "idle" ELSE "done")
    /\ job' = IF p = Worker THEN NoJob ELSE job

Send(jobs) == queue' = queue \o jobs

(***************************************************************************)
(* ProcessBlobBlockHashed: find the blob block, or insert it, store its    *)
(* bytes and reference them.                                               *)
(***************************************************************************)
FindBlobBlock(p) ==
    /\ pc[p] = "find"
    /\ Goto(p, IF bb[p] \in blobBlocks THEN "link" ELSE "add")
    /\ UNCHANGED <<tables, stores, memory, locals, others>>

\* sha256sum is unique: ER_DUP_ENTRY makes the function start over.
AddBlobBlock(p) ==
    /\ pc[p] = "add"
    /\ IF bb[p] \in blobBlocks
       THEN Goto(p, "find") /\ UNCHANGED blobBlocks
       ELSE Goto(p, "lock") /\ blobBlocks' = blobBlocks \cup {bb[p]}
    /\ UNCHANGED <<link, refs, table, stores, memory, locals, others>>

(* AcquireStorageBlock: the lock is held from before the SELECT of the free
   list until after the DELETE, or the INSERT of a new row. *)
\* Mutant: nobody waits for the lock.
LockFreeList_NoWait(p) ==
    /\ pc[p] = "lock"
    /\ lock' = p
    /\ Goto(p, "select")
    /\ UNCHANGED <<tables, stores, cache, locals, others>>

LockFreeList(p) ==
    /\ pc[p] = "lock"
    /\ lock = Nobody
    /\ lock' = p
    /\ Goto(p, "select")
    /\ UNCHANGED <<tables, stores, cache, locals, others>>

\* Mutant: the lock is released right after the SELECT.
SelectFreed_Unlocks(p) ==
    /\ pc[p] = "select"
    /\ lock' = Nobody
    /\ \/ freed = {} /\ Goto(p, "create") /\ UNCHANGED blk
       \/ /\ \E s \in freed : blk' = [blk EXCEPT ![p] = s]
          /\ Goto(p, "unfree")
    /\ UNCHANGED <<tables, stores, cache, bb, buf, others>>

SelectFreed(p) ==
    /\ pc[p] = "select"
    /\ \/ /\ freed = {}
          /\ Goto(p, "create")
          /\ UNCHANGED blk
       \/ /\ \E s \in freed : blk' = [blk EXCEPT ![p] = s]
          /\ Goto(p, "unfree")
    /\ UNCHANGED <<tables, stores, memory, bb, buf, others>>

\* Mutants of DeleteFreed: the row stays, or the lock does.
DeleteFreed_KeepsRow(p) ==
    /\ pc[p] = "unfree"
    /\ lock' = Nobody
    /\ Goto(p, "store")
    /\ UNCHANGED <<tables, stores, cache, locals, others>>

DeleteFreed_KeepsLock(p) ==
    /\ pc[p] = "unfree"
    /\ freed' = freed \ {blk[p]}
    /\ Goto(p, "store")
    /\ UNCHANGED <<catalog, count, info, residual, stores, memory, locals, others>>

DeleteFreed(p) ==
    /\ pc[p] = "unfree"
    /\ freed' = freed \ {blk[p]}
    /\ lock' = Nobody
    /\ Goto(p, "store")
    /\ UNCHANGED <<catalog, count, info, residual, stores, cache, locals, others>>

\* Mutant: the lock is released on the other branch only.
CreateBlock_KeepsLock(p) ==
    /\ pc[p] = "create"
    /\ count < MaxStorageBlocks
    /\ count' = count + 1
    /\ blk' = [blk EXCEPT ![p] = count + 1]
    /\ Goto(p, "store")
    /\ UNCHANGED <<catalog, info, freed, residual, stores, memory, bb, buf, others>>

CreateBlock(p) ==
    /\ pc[p] = "create"
    /\ count < MaxStorageBlocks
    /\ count' = count + 1
    /\ blk' = [blk EXCEPT ![p] = count + 1]
    /\ lock' = Nobody
    /\ Goto(p, "store")
    /\ UNCHANGED <<catalog, info, freed, residual, stores, cache, bb, buf, others>>

(* WriteStorageBlock *)
Fastest == 1    \* FindFastestBackendForWriting

StoreFile(p) ==
    /\ pc[p] = "store"
    /\ files' = [files EXCEPT ![blk[p]][Fastest] = buf[p]]
    /\ Goto(p, "info")
    /\ UNCHANGED <<tables, locs, memory, locals, others>>

UpdateStorageBlockInfo(p) ==
    /\ pc[p] = "info"
    /\ info' = [info EXCEPT ![blk[p]] = buf[p]]
    /\ Goto(p, "location")
    /\ UNCHANGED <<catalog, count, freed, residual, stores, memory, locals, others>>

\* Mutants of EndWrite: no replication scheduled, and the cache left alone.
EndWrite_NoReplication(p, jobs) ==
    /\ cache' = [cache EXCEPT ![blk[p]] = Blank]
    /\ Send(jobs)
    /\ IF p = Worker /\ job.type = "combine-residual-blocks"
       THEN Goto(p, "refs") /\ pos' = 0
       ELSE Goto(p, "reference") /\ UNCHANGED pos

EndWrite_KeepsCache(p, jobs) ==
    /\ UNCHANGED cache
    /\ Send(Append(jobs, ReplicateJob(blk[p])))
    /\ IF p = Worker /\ job.type = "combine-residual-blocks"
       THEN Goto(p, "refs") /\ pos' = 0
       ELSE Goto(p, "reference") /\ UNCHANGED pos

\* The synchronous tail of WriteStorageBlock, and the return to its caller.
EndWrite(p, jobs) ==
    /\ cache' = [cache EXCEPT ![blk[p]] = Blank]
    /\ Send(Append(jobs, ReplicateJob(blk[p])))
    /\ IF p = Worker /\ job.type = "combine-residual-blocks"
       THEN Goto(p, "refs") /\ pos' = 0
       ELSE Goto(p, "reference") /\ UNCHANGED pos

AddBlockLocation(p) ==
    /\ pc[p] = "location"
    /\ \/ /\ Fastest \in locs[blk[p]]
          /\ Fail(p)
          /\ UNCHANGED <<locs, cache, queue, pos>>
       \/ /\ Fastest \notin locs[blk[p]]
          /\ locs' = [locs EXCEPT ![blk[p]] = @ \cup {Fastest}]
          /\ IF buf[p].size < BLOCKSIZE
             THEN Goto(p, "residual") /\ UNCHANGED <<cache, queue, pos>>
             ELSE EndWrite(p, <<>>)
    /\ UNCHANGED <<tables, files, lock, locals, job, rows, sources, delta, results,
                   outside>>

PutOnResidualList(p) ==
    /\ pc[p] = "residual"
    /\ IF blk[p] \in residual
       THEN Fail(p) /\ UNCHANGED residual
       ELSE Goto(p, "count") /\ residual' = residual \cup {blk[p]}
    /\ UNCHANGED <<catalog, count, info, freed, stores, memory, locals, others>>

QueryResidualBlockCount(p) ==
    /\ pc[p] = "count"
    /\ EndWrite(p, IF Cardinality(residual) > THRESHOLD THEN <<CombineJob>> ELSE <<>>)
    /\ UNCHANGED <<tables, stores, lock, locals, job, rows, sources, delta, results,
                   outside>>

\* Mutant: the reference is never inserted.
AddBlobBlockStorage_Forgotten(p) ==
    /\ pc[p] = "reference"
    /\ Goto(p, "link")
    /\ UNCHANGED <<tables, stores, memory, locals, others>>

AddBlobBlockStorage(p) ==
    /\ pc[p] = "reference"
    /\ IF bb[p] \in blobBlocks /\ RefsOf(bb[p]) \cap RefsTo(blk[p]) = {}
       THEN /\ Goto(p, "link")
            /\ refs' = refs \cup
                   {[blobBlock |-> bb[p], storageBlock |-> blk[p], offset |-> 0]}
       ELSE Fail(p) /\ UNCHANGED refs
    /\ UNCHANGED <<blobBlocks, link, table, stores, memory, locals, others>>

\* FindOrCreateBlob and AddRevision: the blob exists and a file wants it.
LinkBlob(p) ==
    /\ pc[p] = "link"
    /\ IF bb[p] \in blobBlocks
       THEN Return(p) /\ link' = [link EXCEPT ![bb[p]] = "wanted"]
       ELSE Fail(p) /\ UNCHANGED <<link, job>>
    /\ UNCHANGED <<blobBlocks, refs, table, stores, memory, locals, combine,
                   results, queue, outside>>

Store(p) ==
    \/ FindBlobBlock(p) \/ AddBlobBlock(p)
    \/ LockFreeList(p) \/ SelectFreed(p) \/ DeleteFreed(p) \/ CreateBlock(p)
    \/ StoreFile(p) \/ UpdateStorageBlockInfo(p) \/ AddBlockLocation(p)
    \/ PutOnResidualList(p) \/ QueryResidualBlockCount(p)
    \/ AddBlobBlockStorage(p) \/ LinkBlob(p)

\* UploadRevision, called by a request with the bytes of the new revision.
StartRevision(p) ==
    /\ p \in Revisers
    /\ pc[p] = "idle"
    /\ \E b \in Revised : /\ bb' = [bb EXCEPT ![p] = b]
                          /\ buf' = [buf EXCEPT ![p] = Plain(b)]
    /\ Goto(p, "find")
    /\ UNCHANGED <<tables, stores, memory, blk, others>>

(***************************************************************************)
(* The job worker.                                                         *)
(***************************************************************************)
Deliver ==
    /\ pc[Worker] = "idle"
    /\ queue # <<>>
    /\ job' = Head(queue)
    /\ queue' = Tail(queue)
    /\ \/ /\ job'.type = "upload-file"
          /\ bb' = [bb EXCEPT ![Worker] = job'.blobBlock]
          /\ buf' = [buf EXCEPT ![Worker] = Plain(job'.blobBlock)]
          /\ Goto(Worker, "find")
          /\ UNCHANGED blk
       \/ /\ job'.type = "replicate"
          /\ blk' = [blk EXCEPT ![Worker] = job'.storageBlock]
          /\ Goto(Worker, "locations")
          /\ UNCHANGED <<bb, buf>>
       \/ /\ job'.type = "combine-residual-blocks"
          /\ Goto(Worker, "combine")
          /\ UNCHANGED locals
       \/ /\ job'.type = "collect-garbage"
          /\ Goto(Worker, "collect")
          /\ UNCHANGED locals
    /\ UNCHANGED <<tables, stores, memory, combine, results, outside>>

(* Replicate *)
\* Mutant: the backends that hold the block already are not left out.
FindReplicationBackends_All(ks) ==
    {k \in Backends : Cardinality({l \in Backends : l < k}) < MAX_REPLICATION}

FindReplicationBackends(ks) ==
    {k \in Backends \ ks : Cardinality({l \in Backends \ ks : l < k}) < MAX_REPLICATION}

QueryBlockLocations ==
    /\ pc[Worker] = "locations"
    /\ LET ks == locs[blk[Worker]] IN
       IF Cardinality(ks) >= MAX_REPLICATION \/ FindReplicationBackends(ks) = {}
       THEN Return(Worker) /\ UNCHANGED targets
       ELSE /\ Goto(Worker, IF ks = {} THEN "checkFree" ELSE "fetch")
            /\ targets' = FindReplicationBackends(ks)
            /\ UNCHANGED job
    /\ UNCHANGED <<tables, stores, memory, locals, combine, moving, doomed, garbage,
                   queue, outside>>

\* "This situation should never happen!!!" is thrown by the ELSE branch.
CheckFreeList ==
    /\ pc[Worker] = "checkFree"
    /\ IF blk[Worker] \in freed THEN Return(Worker) ELSE Fail(Worker) /\ UNCHANGED job
    /\ UNCHANGED <<tables, stores, memory, locals, combine, results, queue,
                   outside>>

\* FindFastestBackendForReading and ReadFile; {} when the row or the file is missing.
Stored(s) == {files[s][k] : k \in {l \in locs[s] : IsLeast(l, locs[s])}} \ {Blank}

FetchBlock ==
    /\ pc[Worker] = "fetch"
    /\ \/ /\ Stored(blk[Worker]) = {}
          /\ Fail(Worker)
          /\ UNCHANGED buf
       \/ /\ \E c \in Stored(blk[Worker]) : buf' = [buf EXCEPT ![Worker] = c]
          /\ Goto(Worker, "copy")
    /\ UNCHANGED <<tables, stores, memory, bb, blk, others>>

CopyFile ==
    /\ pc[Worker] = "copy"
    /\ \E k \in targets :
         /\ IsLeast(k, targets)
         /\ files' = [files EXCEPT ![blk[Worker]][k] = buf[Worker]]
    /\ Goto(Worker, "copied")
    /\ UNCHANGED <<tables, locs, memory, locals, others>>

AddReplicaLocation ==
    /\ pc[Worker] = "copied"
    /\ \E k \in targets :
         /\ IsLeast(k, targets)
         /\ IF k \in locs[blk[Worker]]
            THEN Fail(Worker) /\ UNCHANGED <<locs, targets, job>>
            ELSE /\ locs' = [locs EXCEPT ![blk[Worker]] = @ \cup {k}]
                 /\ targets' = targets \ {k}
                 /\ IF targets' = {} THEN Return(Worker)
                                    ELSE Goto(Worker, "copy") /\ UNCHANGED job
    /\ UNCHANGED <<tables, files, memory, locals, combine, moving, doomed, garbage,
                   queue, outside>>

(* CombineResidualBlocks *)
\* Every answer to the ORDER BY size DESC: the order of equal sizes is open.
ResidualRows ==
    {q \in [1..Cardinality(residual) -> residual] :
        \A i, j \in DOMAIN q : i < j => q[i] # q[j] /\ info[q[i]].size >= info[q[j]].size}

\* TryFindCombinationPermutation(slice(first - 1)): first fit from there on.
FirstFit(q, first) ==
    LET total[i \in 0..Len(q)] ==
            IF i < first THEN 0
            ELSE IF total[i-1] + info[q[i]].size <= BLOCKSIZE
                 THEN total[i-1] + info[q[i]].size
                 ELSE total[i-1]
    IN {i \in first..Len(q) : total[i-1] + info[q[i]].size <= BLOCKSIZE}

\* The loop breaks at the first slice in which more than one block fits.
Combines(q, first) == Cardinality(FirstFit(q, first)) > 1
IsCombination(q, S) ==
    \E first \in 1..Len(q) :
        /\ Combines(q, first) /\ S = FirstFit(q, first)
        /\ \A i \in 1..(first - 1) : ~Combines(q, i)

QueryResidualBlocks ==
    /\ pc[Worker] = "combine"
    /\ \E q \in ResidualRows :
         /\ rows' = q
         /\ \/ /\ \/ Cardinality(residual) < THRESHOLD
                  \/ \A i \in 1..Len(q) : ~Combines(q, i)
               /\ sources' = {}
               /\ Return(Worker)
            \/ /\ Cardinality(residual) >= THRESHOLD
               /\ \E S \in SUBSET (1..Len(q)) : IsCombination(q, S) /\ sources' = S
               /\ Goto(Worker, "read")
               /\ UNCHANGED job
    /\ pos' = 0
    /\ buf' = [buf EXCEPT ![Worker] = Blank]
    /\ UNCHANGED <<tables, stores, memory, bb, blk, delta, results, queue, outside>>

IsNextSource(i) == IsLeast(i, {j \in sources : j > pos})
IsLastSource(i) == \A j \in sources : j <= i

\* DownloadStorageBlock: from the cache, or from the fastest backend, decrypted
\* with the row's iv and authTag; {} when it throws.  (Eviction is a matter of
\* the cache's own module; here an entry stays until it is removed.)
Downloaded(s) == IF cache[s] # Blank THEN {cache[s]} ELSE Stored(s) \cap {info[s]}

ReadSource ==
    /\ pc[Worker] = "read"
    /\ \E i \in sources :
         /\ IsNextSource(i)
         /\ \/ /\ Downloaded(rows[i]) = {}
               /\ Fail(Worker)
               /\ UNCHANGED <<cache, delta, buf, pos>>
            \/ /\ \E c \in Downloaded(rows[i]) :
                    /\ cache' = [cache EXCEPT ![rows[i]] = c]
                    /\ buf' = [buf EXCEPT ![Worker] = Concat(@, c)]
               /\ delta' = [delta EXCEPT ![rows[i]] = buf[Worker].size]
               /\ pos' = i
               /\ Goto(Worker, IF IsLastSource(i) THEN "lock" ELSE "read")
    /\ UNCHANGED <<tables, stores, lock, bb, blk, job, rows, sources, results, queue,
                   outside>>

QueryBlobBlocksInStorageBlock ==
    /\ pc[Worker] = "refs"
    /\ \E i \in sources : /\ IsNextSource(i)
                          /\ pos' = i
                          /\ moving' = RefsTo(rows[i])
    /\ Goto(Worker, "move")
    /\ UNCHANGED <<tables, stores, memory, locals, job, rows, sources, delta, doomed,
                   garbage, targets, queue, outside>>

MovedOffset(r) == r.offset + delta[rows[pos]]

MoveReference ==
    /\ pc[Worker] = "move"
    /\ \E r \in moving :
         /\ moving' = moving \ {r}
         /\ IF r.blobBlock \in blobBlocks /\ RefsOf(r.blobBlock) \cap RefsTo(blk[Worker]) = {}
            THEN /\ refs' = refs \cup {[blobBlock |-> r.blobBlock,
                                        storageBlock |-> blk[Worker],
                                        offset |-> MovedOffset(r)]}
                 /\ UNCHANGED pc
            ELSE Fail(Worker) /\ UNCHANGED refs
    /\ UNCHANGED <<blobBlocks, link, table, stores, memory, locals, job, combine,
                   doomed, garbage, targets, queue, outside>>

RemoveReferencesToStorageBlockId ==
    /\ pc[Worker] = "move"
    /\ moving = {}
    /\ refs' = refs \ RefsTo(rows[pos])
    /\ IF IsLastSource(pos)
       THEN Return(Worker) /\ Send(<<CollectJob>>)
       ELSE Goto(Worker, "refs") /\ UNCHANGED <<job, queue>>
    /\ UNCHANGED <<blobBlocks, link, table, stores, memory, locals, combine,
                   results, outside>>

(* GarbageColletor.Execute *)
\* Hard deletion of expired files and DeleteBlob of what they leave behind.
CollectBlobs ==
    /\ pc[Worker] = "collect"
    /\ link' = [b \in BlobBlocks |-> IF link[b] = "expired" THEN "none" ELSE link[b]]
    /\ Goto(Worker, "findBlobBlocks")
    /\ UNCHANGED <<blobBlocks, refs, table, stores, memory, locals, others>>

FindUnreferencedBlobBlocks ==
    /\ pc[Worker] = "findBlobBlocks"
    /\ doomed' = {b \in blobBlocks : link[b] = "none"}
    /\ Goto(Worker, "nextBlobBlock")
    /\ UNCHANGED <<tables, stores, memory, locals, job, combine, moving, garbage,
                   targets, queue, outside>>

\* DeleteBlobBlock is two statements; foreign keys guard the second one.
DeleteBlobBlockStorage ==
    /\ pc[Worker] = "nextBlobBlock"
    /\ \E b \in doomed : /\ bb' = [bb EXCEPT ![Worker] = b]
                         /\ refs' = refs \ RefsOf(b)
    /\ Goto(Worker, "deleteBlobBlock")
    /\ UNCHANGED <<blobBlocks, link, table, stores, memory, blk, buf, others>>

DeleteBlobBlock ==
    /\ pc[Worker] = "deleteBlobBlock"
    /\ IF link[bb[Worker]] = "none" /\ RefsOf(bb[Worker]) = {}
       THEN /\ blobBlocks' = blobBlocks \ {bb[Worker]}
            /\ doomed' = doomed \ {bb[Worker]}
            /\ Goto(Worker, "nextBlobBlock")
       ELSE Fail(Worker) /\ UNCHANGED <<blobBlocks, doomed>>
    /\ UNCHANGED <<link, refs, table, stores, memory, locals, job, combine, moving,
                   garbage, targets, queue, outside>>

\* Mutant: whatever is on the residual list counts as garbage.
Unreferenced_Residual == {s \in 1..count : s \in residual}

Unreferenced == {s \in 1..count : RefsTo(s) = {} /\ s \notin freed}

FindUnreferencedStorageBlocks ==
    /\ pc[Worker] = "nextBlobBlock"
    /\ doomed = {}
    /\ garbage' = Unreferenced
    /\ Goto(Worker, "nextStorageBlock")
    /\ UNCHANGED <<tables, stores, memory, locals, job, combine, moving, doomed,
                   targets, queue, outside>>

\* FreeUnreferencedStorageBlock: remove the block from all its locations ...
FreeStorageBlock ==
    /\ pc[Worker] = "nextStorageBlock"
    /\ \/ /\ garbage = {}
          /\ Return(Worker)
          /\ UNCHANGED <<blk, garbage, targets>>
       \/ /\ \E s \in garbage : /\ blk' = [blk EXCEPT ![Worker] = s]
                                /\ garbage' = garbage \ {s}
                                /\ targets' = locs[s]
          /\ Goto(Worker, "deleteFile")
          /\ UNCHANGED job
    /\ UNCHANGED <<tables, stores, memory, bb, buf, combine, moving, doomed, queue,
                   outside>>

\* The host file system throws when the file is gone, rclone does not.
DeleteFile ==
    /\ pc[Worker] = "deleteFile"
    /\ \/ /\ targets = {}
          /\ Goto(Worker, "unresidual")
          /\ UNCHANGED files
       \/ \E k \in targets :
            /\ IsLeast(k, targets)
            /\ \/ /\ files' = [files EXCEPT ![blk[Worker]][k] = Blank]
                  /\ Goto(Worker, "deleteLocation")
               \/ /\ files[blk[Worker]][k] = Blank
                  /\ Fail(Worker)
                  /\ UNCHANGED files
    /\ UNCHANGED <<tables, locs, memory, locals, others>>

RemoveBlockLocation ==
    /\ pc[Worker] = "deleteLocation"
    /\ \E k \in targets : /\ IsLeast(k, targets)
                          /\ locs' = [locs EXCEPT ![blk[Worker]] = @ \ {k}]
                          /\ targets' = targets \ {k}
    /\ Goto(Worker, "deleteFile")
    /\ UNCHANGED <<tables, files, memory, locals, job, combine, moving, doomed, garbage,
                   queue, outside>>

\* ... and FreeBlock: off the residual list, onto the free list, reset the row.
DeleteResidual ==
    /\ pc[Worker] = "unresidual"
    /\ residual' = residual \ {blk[Worker]}
    /\ Goto(Worker, "insertFreed")
    /\ UNCHANGED <<catalog, count, info, freed, stores, memory, locals, others>>

InsertFreed ==
    /\ pc[Worker] = "insertFreed"
    /\ IF blk[Worker] \in freed
       THEN Fail(Worker) /\ UNCHANGED freed
       ELSE Goto(Worker, "reset") /\ freed' = freed \cup {blk[Worker]}
    /\ UNCHANGED <<catalog, count, info, residual, stores, memory, locals, others>>

ResetInfo ==
    /\ pc[Worker] = "reset"
    /\ info' = [info EXCEPT ![blk[Worker]] = Blank]
    /\ Goto(Worker, "nextStorageBlock")
    /\ UNCHANGED <<catalog, count, freed, residual, stores, memory, locals, others>>

Work ==
    \/ Deliver \/ Store(Worker)
    \/ QueryBlockLocations \/ CheckFreeList \/ FetchBlock \/ CopyFile \/ AddReplicaLocation
    \/ QueryResidualBlocks \/ ReadSource
    \/ QueryBlobBlocksInStorageBlock \/ MoveReference \/ RemoveReferencesToStorageBlockId
    \/ CollectBlobs \/ FindUnreferencedBlobBlocks \/ DeleteBlobBlockStorage
    \/ DeleteBlobBlock \/ FindUnreferencedStorageBlocks \/ FreeStorageBlock
    \/ DeleteFile \/ RemoveBlockLocation \/ DeleteResidual \/ InsertFreed \/ ResetInfo

(***************************************************************************)
(* The environment.                                                        *)
(***************************************************************************)
\* FileUploadReceiver.FinishUpload schedules the job for a complete upload.
FinishUpload ==
    /\ \E b \in Uploads \ submitted :
         /\ submitted' = submitted \cup {b}
         /\ Send(<<UploadJob(b)>>)
    /\ UNCHANGED <<tables, stores, memory, pc, locals, job, combine, results,
                   crashes>>

\* All files of b were soft deleted more than 30 days ago.
ExpireFiles ==
    /\ \E b \in Expirable : /\ link[b] = "wanted"
                            /\ link' = [link EXCEPT ![b] = "expired"]
    /\ UNCHANGED <<blobBlocks, refs, table, stores, memory, pc, locals, others>>

\* The process dies and restarts: its memory is lost, requests are gone, the
\* broker delivers the unacknowledged job again, before all others.
Crash ==
    /\ crashes < MaxCrashes
    /\ crashes' = crashes + 1
    /\ lock' = Nobody
    /\ cache' = [s \in StorageIds |-> Blank]
    /\ pc' = [p \in Procs |-> IF p = Worker \/ pc[p] = "idle" THEN "idle" ELSE "done"]
    /\ queue' = IF job = NoJob THEN queue ELSE <<job>> \o queue
    /\ job' = NoJob
    /\ UNCHANGED <<tables, stores, locals, combine, results, submitted>>

Next ==
    \/ Work
    \/ \E p \in Revisers : StartRevision(p) \/ Store(p)
    \/ FinishUpload \/ ExpireFiles \/ Crash

Spec == Init /\ [][Next]_vars

\* The event loop runs every continuation that is ready.
FairSpec ==
    /\ Spec
    /\ WF_vars(Work)
    /\ \A p \in Revisers : WF_vars(Store(p))

(***************************************************************************)
(* Properties.                                                             *)
(***************************************************************************)
Labels == {"idle", "done", "failed", "find", "add", "lock", "select", "unfree",
           "create", "store", "info", "location", "residual", "count", "reference",
           "link", "locations", "checkFree", "fetch", "copy", "copied", "combine",
           "read", "refs", "move", "collect", "findBlobBlocks", "nextBlobBlock",
           "deleteBlobBlock", "nextStorageBlock", "deleteFile", "deleteLocation",
           "unresidual", "insertFreed", "reset"}

CatalogOK ==
    /\ blobBlocks \subseteq BlobBlocks
    /\ link \in [BlobBlocks -> {"none", "wanted", "expired"}]
    /\ refs \subseteq Refs

TableOK ==
    /\ count \in 0..MaxStorageBlocks
    /\ info \in [StorageIds -> Content]
    /\ freed \subseteq StorageIds /\ residual \subseteq StorageIds

StoresOK ==
    /\ locs \in [StorageIds -> SUBSET Backends]
    /\ files \in [StorageIds -> [Backends -> Content]]
MemoryOK == lock \in Procs \cup {Nobody} /\ cache \in [StorageIds -> Content]
ControlOK ==
    pc \in [Procs -> Labels] /\ job \in Jobs \cup {NoJob} /\ queue \in Seq(Jobs)

LocalsOK ==
    /\ bb \in [Procs -> BlobBlocks]
    /\ blk \in [Procs -> StorageIds]
    /\ buf \in [Procs -> Content]

CombineOK ==
    /\ rows \in Seq(StorageIds) /\ sources \subseteq DOMAIN rows
    /\ pos \in Nat /\ delta \in [StorageIds -> Nat]

ResultsOK ==
    /\ moving \subseteq Refs /\ doomed \subseteq BlobBlocks
    /\ garbage \subseteq StorageIds /\ targets \subseteq Backends
OutsideOK == submitted \subseteq Uploads /\ crashes \in 0..MaxCrashes

\* The type invariant of the tables, the files, the memory and the locals.
TypeOK ==
    /\ CatalogOK /\ TableOK /\ StoresOK /\ MemoryOK /\ ControlOK
    /\ LocalsOK /\ CombineOK /\ ResultsOK /\ OutsideOK

\* b lies at that offset of a storage block with content c.
HoldsAt(c, b, offset) == <<b, offset>> \in c.data

\* The labels at which a process writes the storage block it has acquired.
Writing(p) == pc[p] \in {"store", "info", "location", "residual", "count", "reference"}

\* The labels of Store.
Storing(p) ==
    Writing(p) \/ pc[p] \in {"find", "add", "lock", "select", "unfree", "create", "link"}

\* No combination and no collection runs while a request stores: a condition, which
\* nothing in the code establishes, under which more holds (see the README).
Housekeeping ==
    job.type \in {"combine-residual-blocks", "collect-garbage"} /\ pc[Worker] # "failed"
Apart == Housekeeping => \A p \in Revisers : ~Storing(p)

\* The free list is handed out safely: only the holder of the lock looks at it,
\* and the row it has read is still there when it deletes it.
FreeListDiscipline ==
    \A p \in Procs :
        /\ pc[p] \in {"select", "unfree", "create"} => lock = p
        /\ pc[p] = "unfree" => blk[p] \in freed

\* Two writers never hold the same storage block.
ExclusiveWriters ==
    \A p, q \in Procs : p # q /\ Writing(p) /\ Writing(q) => blk[p] # blk[q]

\* A block on the free list is really free: nothing refers to it, no backend
\* holds it, no combination can pick it, nobody is about to write it.
FreeBlocksAreUnused ==
    \A s \in freed :
        /\ RefsTo(s) = {} /\ locs[s] = {} /\ s \notin residual
        /\ \A p \in Procs : Writing(p) => blk[p] # s

\* What a reference promises can be read: the block is not free, some backend
\* holds it, every backend that does has the bytes its iv and authTag decrypt,
\* and they contain the blob block at the offset.
ReferencesAreReadable ==
    \A r \in refs :
        LET s == r.storageBlock IN
        /\ s \notin freed
        /\ locs[s] # {}
        /\ \A k \in locs[s] : files[s][k] = info[s]
        /\ HoldsAt(info[s], r.blobBlock, r.offset)

\* "old version might still be in cache": never while a reference can reach it.
CacheIsCurrent ==
    \A r \in refs : cache[r.storageBlock] \in {Blank, info[r.storageBlock]}

\* A blob block that a blob uses is stored, or somebody is still storing it.
LinkedIsStoredOrComing ==
    \A b \in BlobBlocks :
        link[b] = "wanted" /\ RefsOf(b) = {} =>
            \E p \in Procs : bb[p] = b /\ (Writing(p) \/ pc[p] \in
                                 {"lock", "select", "unfree", "create"})

\* Nothing in the worker's jobs throws.
WorkerNeverFails == pc[Worker] # "failed"

Quiescent == queue = <<>> /\ \A p \in Procs : pc[p] \in {"idle", "done"}

\* Once the queue is drained every referenced block has its replicas, every
\* wanted blob block is in one storage block, and what a combination left
\* behind has been freed.
DrainedIsTidy ==
    Quiescent =>
        /\ \A r \in refs : Cardinality(locs[r.storageBlock]) >=
               IF MAX_REPLICATION < NumberOfBackends THEN MAX_REPLICATION
                                                     ELSE NumberOfBackends
        /\ \A b \in BlobBlocks : link[b] = "wanted" => Cardinality(RefsOf(b)) = 1
        /\ Unreferenced = {}

\* Every request that stores a revision gets its answer.
RevisionsComplete == \A p \in Revisers : pc[p] = "find" ~> pc[p] = "done"

\* The worker gets through its queue, and so does every upload job in it.
QueueDrains == <>[](queue = <<>> /\ pc[Worker] = "idle")

=============================================================================
