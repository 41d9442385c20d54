# OpenDistributedFileStorage, specified and checked

This directory holds a TLA+ model of the service in `src/service`, of the parts
of the portal and of the mount that drive it, the TLC configurations that check it on small instances, and theorems about it that
TLAPS proves. The code is the reference: every definition is translated from
it, and `PROJECT.json` names the lines ("map").

- [The system](#the-system)
- [What is modelled](#what-is-modelled)
- [StorageBlocks](#storageblocks)
- [EncryptionKeys](#encryptionkeys)
- [BlobCatalog](#blobcatalog)
- [AccessCounters](#accesscounters)
- [Geocoding](#geocoding)
- [UploadSessions](#uploadsessions)
- [Downloads](#downloads)
- [StreamingKeys and FuseMount](#streamingkeys-and-fusemount)
- [FileRecords and MediaJobs](#filerecords-and-mediajobs)
- [BlockFiles](#blockfiles)
- [Known deviations](#known-deviations)
- [What is proved](#what-is-proved)
- [What is only model-checked](#what-is-only-model-checked)
- [Not modelled](#not-modelled)
- [Plan](#plan)

Run a model with `tlc -config MCStorageBlocks_worker.cfg MCStorageBlocks.tla`,
check proofs with `tlapm StorageBlocksProofs.tla`.

## The system

The service is one Node process. HTTP handlers run as interleaved async
functions; one job worker (`MessagingService.ListenForMessages`, prefetch 1)
takes jobs from a RabbitMQ queue and acknowledges a job after its handler has
returned (`main.ts:93-120`). State is in MySQL tables, in files on the storage
backends, in the queue, and in the memory of the process. Every `await` is a
point where the others may run; few operations are transactions.

A file's revisions point to **blobs**, a blob is a list of **blob blocks**
(`sha256` of at most `CONST_BLOCKSIZE` bytes, stored once), and blob blocks lie
at an offset of **storage blocks**: encrypted files of the same maximal size,
written to the fastest backend and replicated by a job. A storage block that is
not full is put on the *residual* list; when the list is long enough a job
combines several of them into one and moves the references. Blocks that nothing
refers to are freed by the garbage collector and handed out again.

| Component | State | Operations | Hard behaviour | What makes it correct |
|---|---|---|---|---|
| Storage blocks (`StorageBlocksManager`, `StorageBlocksController`) | `storageblocks`, its free and residual lists, `storagebackends_storageblocks`, files; the acquirement lock | store, replicate, combine, free, read | interleaving of requests and the worker, non-atomic sequences of statements, crashes, overwritten blocks | a reference can always be read; a free block is unused; blocks get their replicas |
| Uploads and revisions (`FileUploadProcessor`) | `blobblocks`, `blobs`, `blobs_blocks` | ProcessFile, ProcessStreamInParallel, UploadBlob, UploadFile, UploadRevision | deduplication against an insert in progress, redelivered jobs | what a blob uses is stored |
| Garbage collection (`GarbageColletor`, `GarbageCollectionController`) | the same tables | hard deletion, blobs, blob blocks, storage blocks | collects what a concurrent request is building | only garbage is collected |
| Blob catalogue (`BlobsController`, `FilesController`, `BlobVersionsController`) | `blobs*`, `files*` | add, delete, soft delete, newest revision, versions | statements outside transactions, ties, foreign keys | every file has a revision, every revision a blob |
| Encryption keys (`StorageEncryptionManager`, `DataEncryptionKeysController`) | `data_encryption_keys`, `cachedKeys` | Encrypt, Decrypt, FetchKey | concurrent first use of a partition, failing insert, restart | one key per partition; what was sealed can be opened |
| Job queue (`MessagingService`, `JobOrchestrationService`, `main.ts`) | queue, unacknowledged job | publish, deliver, acknowledge | a handler that throws, redelivery, lost messages | every job is done, at least once |
| Storage backends (`StorageBackendsManager`, drivers) | the backends and their tiers | Create, Reload, find for reading, writing, replication | a driver's errors, `LockedStorageBackend`'s exclusive connection | replicas are on distinct backends |
| Block cache (`StorageBlocksCache`, `inFlightRequests`) | decrypted blocks | serve, add, prune, remove | stale entries, a rejected download that stays in flight | a served block is current |
| Upload sessions (`FileUploadReceiver`, `api/upload`, `UploadFileModal`) | `uploadKeys`, temporary files | init, append chunk, finish | chunks out of order, repeated finish, errors in between | the finished file is the concatenation of the chunks |
| Downloads (`FileDownloadService`, `api/stream`) | none of their own | whole blobs, slices, ranges | rows read once and used later, boundaries | the bytes asked for are the bytes served |
| Streaming keys (`StreamingService`) | known keys, the key of a user, partial accesses | issue, authenticate, invalidate, count | expiry, invalidation and a second client of the user under use | a key works until it must not |
| Access counters (`AccessCounterService`, `access-cache`) | accesses in blocks, counters per month and year, a file for each | add, persist, load, migrate | accesses during a write, crash during a migration or a write | an access that was written stays counted, once |
| Geocoding (`GeocodingService`, `OSMGeocodingService`) | lookup cache, two locks, time of the last call | resolve, search, reverse lookup, rate limit | lock kept on an error, spacing of calls | calls are spaced; who has to call is answered |
| Tags, locations, records of files (`TagsController`, `FilesController`, `api/files`, the portal's dialog) | `files`, `files_deleted`, `tags`, `files_tags`, `files_locations` | read, save, delete, list, search | a record is saved in many statements without a transaction; two requests insert one tag | what was saved is what is recorded, and found |
| Media jobs (`ThumbnailService`, `StreamingVersionService`, `MetadataService`, `FileGeocodingService`) | `blobs_versions`, `blobs_metadata` | analyze, compute, add, locate | a tool fails or is cut short, a job comes again | every picture gets its thumbnails |
| FUSE mount (`mount-fuse.py`) | caches of paths and attributes, open handles | lookup, list, open, read, close | caches that never expire, a key per handle | what is there is found |
| Reporting, the rest of the portal, deployment | none of their own | read, display, configure | - | - |

The hazards found in this code, each with its line and the properties that
would catch it, are listed in `PROJECT.json` under "hazards".

## What is modelled

| Module | Models | Run |
|---|---|---|
| `StorageBlocks` | the life of storage blocks: storing, replication, combination, garbage collection, the job worker, concurrent revisions, crashes | `worker`, `crash`, `revisions` |
| `EncryptionKeys` | `FetchKey` and its callers | `keys` |
| `BlobCatalog` | files, revisions, blobs of several blocks, their collection, crashes | `catalog` |
| `AccessCounters` | access counters: collecting, delayed writes, loading, migration, crashes that tear files | `counters` |
| `Geocoding` | the lookup cache and its lock, the search cache, the rate limit | `geocoding` |
| `UploadContract` | abstract: what an upload promises | |
| `UploadSessions` | from the dialog that uploads a file to the blob blocks it is cut into; implements `UploadContract` | `uploads` |
| `Downloads` | reading blobs and ranges, the downloads in flight and the block cache, while blocks are moved and freed | `downloads` |
| `StreamingKeys` | `StreamingService` with the players that use it | |
| `FuseMount` | extends `StreamingKeys` with `mount-fuse.py` | `streaming` |
| `FileRecords` | paths, tags, locations, the recycle bin: saved, listed, searched | |
| `MediaJobs` | extends `FileRecords` with the jobs that compute metadata, thumbnails, versions and locations | `records` |
| `BlockFiles` | a storage block as an encrypted file of a backend: managers, locks, drivers | `backends` |

`MC...` modules and `.cfg` files are the instances for TLC, one for each run.
`...Proofs` modules hold the theorems ([below](#what-is-proved)).

The modules meet where one takes a step for granted that another one has the
statements of:

    UploadSessions --job--> BlobCatalog --blob block--> StorageBlocks --encrypted block--> BlockFiles
          |                     |                           |                                  |
       (dialog)            MediaJobs (event)            Downloads (reader)             EncryptionKeys (key)
                                |
                           FileRecords (location)

Definitions whose names end in `_Something` after the name of an action or
operator (`DeleteFreed_KeepsRow`) are *mutants*: the same definition with a
plausible bug. Replacing the original by its mutant makes TLC report the
property listed with it in `PROJECT.json`, which shows that the property depends
on that piece of the code.

## StorageBlocks

### State and actions

A process is the job worker or a request that stores a revision. `pc[p]` says at
which statement it is, `bb`, `blk`, `buf` are its locals (blob block, storage
block, bytes); `rows`, `sources`, `pos`, `delta`, `moving`, `doomed`, `garbage`,
`targets` hold the worker's result sets between statements. Tables are sets and
functions: `blobBlocks`, `refs` (`blobblocks_storageblocks`), `freed`,
`residual`, `locs`, and `info[s]` for the row of `storageblocks`. The row has
size, iv and authentication tag; what matters is *which* content the iv and tag
belong to, so `info[s]` is that content, and a backend's file `files[s][k]` can
be decrypted exactly when it equals `info[s]`.

There is one action per database statement or backend call; the synchronous
code after an `await` belongs to the action before it. The chain of a store is

    FindBlobBlock -> AddBlobBlock -> LockFreeList -> SelectFreed -> DeleteFreed | CreateBlock
      -> StoreFile -> UpdateStorageBlockInfo -> AddBlockLocation [-> PutOnResidualList
      -> QueryResidualBlockCount] -> AddBlobBlockStorage -> LinkBlob

and `Store(p)` is used by upload jobs and by revisions. The combination job runs
through the same acquisition and writing steps with other ends. Primary keys and
foreign keys of `db.sql` are guards: where an insert would violate one, the
handler throws (`Fail`). A handler that throws is logged by the process and
nothing else (`main.ts:141-148`): a request is over, but the worker's job is
never acknowledged, and with prefetch 1 the worker gets no other job until the
process is restarted.

Simplifications, all in the module's comments too:

- A blob is one blob block. Several blob blocks of a blob matter to the catalogue.
- A blob block is identified by its bytes, not by the number of its row.
- Content is plaintext; which key encrypts it is the business of `EncryptionKeys`. It is the
  set of placements (blob block, offset) of a storage block, so that blob blocks of the same size may
  overlap only where the code writes them over each other.
- Statement pairs that only read (locations and file) are one step.
- Cache entries are not evicted here. A blank entry stands for a missing one.
- `Publish` puts the message into the queue at once. The code opens a channel in a
  callback and does not wait for a confirmation.
- `GetBackendById` never returns undefined: backends are loaded at start and
  foreign keys keep their rows.
- Hard deletion of files and `DeleteBlob` are one step, `CollectBlobs` (`BlobCatalog` has
  their statements), and the rest of
  an upload after the blob is known is part of `LinkBlob`.

### Runs

All runs switch deadlock checking off: the system stops when all uploads are
submitted and the queue is empty, and that is as it should be.

| Run | Instance | Shows |
|---|---|---|
| `worker` | three one-byte uploads, blocks of three bytes, combination from two residual blocks on, three backends, `MAX_REPLICATION` 2, one file that expires | `CacheIsCurrent`, `WorkerNeverFails`, `DrainedIsTidy`, `QueueDrains` |
| `crash` | two uploads through the worker, a request that stores one of them as a revision, a file that expires, two backends, one crash after any statement; combinations and collections do not overlap the request (`StaysApart`) | `FreeBlocksAreUnused`, `ReferencesAreReadable` |
| `revisions` | two requests and the worker, storing the same two blob blocks (one residual, one full), one free block at the start, nothing collected | `FreeListDiscipline`, `ExclusiveWriters`, `LinkedIsStoredOrComing`, `RevisionsComplete` |

Why the bounds are enough for what the runs say: three uploads give two
combinations, the second one of a block that is itself a combination, and a
combination that meets sources which are combined already but not yet collected.
Seven storage blocks are more than three uploads and their combinations ever
need, five more than two uploads, a revision and theirs, so the bound is not what
stops a run. With three backends a replicate job
has two copies to make and a collector three to delete, one after the other. One crash is enough
to leave each multi-statement sequence half done and to have the redelivered job
meet the rest; a second crash would meet rows of the same kinds. The request and the
worker store the same blob block, before, after and (while the worker stores) at the same
time. In `revisions` two requests and the worker compete for one free block, for a new row, and
for the same blob block. The theorems [below](#what-is-proved) state the safety properties of
all three runs for any number of uploads, requests and blocks.

`Apart` is the condition that no combination and no collection is under way while a request
stores. Nothing in the code establishes it: it is the exact point up to which the
storage of blocks is safe. `crash` takes it as a constraint on the steps (`ACTION_CONSTRAINT StaysApart`), in
`worker` it holds because there is no request, and in `revisions` because nothing is combined
or collected (`THRESHOLD` is above the number of blocks, no file expires). Without it the properties
fail: see [Known deviations](#known-deviations).

### Fairness

`FairSpec` has weak fairness of the worker as one process and of every
request's steps: the event loop runs every continuation whose promise is
settled, and database, broker and backends answer. Uploads, revisions, expiry
and crashes have no fairness; they are the environment. A request waiting for
the lock is served under weak fairness only because the competitors are finite
in number; the code's lock is a queue, so nothing stronger is assumed than it
gives. `QueueDrains` and `RevisionsComplete` are checked without crashes: a crash
ends a request, and a job lost between a row and its publication is never
made up for.

## EncryptionKeys

`FetchKey` looks into `cachedKeys`, else reads the row, else draws a key, caches
it, and inserts it. One action per step; the row that was read (`key[c]`) may be
stale when it is used. `InsertDEK` may insert the row, be refused or fail, or
insert the row while the answer is lost. `Restart` clears the cache and ends all
calls. `written` remembers with which key each block was sealed. `spoiled` is a
history variable: the partitions for which an insert has failed or was cut off
by a crash. It guards nothing and only the properties read it.

Run `keys`: three callers, a partition with a key and a new one, three keys
(one stored at the start, two to draw, which is what a race needs), any number of
calls, failures and restarts. Three callers are two that race and one that reads
or writes meanwhile. Callers and keys are interchangeable, hence the symmetry.

- `EveryBlockDecrypts`: the only ways to lose a block are an insert that fails and
  a crash while it is under way.
- `DecryptionSucceeds`: a decryption fetches the right key unless two callers
  have drawn keys for the partition, or an insert for it has failed.

That a partition which has had a key from the start is never affected
(`OldPartitionsAreSafe`) is proved only.

## BlobCatalog

### State and actions

This module is the layer above `StorageBlocks`: what happens below a blob block
(`ProcessBlobBlockHashed` and the storage blocks) is one step, `ProcessBlobBlock`,
and in return there are blobs of several blocks, files, and every statement
between them:

    ProcessBlobBlock ... -> FindBlobByHash [-> AddBlob -> AddBlobPart ...] [-> AddFile]
      -> AddRevision [-> Unlink -> Acknowledge]

An upload job takes all of it, a request (`UploadRevision`) leaves out the
bracketed file, unlink and acknowledgement. `GarbageColletor.Execute` is

    FindSoftDeletedFiles -> (DeleteRevisions -> DeleteFileRow) ... -> FindUnreferencedBlobs
      -> (DeleteBlobParts -> DeleteBlob) ... -> FindUnreferencedBlobBlocks
      -> (DeleteBlobBlockStorage -> DeleteBlobBlock) ... -> EndCollection

`name`, `expired`, `revs`, `blobs`, `parts` and `blobBlocks` are the tables `files`,
`files_deleted` (older than 30 days), `files_revisions`, `blobs`, `blobs_blocks`
and `blobblocks`. Blobs and blob blocks are named by their content, which is
unique in their tables; the *id* a process has read is a fact of its own
(`blobId[p]`, `held[p]`), because the row may be deleted and the same content be
inserted again under another id. Foreign keys and unique keys are guards: an
insert or a delete they forbid throws, and a worker that throws keeps its job for ever.

`session` and `temp` are the upload sessions and the temporary files. A session
is opened for a name that no file has, soft-deleted ones included
(`FindIdByName`), or for a file; its end queues the job. A crash forgets
sessions and requests, keeps temporary files, and puts the unacknowledged job
back at the head of the queue. `lostFiles`, `lostBlobs` and `lostBlocks` are
history: what an exception or a crash has left half added or half deleted. They
guard nothing and only the properties read them.

Left out: versions and metadata of blobs, tags, locations, renaming (`FileRecords` and
`MediaJobs` have them), and the row locks of the transaction that a failing `DeleteFile` leaves open.
Revisions carry no timestamp, but `thisSecond` says which of them have the current one, until
`NextSecond`: file, blob and second are the primary key (`db.sql:211`), so the same bytes added to a
file twice within a second throw. A blob is cut into the same blob blocks by
`ProcessFile` and `ProcessStreamInParallel`, which is so except when its size is a
multiple of the block size: `ProcessFile` then reads one more, empty block.

### Runs

Run `catalog`: two blobs that share a blob block, two sessions (two for the same
name, or a file and a revision of it), one request, two files, two collections and
one crash. So a file can be created, expire, be deleted, and its name and its
blob's bytes be stored again; the worker's collection meets a request at every
statement; a crash cuts off each sequence once. `CHECK_DEADLOCK FALSE`: all
sessions end and the queue runs empty.

- `RevisionsAreReadable`: the only ways for a revision's bytes to be incomplete are
  additions and deletions under way and those cut off.
- `FilesHaveRevisions`: handlers take `QueryNewestRevision(...)!` for granted; a file
  has none only within the job that creates or deletes it.
- `WorkerStopsOnlyOverFiles`: as long as no request stores, the job worker stops for four
  reasons only: two sessions for one name, a revision of a file that has been deleted meanwhile,
  the same bytes as two revisions of a file within a second, and a crash between the
  unlinking of the temporary file and the acknowledgement. All four do happen.
- `UploadsAreKept`: the temporary file goes when the revision is there, for a job
  delivered a second time too.

The exceptions are not empty; [Known deviations](#known-deviations) has the one without
a crash. With a crash between two rows of `blobs_blocks` the redelivered upload
finds the truncated blob by its hash and makes a revision of it.

No liveness is stated: the bounded environment would make it hold, and
the worker may stop for good.

## AccessCounters

### State and actions

`AddBlobAccess` puts an access into the latest block of `FileSequenceCache`; a timer
of three minutes later writes the blocks that are dirty (`Persist`, then `WriteBlock`
for each). A start of the service runs

    LoadLatest -> LoadMonths -> LoadYearsAndMigrate -> PersistMonth ... -> PersistYear ...
      -> RemoveMonth ... -> RemoveBlock ... -> EndMigration

where everything of `Migrate` before its first `await` is one step with the end of
the loading. Accesses and writes go on meanwhile, from `LoadLatest` on; accesses
before it are discarded, as the code says.

The counters are per access instead of per blob and user: `blockFiles`,
`monthFiles` and `yearFiles` say how often the files count it, `sequence`, `months`
and `years` how often the memory does. An access belongs to the month in which it
happens (`at`). Blocks written within one month end in `currentYear`, a year later
in `pastYears`. `saved` and `spoiled` are history: accesses that some
file has held, and accesses counted by a file that was torn.

`writeFile` truncates first, so a crash leaves the file that was being written
intact or torn (`TornBlock`, `TornMonth`, `TornYear`). A torn file
cannot be decompressed: `LoadCache` is rejected, `main.ts` logs the rejection, and
from then on every start discards all accesses (`LoadFails` of `latest`)
or collects them without ever migrating. This is what the code does; the properties name it
(`spoiled`) and do not hide it.

Two facts of the code are worth knowing. `entriesCount` is set when a block is loaded
and by nothing else, so that a block never becomes full while the service runs
(theorem `LatestIsNeverFull`), whatever number of accesses it takes. It
follows that only the latest block is ever dirty and the loop of `Persist` has
one round. The model keeps both the test of `isFull` and the loop.

Left out: errors of the file system other than by a crash (a refused write would drop
the dirty mark of its block), the storage tier, averages and the last access time.
One write is assumed to end before the next timer, three minutes later.

### Runs

Run `counters`: three accesses, three blocks of two entries, years of two months, two
month changes (so one change of year) and three restarts. One restart is needed
to close a block, one to migrate it, one to move its month to its year or to be
interrupted; every file can be torn on the way. `CHECK_DEADLOCK FALSE`: after the
last access, month and crash nothing is left to do.

- `NothingIsMissed`: an access in memory is in its file, in the bytes being written, or
  its block is still to be written. The dirty ids must be exchanged before the first
  `await`: when they are cleared after it, an access added meanwhile is missed.
- `SavedIsKept`: through migrations and crashes, some file counts what some file once counted,
  unless the file was torn. This is the order persist months, persist years, remove
  months, remove blocks; any other order loses accesses.
- `CountedOnceUnlessCut`: the price of that order. After a migration, what was saved is
  counted at least once and at most `copies` times, a number that every crash during a migration
  doubles. The bound is tight: the block and the month are counted twice after
  a cut, and a second cut between month and year doubles both. Without a cut
  the count is exact.
- `AccessesAreSaved`: an access in memory gets into a file unless a crash takes the memory. Fairness:
  weak for `Persist` and `WriteBlock`, that is timers expire and writes end.

## Geocoding

### State and actions

Three kinds of callers reach `CallOSM`:

    ResolveLocation -> LockCache -+
    SearchForLocation ------------+-> (PassAtOnce | Sleep -> Wake) -> Found | NotFound | Fails
    ReverseLookup ----------------+

`LockCache` is the code behind `await this.lookupCacheLock.Lock()`, `PassAtOnce` and
`Sleep` that behind `await this.lastCallLock.Lock()`; the call of the service goes out with the
release of that lock (`Send`), which leaves out the microtask between them. The
model has ages instead of times (`lastCall`, `taken`, the last two calls), cut off where the
limit no longer looks, and a `Tick`: time goes on for ever in finitely many states. A
timer may be late. What the service answers, and whether, is left open.

`NotFound` and `Fails` leave `lookupCacheLock` locked when an id was looked up: the
early return and the exception both pass `releaser.Release()`. The model does the
same and remembers it (`unanswered`).

### Runs

Run `geocoding`: two callers that never stop asking, two ids, one name, a second of three
ticks. Two callers are enough to contend for both locks, and to make three calls within a second
if the limit allowed it; the theorems below hold for any number.

- `ThreeCallsSpanASecond`: what the rate limit guarantees. `lastCall` is the time *before* the
  caller slept, so the next one may follow it at once: two calls may be sent in the same
  millisecond (TLC finds the trace when the statement is made of two calls), three
  always take a second.
- `CacheLockExplained`: the lock is locked exactly during a lookup, and always after a lookup
  that ended without a location. So one unknown id makes every later `ResolveLocation` wait
  until the service is restarted, whether its id is cached or not.
- `ResolversAreAnswered`: until then, everybody is answered.

That ids are looked up one at a time (`OneLookup`) is proved only.

Fairness: time passes, timers expire, the HTTP client ends every request (weak); `Lock`
is a library class and is taken not to starve a waiter (strong).

## UploadSessions

### State and actions

    dialog: InitUpload -> OrchestrateFileUpload (init, chunk ..., finish) -> success | error | gone
    API:    CreateNewFile | UploadFileRevision -> AppendChunk ... -> FinishUpload -> EndFinish
    job:    Publish -> Deliver -> UploadFileFromDisk -> Unlink -> Acknowledge

`client` is where the `for` loop of `UploadFileModal` is, `sent` its index. A request is a
record in `requests`, its answer is in `reply`. `session` is what `uploadKeys` and the write
stream know of an upload: `FinishUpload` is `EndUpload` up to `await finished(...)`, during which the key is
still there, so that a chunk or a second end may come; `EndFinish` is what comes after it.
A write after the end destroys the stream (`broken`), as does a failing disk. Everybody who
waits in `finishing` schedules a job.

`LoseAnswer` and `RepeatRequest` are the network, `Crash` the process: sessions and
requests are forgotten, temporary files stay, the unacknowledged job comes back.
`MessagingService.Publish` opens a channel for each message and closes none; beyond
`ChannelMax` (the broker's limit) the callback throws and the message is lost.

A chunk is named by its number and a byte by its position, so that what is stored can be
compared with the file. `ProcessFile` is the loop over `start`, whose last slice is empty when the size
is a multiple of the block size.

`UploadContract` is what the one who uploads may rely on, in three steps: `HandOver` the
file as it was sent, at most once; `Report` success only after that; `Repeat`, after which
nothing is promised of the contents. `UploadSessions` implements it with
`told <- {u : client[u] = "success"}`; `jobs` and `repeated` have the same names in both.

### Run

Run `uploads`: a file of three bytes and one of two, chunks and blocks of two bytes, so there is a
file of two chunks with a short one and one that fills chunk and block exactly; a new file
and a revision; two channels, one repetition, one crash.

- `ContractIsKept`: the refinement.
- `StoredIsFile`: the blob blocks of a revision are the file byte for byte, all but the last
  one full.
- `SuccessIsStored`: a file reported as uploaded is stored in the end, unless the service
  crashes, a request was delivered twice, or the channels are used up. Each exception
  happens: a crash loses the job between the answer and the publication, a second end
  queues two jobs for one file and the second one fails for ever.

Fairness: the service goes on with each upload, the dialog with its loop, the worker with its
job, and the broker accepts (weak). The user, the network's faults, a failing
disk and crashes have none.

## Downloads

### State and actions

A reader (`DownloadBlob` for a stream, `DownloadBlobSlice` for a range) reads the rows of its
blob blocks once (`rows`), and downloads the parts later: all at once for a range, one
after the other, as the client reads, for a stream (`todo`, `DownloadPart`). A part comes from the cache, or waits
for the download in flight (`fetch[s]`), which has three awaits: the file of
the backend, iv and tag, the key. Meanwhile the job worker combines the residual blocks, moves the
references one by one, frees blocks and stores other blob blocks in them; these
are the steps of `StorageBlocks` a reader can notice.

A blob is there for readers from the start, though some of its blob blocks are still being stored
(`Coming`): a second upload links a row whose bytes another one has yet to store.

`misread` and `overtaken` are history: a reader that has read no row for a blob block that is still
being stored (the inner join with the references drops it), or two while it was moved (the query
joins without DISTINCT), and a reader that lost a block between
its query and its read. They guard nothing: such a reader is served.

### Run

Run `downloads`: two residual blocks, of two bytes and one, that are combined; a blob block
that is being stored, maybe in what was freed, and whose blob is read before and after; one stream, one range (open, and of one byte
that begins inside a part), a cache limit of one, one failing read.

- `ServedIsRight`: the bytes served are the bytes the range header asked for, but for the two
  histories above. The range's arithmetic over inclusive and exclusive bounds is part of it.
- `CacheIsBounded`: the cache holds one entry more than its limit and no block twice.
- `DownloadsAreServed`: each request ends with all its parts, unless a read failed or a block was freed under a
  request. `SBM:70-73` removes the entry of a download in flight only when it
  succeeds: after one failure everybody who wants the block gets the same rejected promise until
  a restart. This is why the exception is not limited to the request that met the failure.

Fairness: requests and downloads in flight go on (weak); the worker has none.

## StreamingKeys and FuseMount

### State and actions

`issued` has what each key is bound to (user, blobs, expiry, address) and never
forgets; `streamingKeys` and `userIdToStreamingKey` are the two maps of
`StreamingService`. `Invalidate` is what every request with a token does before its handler
(`main.ts`, `InvalidateUserStreamingKeys`), asking for a key included. A request for a
key has two queries (`QueryNewestRevision`, `QueryVersions`), between which revisions and versions may
appear. `StreamBlob` authenticates, counts the first partial access, and forgets a key it finds expired.
A client may change its address, and time passes.

`FuseMount` is one thread with a token it never renews. Once it has expired `main.ts` refuses the
requests, `_Get` takes the refusal for an answer, and reading it raises a KeyError (`LookupFails`):
nothing is remembered, and what needs no request still works. `EnsureParentIsCached` answers
the first lookup of a path with ENOENT even when reading the directory has just shown the file
(`mount-fuse.py:180`), and remembers a missing path for ever. `OpenFile` asks for a
key and pairs it with the blob id it remembers, which may be older than the newest revision;
`DownloadSlice` returns whatever the service answers, a refusal too, as bytes of the file.

### Run

Run `streaming`: a player and a mount of one user, one file, two addresses, two keys, two
revisions. The mount's token expires in the first second (`MountExpiry` 0, `MaxTime` 1), so that
each of its requests may be the first one refused. Two keys are what one client takes from another.

- `LiveKeysAreCurrent`: the two maps agree, so that invalidation leaves no key usable.
- `QuietKeysWork`: a key works for its client, blobs, address and time, as long as the user
  asks for nothing with a token. The condition is the point: any other tab, a second open or an uncached
  lookup of a mount kills the keys in use.
- `CountedOncePerKey`: however many ranges are read, an access is counted once.
- `FoundFromSecondLookup`: a mount finds a file from the second answered lookup on exactly when it
  existed when the directory was read; a lookup raises an error only when the token has expired, and only
  of a file whose attributes are not known yet.

All four are safety properties and are proved; no fairness is stated.

## FileRecords and MediaJobs

### State and actions

The dialog reads a record (`RequestFile`), changes it and saves it whole
(`Save`); `files/{fileId}` writes it statement by statement:

    UpdatePath -> DeleteTags -> (QueryTagId -> [InsertTag]) for all tags at once -> LinkTag ...
      -> ResolveLocation -> DeleteLocation -> [InsertLocation]

Tags are queried per container and are unique over all containers (`db.sql`), files_tags has no
key (so `fileTags` counts rows), and a file has one location. What the service does not
know as a place is refused after the tags have been written. `SearchForFiles` (from the root
of a container, with the row multiplicity of the join), `RequestDirContents` and `QeuryDeletedFiles`
(the recycle bin) are what the API answers.
`FileGeocodingService` sets the location of a photo within a job and meets a user who saves one.

`MediaJobs` adds the worker: an upload announces a new blob (`OnNewFileBlobUploaded`), the thumbs
job analyzes it, locates it, and adds its thumbnails one by one; users ask for versions. `blobs_versions`
has a key, so what is inserted twice throws. The tools' exit codes are not looked at
(`CommandExecutor.ts:51-64`): `missing` is the first file they have not written, if any, and the upload of
it throws. A video needs one video stream that is no picture. A job that throws stops the worker; a crash
brings the job back. `Publish` opens a channel for each message and closes none, as in
`UploadSessions`: when `ChannelMax` are open the message is lost.

`overlapped`, `saved` and `unsent` are history: who met another writer of the same file,
the record saved last by one who met nobody, and the messages that found no channel.

### Run

Run `records`: two users, three files in two containers, a tag used in both, an unknown place, a path that is taken;
a photo and a video of a second that comes with a picture of its own (two video streams), so that
the pictures of a video are rounded to two seconds; one version asked for; two channels, one less than the
messages; one failure or crash, and any file not written. `SegmentsCount` is 2
instead of 9: the rounding and the removal of equal seconds happen with two as well.

- `RecordIsAsSaved`: what was saved alone is what is recorded, and found by a search for
  any of its tags as often as the tag was given, whatever is done to other
  files at the same time; only a location may be added where none was given.
- `TagsStayInContainer`: whatever requests insert one tag for two containers.
- `ListingAndSearchAgree`: whoever opens all directories finds the files that the search finds,
  and the recycle bin has the others.
- `WorkerStopsForAReason`: what stops the worker in a media job, a file that a tool has not
  written (the second picture of a video of one second) and two equal
  versions of one blob (a video whose pictures are the same bytes) among it.
- `ThumbnailsAreThereOrComing`: a picture has its thumbnails, or a job for them exists, or a crash
  lost the event between `AddRevision` and `Publish`, or this event found no channel, or its bytes are
  a version of another blob.

All five are safety properties and are proved; no fairness is stated.

## BlockFiles

### State and actions

Each caller has a `task` with the point it has reached: a writing (`WriteStorageBlock` ->
`CreateDirectoryIfNotExisting` -> `EncryptBlock` -> `StoreFile` -> `UpdateStorageBlockInfo` ->
`AddBlockLocation`), a replication (`ReadFile` -> for each target mkdir, store, locate), a
download (`ReadFile` -> `DecryptBlock`), or the freeing of a block (`DeleteFile` ->
`RemoveBlockLocation` for each location -> `FreeBlock` -> `ResetInfo`). A call of a backend waits in `line[b]`, the
lock of `LockedStorageBackend`, taken to be first come, first served.

The drivers differ where it matters: the host's throws when a call fails; those behind rclone
ignore the exit code of storing, deleting and mkdir, and take what was read when the process
exits for all of it (`CommandExecutor.ts:78`). So a location may be recorded for a
file that was never stored, and replication stores what it read unchecked. `doubtful` is the history of the copies a failed rclone had a part in,
`collected` that of the blocks being freed.

A freed block is on the free list before its row is reset (`FreeBlock`, `ResetInfo`): a request that
acquires it in between has its iv and tag wiped. `collected` keeps such a block out of the property until it is
written again; the model shows the window.

### Run

Run `backends`: two blocks, one stored and one free, a host directory and a remote of which one
is added while the service runs, a job and a request, one writing more, one failing call, any number of crashes.

- `LocatedIsSealed`: where a location says that a backend has a block, its file is what
  iv and tag belong to, but for the exceptions named.
- `BackendsAreReleased`: who waits for a backend gets it and lets go of it, however calls end.
  Fairness: calls of a backend return or throw (weak).

## Known deviations

Where the code does something its documentation or a comment rules out. The models contain these
behaviours; the properties exclude them by a condition, a history variable or a bound. Each
can be seen as a trace by removing the condition that is named.

| Behaviour | Says | How to see it |
|---|---|---|
| an upload inserts the blob block, the process dies, the redelivered job finds the row and links a blob nobody stored | `src/README.md:12` "A blob block is stored within one storage block." | `StorageBlocks`, run `crash`: every blob block that is linked has a reference |
| a request has written a block and not referenced it yet; the collector frees it, the next upload writes other bytes into it, and the request's reference points at those | `src/README.md:11` "A blob block is also an immutable sequence of bytes defined by its sha256 hash." | `StorageBlocks` with a request and a low `THRESHOLD`: `ReferencesAreReadable` |
| a replicate job finds neither a location nor a row of the free list, because the freed block has been acquired again | `src/service/src/services/StorageBlocksManager.ts:100` "This situation should never happen!!!" | the same: `WorkerNeverFails` |
| the collector has listed a new blob without revision; it deletes the blob's blocks, the request's revision is accepted, the delete of the blob fails | `src/README.md:9` "A blob is an immutable sequence of bytes defined by its sha256 hash." | `BlobCatalog`: `RevisionsAreReadable` without its exceptions |
| a request has put its block on the residual list; a combination takes it and reads its references (`QueryBlobBlocksInStorageBlock`), the request adds its own, and `RemoveReferencesToStorageBlockId` removes it unmoved | `src/README.md:12` | `StorageBlocks` with a request and a low `THRESHOLD`: `LinkedIsStoredOrComing` |
| a request has put a rewritten block on the residual list, and what the block held before is still cached; a combination reads the cache | `src/README.md:11` | the same: `ReferencesAreReadable` |
| two callers seal blocks of a new partition with two keys; one of them is in the memory of the process only | `src/infrastructure/db.sql:145` one key per partition | `EncryptionKeys`: `EveryBlockDecrypts` without `spoiled` |

More are no disagreement with a text, but a reader should know of them:

- A blob linked while another upload is still storing one of its blocks is served without that
  block (`BlobsController.ts:169-184` joins with the references): `Downloads`, `ServedIsRight` without `misread`.
- The same bytes added to a file twice within a second stop the worker (`db.sql:211`), as does the
  name taken by another session: `BlobCatalog`, `WorkerStopsOnlyOverFiles`.
- After the token of a mount has expired every lookup that needs a request raises a KeyError
  (`mount-fuse.py:13-14, 54-56`): `FuseMount`, `LookupFails`.
- A picture a tool did not write stops the worker (`CommandExecutor.ts:51-64`, `ThumbnailService.ts:78-83`): a
  video of one second has a picture of second 1: `MediaJobs`, `WorkerStopsForAReason`.

- A picture whose bytes are already a thumbnail or a version of another blob is known when it is
  uploaded, so no event is sent and it never gets thumbnails (the last line of
  `ThumbnailsAreThereOrComing`).
- The recycle bin of a container shows the deleted files of all containers:
  `QeuryDeletedFiles(containerId)` does not use its parameter (`FilesController.ts:109-119`), and
  `FileRecords` does not either.
- Outside the models: a search below a directory compares `filePath` with the directory's path as
  a prefix of the string (`FilesController.ts`), so it also finds files in siblings whose names begin with the
  directory's. `FileRecords` searches from the root.

## What is proved

For all values of the constants, under the assumptions each module names
(`ASSUME`), which TLC evaluates in every run.

**`TypeCorrect`**, `Spec => []TypeOK`. `TypeOK` is not inductive: the worker
goes on at `pos` and `blk` only because of where it is in the combination.
`TypeInv` adds that (`CombineControl`), and one lemma per group of actions keeps it.

**`FreeListSafe`**, `Spec => []FreeListDiscipline`, for any number of requests and
crashes: the holder of the lock is the only one at the three statements
on the free list, and the row it has selected is still there when it deletes it.
The collector may insert rows meanwhile and never deletes one.

**`FreeBlocksStayUnused`, `WritersAreExclusive`, `ReferencedStaysReadable`,
`CacheStaysCurrent`, `WantedIsStored`, `NoJobThrows`, `DrainedQueueIsTidy`**: the other
safety properties of `StorageBlocks`. Without a condition they are false
([Known deviations](#known-deviations)), so each theorem names what it needs, and no more:

| Theorem | `[]Apart` | `MaxCrashes = 0` | `Revisers = {}` | Invariant |
|---|---|---|---|---|
| `FreeBlocksStayUnused`, `WritersAreExclusive` | x | | | `HoldInv` |
| `ReferencedStaysReadable`, `CacheStaysCurrent` | x | | | `HoldInv`, `ReadInv` |
| `WantedIsStored` | x | x | | and `LinkInv` |
| `NoJobThrows` | (follows) | x | x | and `FineInv` |
| `DrainedQueueIsTidy` | (follows) | x | x | and `TidyInv` |

`Apart` says that no combination and no collection overlaps a request that stores. `SerialIsApart`: where
only the job worker stores it holds by itself, so the first five are then about all of `Spec`. They
hold for any number of requests next to the worker's uploads and replications. Crashes are
excluded where a crash breaks the property: it leaves a row of `blobblocks` without
bytes, a row on two lists, a job half done that throws when it comes again.

The invariant is built in layers, each proved with the help of those before it.

- `HoldInv`, who holds what: what can be acquired (`Spare`) is unreferenced, on no backend
  and no list; whoever uses a block has one that is not spare; no two write one; what the collector has found stays
  unreferenced, and how far the freeing of the current block has come.
  `FreeBlocksAreUnused` alone is not inductive, as a block becomes free before the last
  statement that frees it.
- `ReadInv`, what the bytes are: a located file belongs to its row or has been deleted by a
  collector a crash cut short; a referenced block is located, all its copies belong to its
  row, and its content has the blob block at the reference's offset; the cache follows the row except while a
  writer has the block; how far each writer and the copying worker have come; and what a
  combination has read is still in its sources until their references have moved (`SourcesKept`).
- `LinkInv`, that nothing is forgotten: each row of `blobblocks` has a reference or a process
  that is about to make one; the collector's rows stay unlinked; a combination removes
  no reference it has not moved.
- `FineInv`, that statements succeed: no insert finds its row there (`OneReference`,
  `GarbageHeld`), no update or replication finds it missing (`ReplicatedRows`), no read a file that is gone (`RowsFilled`).
- `TidyInv`, that what is left to do is queued: a block with too few copies has a replicate job, a
  block without references a collection, or the worker is at it.

**`KeysTypeCorrect`, `BlocksDecrypt`, `DecryptionWorks`, `OldPartitionsStaySafe`**: the
properties of `EncryptionKeys`, for any number of fetchers. They share the module
`SealedBlocksProofs` with those of `BlockFiles`, of which they are independent: the key of a stored
block and its files. The invariant
(`KeysInv`) says that every key that is cached, in use or sealed into a block is
*sound*: stored, being inserted, or its partition is spoiled; soundness is kept
by every step of every caller (`SoundStays`), and a row that was read cannot
change.

**`FilesTypeCorrect`, `LocatedStaysSealed`**: the safety of `BlockFiles`, for any callers, blocks and
backends. A location is the last thing a writing or a copy makes, so the invariant (`FilesInv`) says of
each task how far it has come (`Progress`): what a writing stores has been encrypted, and is what is
on the backend when the row gets its iv and authTag (`Written`); what a replication carries is what the
row belongs to, and the backends it goes to have no location yet (`Copying`); a removal
deletes files of an unreferenced block only, and has removed all locations by the time the block
is free (`Freeing`). A block that is written has no location and one writer (`WritersAlone`). All this
is about one block, and a step touches one: `BlockStep` reduces every step to what it does to
its own block (`Here`).

**`CatalogTypeCorrect`, `RevisionsStayReadable`, `FilesKeepRevisions`, `UploadsStayKept`,
`OnlyFilesStopTheWorker`**: the
properties of `BlobCatalog`, for any number of uploads, requests, files, collections and
crashes. The invariant (`CatalogInv`) extends the two statements about revisions to
*all* blobs and blob blocks (`WholeInv`, `StoredInv`), because a blob found by its
hash may be in any state when it becomes part of a revision, and adds what
keeps them: an id that is held belongs to a row (`IdsInv`); one process adds the parts of
a blob, since the hash is unique, and the parts still missing are those it
has to do (`AddersInv`); the collector has not yet deleted what it is going to
delete (`CollectorInv`); the worker's locals are those of its job and its blob cannot
be deleted under it, since only the worker deletes (`WorkerInv`); a file
without revisions is the worker's (`FilesInv`). Most steps touch no adder; one lemma
(`HarmlessKeepsAdders`) deals with all of them. What stops the worker is a statement about
the behaviours in which no request stores, crashes included, and so is what it needs on top (`AloneInv`, which begins
with `Alone =>`): every upload has one job, and its temporary file unless a crash sends the job again (`QueueInv`); the ids the worker has got stay
alive, and what it has not found is not there when it inserts it (`StoringInv`); nothing refers to
what it is about to delete (`CollectingInv`).

**`AccessTypeCorrect`, `WriterMissesNothing`, `SavedStaysKept`, `CountedOnce`, `LatestIsNeverFull`**: for any
number of accesses, blocks, months and crashes. The invariant (`AccessInv`) adds to the
properties: the file of a block is a part of the bytes being written, and these of
the block (`WriterInv`), so that a write never takes an access away; an access that has
not happened is counted nowhere (`RecordedInv`), so that giving it its month changes
no counter; and during a migration a counter that is not dirty equals its file, while
whatever is about to be removed is counted by a month or year (`MigrationInv`). For the
number of times an access is counted, `OnceInv` says that it is an entry of one block
(`BlocksAreDisjoint`), which cache cannot have been loaded from a torn file
(`TornInv`), and where the copies are (`CopiesInv`): a migration counts an access at most twice as often as
before, namely in what it keeps and, no more often than there, in what it is going to remove; so it ends with what
it keeps, and a crash at worst with twice as much, which is when `copies` doubles.

**`GeoTypeCorrect`, `RateIsLimited`, `LookupsAreSerial`, `CacheLockIsExplained`**: for any number of callers
and any length of the second. The argument for the rate (`SpacingInv`): `lastCall` was read by the
caller that made the last call, after it got the lock, hence after the last call but one;
and whoever calls does so a second after `lastCall`.

**`UploadsTypeCorrect`, `UploadsKeepTheContract`, `StoredStaysTheFile`**: the second one is the refinement,
`Spec => Contract!Spec`, for any number of uploads, any sizes, channels, repetitions and
crashes. The invariant (`UploadsInv`) has a part for all uploads (`Truthful`): an answer waits
only for a dialog that asked; success and the answer to an end mean that a job was made; a
stream that is ending has somebody who awaits it. And a part for those of which nothing was
repeated (`Orderly`): the request on its way is the one the dialog waits for, and it, the
end that awaits the stream, and the answer exclude each other (`OneAtATime`); as long as the session is
open, the temporary file has as many chunks as the dialog has had accepted (`InStep`). The parts are about
one upload each, so one lemma (`Local`) deals with all the others in every step. What the
refinement needs of it is in `EndFinishSchedules`: exactly one waits, so one job
is made, of the complete file. Then `InitUpload`, `OrchestrateFileUpload` and `LoseAnswer`
are `Report` or stutter, `RepeatRequest` is `Repeat`, `EndFinish` is `HandOver`, and everything else stutters.
The third one is `StoredIsFile`: a job carries the file of a complete upload (`HandedOver`), the
broker delivers only such jobs (`QueuedIsScheduled`), and what is stored is that file cut (`StoredIsCut`). That
the chunks joined are the file (`ChunksGiveTheFile`), and that what `ProcessFile` cuts gives the file again
with all blocks but the last full (`ProcessFileCuts`), holds for any sizes: `FlattenIs` says
what `FlattenSeq` joins, by the least index at which two solutions of its recursion could differ
(`LeastOfNaturals`).

**`MountTypeCorrect`, `KeysStayCurrent`, `QuietKeysStayUsable`, `AccessesCountOnce`, `FoundAgain`**: all
safety of `StreamingKeys` and `FuseMount`, for any users, clients and mounts. Beside the
properties the invariant says that the key a user is recorded to have belongs to that user
(`OwnKeys`), so that taking it away disturbs nobody else; that a quiet key is known
or expired (`QuietKeysLive`), which is what `Authenticate` needs; and how a path's cache entry
follows from the directory having been read and what was in it (`PathsRemembered`). A lookup fails only
late and only without known attributes (`LookupsFailLate`).

**`CacheStaysBounded`, `ServedStaysRight`** (with the above in `ReadingProofs`): the two safety properties of
`Downloads`, for any blobs, blocks, ranges, cache limit and readers. It is assumed that something is stored at the
start, that a blob block has at least one byte, and that range headers are parsed to naturals. The
invariant (`DownloadsInv`) has four parts.

- `StorageInv`: a reference leads to the bytes of its blob block, in the block it names; a block on the
  free list has no references, and the worker has one block at a time that it is writing.
- `ReadingInv`: a block is downloaded exactly as long as a part waits for it, and nobody waits for the
  combined block, or has it in the cache, before it is written.
- `FreshInv`: unless a reader has been overtaken, what is awaited is neither free nor being rewritten; so what a
  download has read is what the block has. A cache entry is what the block has, unless the block
  is free, or being rewritten and about to be taken out of the cache.
- `AnswersLead`: what a reader has got, joined with what its other rows lead to, is what it wants.
  This is what each answer leaves as it is, and what `ServedIsRight` is when no row is left.

That the rows of a range lead to that range is `SliceContent`: the overlaps with the blob's blocks, those without
bytes dropped, joined, are the slice (`SliceJoined`), by the same least counterexample as in `FlattenIs`.
A reader that begins has a row for each blob block, unless it has misread. Both histories are
needed: a run finds `ServedIsRight` violated without either.

**`RecordsAreSaved`, `TagsStay`, `ListingAndSearch`, `WorkerStops`, `ThumbnailsCome`**: all five properties of
`FileRecords` and `MediaJobs` in `MediaJobsProofs`, for any users, files, containers, tags, edits,
blobs, failures and crashes. The assumptions are that files have a container and a path, that `None` is no container,
that there are finitely many tags and blobs, that what users enter is a path and a sequence of tags, that the
channels are a natural number, and that videos are cut into at least one segment. `RecordIsAsSaved` is about the saved record; its invariant (`RecordInv`) is
about the request on its way: two writers of one file know of each other from the moment the
second one begins (`WritersMeet`); a tag's row stays what a request has found it to be
(`KnownTags`), since rows of tags are never deleted; and what a request that is alone has written so far
is there (`Progress`): the first `linked` of its tags, each as often as it occurs among them. Most steps touch
one file, so one lemma (`RecordsAreApart`) says what a step leaves alone of the others.
`WorkerInv` is about jobs: thumbnails are ordered once, by the one upload that finds its blob new (`ThumbsOnce`), versions as
often as users ask (`VersionOnce`); so what a job that is not repeated after a crash is to add, is
not there while it waits (`WaitingIsToDo`) nor while it has not got so far (`CurrentIsToDo`), and its inserts succeed unless two
of its versions have the same bytes or a file is missing. A location that appears between the check and
the insert of the job was saved by a user (`LocationIsTold`). `ThumbnailsAreThereOrComing` is inductive together
with these: the job is handed from the upload to `publishing`, to the queue, to the
worker, and ends with all thumbnails there (`AddedAreThere`), or in `unsent` (`PublishMoves`).

## What is only model-checked

- Liveness (`QueueDrains`, `RevisionsComplete`, `AccessesAreSaved`, `ResolversAreAnswered`,
  `SuccessIsStored`, `DownloadsAreServed`, `BackendsAreReleased`): beyond the prover, as is
  everything about ENABLED.
- Definitions by recursion over data: the library's theorems of induction take an operator as a parameter,
  which the installed provers cannot instantiate. Where a proof needs one it argues by the least
  counterexample (`LeastOfNaturals`), for one definition at a time.

Statements that fail for reasons other than a key (a lost connection) are modelled in
`EncryptionKeys`, `MediaJobs` and `BlockFiles` only.

## Not modelled

- Reporting: queries that are only read. Deployment: configuration.
- The pages of the portal other than the upload, the dialog that edits a file, the directory
  view and the search: they show what they are given.
- `AudioMetadataTaggingService` and the values of metadata: a tool's output is copied into a
  table. What ffmpeg or ImageMagick make of a file is one blob here.
- Command lines of rclone and of the tools, the mapping of OpenStreetMap's types, the
  connection pool, logging and HTTP routing: conversions and I/O without state of their own.
- Creation of containers, roles and tokens: the models take the users to be allowed what they do.
- The storage tier of access counters, their averages and last access: derived values.

`PROJECT.json` lists every component with its status, and under "hazards" the one without a
property: which of two revisions of one second is the newest (`FilesController.ts:159`). Either
is whole, and the models serve the one added last.

## Plan

What is left, in this order; a module that something is to be proved about has no RECURSIVE
operator and its parameters are constants with named assumptions.

1. The abstract specification of a file system of immutable revisions, which `BlobCatalog`
   implements while no request runs next to a collection.
