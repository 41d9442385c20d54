---------------------------- MODULE BlobCatalog ----------------------------
(***************************************************************************)
(* Files, revisions, blobs and blob blocks in the database: the storing    *)
(* half of FileUploadProcessor with BlobsController and FilesController,   *)
(* and GarbageColletor's deletions, statement by statement.                *)
(*                                                                         *)
(* Upload jobs and collections run one after the other in the job worker;  *)
(* requests that store a revision interleave with it.  What happens below  *)
(* a blob block (ProcessBlobBlockHashed, storage blocks) is one step here: *)
(* StorageBlocks has its details.  Blobs and blob blocks are named by      *)
(* their content, which is unique in their tables; an id of a deleted row  *)
(* is never used again, so a process that has read it holds a dead one.    *)
(* A blob is cut into the same blob blocks whoever cuts it.  Left out:     *)
(* metadata and versions of blobs, tags, locations and renaming of files,  *)
(* and the row locks of the transaction that a failing DeleteFile leaves   *)
(* open.                                                                   *)
(***************************************************************************)
EXTENDS Naturals, Sequences

CONSTANTS
    BlobBlocks,      \* contents of blob blocks
    Contents,        \* contents of blobs
    Parts,           \* Parts[c]: the blob blocks c is cut into
    Worker,          \* the job worker
    Requests,        \* requests that store a revision (UploadRevision)
    Names,           \* containerId and filePath of a file
    NoName,          \* no row in files
    Uploads,         \* upload sessions
    MaxFiles,        \* bound: rows ever inserted into files
    MaxCollections,  \* bound: garbage collection jobs
    MaxCrashes       \* bound: crashes of the process

Procs == {Worker} \cup Requests
FileIds == 1..MaxFiles
Indices(c) == DOMAIN Parts[c]
IsLeast(k, S) == k \in S /\ \A l \in S : k <= l

ASSUME WorkerIsNoRequest == Worker \notin Requests
ASSUME NoNameIsNoName == NoName \notin Names
ASSUME PartsAssumption ==
    /\ BlobBlocks # {} /\ Contents # {}
    /\ Parts \in [Contents -> Seq(BlobBlocks)]
    /\ \A c \in Contents : Parts[c] # <<>>
ASSUME CatalogBounds == MaxFiles \in Nat /\ MaxCollections \in Nat /\ MaxCrashes \in Nat

VARIABLES
    \* tables
    name,       \* files: the name of a row, NoName when there is none
    lastFile,   \* AUTO_INCREMENT of files
    expired,    \* files_deleted, once older than 30 days
    revs,       \* files_revisions: file and content of the blob
    thisSecond, \* those of them whose creationTimestamp is the current second
    blobs,      \* blobs
    parts,      \* blobs_blocks: parts[c] holds the indices stored of Parts[c]
    blobBlocks, \* blobblocks
    stored,     \* the blob blocks that lie in a storage block
    \* processes
    pc, content, file,
    held,       \* indices whose blob block id is alive
    todo,       \* indices still to be processed, or inserted
    blobId,     \* is the blob id alive
    target,     \* name of the file an upload job creates
    doomedFiles, doomedBlobs, doomedBlocks,  \* result sets of the collector
    blob, block,  \* blob and blob block the collector is deleting
    \* sessions, broker, environment
    session,    \* what an upload session was opened for
    temp,       \* uploads whose temporary file exists
    job, queue, collections, crashes,
    \* history
    lostFiles, lostBlobs, lostBlocks  \* left half done by an exception or a crash

files == <<name, lastFile, expired>>
revisions == <<revs, thisSecond>>
blobTables == <<blobs, parts, blobBlocks, stored>>
locals == <<content, file, held, todo, blobId, target>>
collector == <<doomedFiles, doomedBlobs, doomedBlocks, blob, block>>
jobs == <<temp, job, queue>>
outside == <<session, collections, crashes>>
lost == <<lostFiles, lostBlobs, lostBlocks>>
vars == <<files, revisions, blobTables, pc, locals, collector, jobs, outside, lost>>

\* The job of an upload, and the session that will send it: a new file has no
\* id yet, a revision needs no name.
NoFile == 0
Upload(u, n, i, c) ==
    [type |-> "upload-file", upload |-> u, name |-> n, file |-> i, content |-> c]
Session(n, i) == [type |-> "open", name |-> n, file |-> i]
Fresh      == [type |-> "fresh"]
Closed     == [type |-> "closed"]
CollectJob == [type |-> "collect-garbage"]
NoJob      == [type |-> "none"]

Existing == {i \in FileIds : name[i] # NoName}
Referenced(c) == \E i \in FileIds : <<i, c>> \in revs
InUse(b) == \E c \in Contents : \E i \in parts[c] : Parts[c][i] = b

Init ==
    /\ name = [i \in FileIds |-> NoName] /\ lastFile = 0 /\ expired = {}
    /\ revs = {} /\ thisSecond = {}
    /\ blobs = {} /\ parts = [c \in Contents |-> {}] /\ blobBlocks = {} /\ stored = {}
    /\ pc = [p \in Procs |-> "idle"]
    /\ \E c \in Contents : content = [p \in Procs |-> c]    \* unset
    /\ file = [p \in Procs |-> NoFile]
    /\ held = [p \in Procs |-> {}] /\ todo = [p \in Procs |-> {}]
    /\ blobId = [p \in Procs |-> FALSE] /\ target = [p \in Procs |-> NoName]
    /\ doomedFiles = {} /\ doomedBlobs = {} /\ doomedBlocks = {}
    /\ blob \in Contents /\ block \in BlobBlocks    \* unset
    /\ session = [u \in Uploads |-> Fresh] /\ temp = {}
    /\ job = NoJob /\ queue = <<>> /\ collections = 0 /\ crashes = 0
    /\ lostFiles = {} /\ lostBlobs = {} /\ lostBlocks = {}

Goto(p, l) == pc' = [pc EXCEPT ![p] = l]

\* An exception: the worker keeps its job for ever, and the promise of
\* ProcessStreamInParallel is never settled.
Fail(p) == Goto(p, "failed")

(***************************************************************************)
(* Storing a blob and its revision.                                        *)
(***************************************************************************)
Begin(p, c, i, n) ==
    /\ Goto(p, "blocks")
    /\ content' = [content EXCEPT ![p] = c]
    /\ file' = [file EXCEPT ![p] = i]
    /\ target' = [target EXCEPT ![p] = n]
    /\ todo' = [todo EXCEPT ![p] = Indices(c)]
    /\ held' = [held EXCEPT ![p] = {}]
    /\ blobId' = [blobId EXCEPT ![p] = FALSE]

\* UploadRevision
StartRevision(p) ==
    /\ p \in Requests
    /\ pc[p] = "idle"
    /\ \E i \in Existing, c \in Contents : Begin(p, c, i, NoName)
    /\ UNCHANGED <<files, revisions, blobTables, collector, jobs, outside, lost>>

\* One blob block found or stored: in order by ProcessFile, in parallel by
\* ProcessStreamInParallel.
ProcessBlobBlock(p) ==
    /\ pc[p] = "blocks"
    /\ \E i \in todo[p] :
         /\ p = Worker => IsLeast(i, todo[p])
         /\ LET b == Parts[content[p]][i] IN
              /\ blobBlocks' = blobBlocks \cup {b}
              /\ stored' = IF b \in blobBlocks THEN stored ELSE stored \cup {b}
         /\ held' = [held EXCEPT ![p] = @ \cup {i}]
         /\ IF todo[p] = {i}
            THEN /\ Goto(p, "findBlob")
                 /\ todo' = [todo EXCEPT ![p] = Indices(content[p])]
            ELSE /\ todo' = [todo EXCEPT ![p] = @ \ {i}]
                 /\ UNCHANGED pc
    /\ UNCHANGED <<files, revisions, blobs, parts, content, file, blobId, target, collector,
                   jobs, outside, lost>>

\* The blob is known by its id: create the file, or go on to the revision.
AfterBlob(p) == IF file[p] = NoFile THEN "file" ELSE "revision"

FindBlobByHash(p) ==
    /\ pc[p] = "findBlob"
    /\ IF content[p] \in blobs
       THEN Goto(p, AfterBlob(p)) /\ blobId' = [blobId EXCEPT ![p] = TRUE]
       ELSE Goto(p, "addBlob") /\ UNCHANGED blobId
    /\ UNCHANGED <<files, revisions, blobTables, content, file, held, todo, target, collector,
                   jobs, outside, lost>>

\* sha256sum is unique: the INSERT throws when somebody was faster.
AddBlob(p) ==
    /\ pc[p] = "addBlob"
    /\ IF content[p] \in blobs
       THEN Fail(p) /\ UNCHANGED <<blobs, blobId>>
       ELSE /\ blobs' = blobs \cup {content[p]}
            /\ blobId' = [blobId EXCEPT ![p] = TRUE]
            /\ Goto(p, "parts")
    /\ UNCHANGED <<files, revisions, parts, blobBlocks, stored, content, file, held, todo, target,
                   collector, jobs, outside, lost>>

\* Mutant: the loop ends one blob block early.
AddBlobPart_EndsEarly(p) ==
    /\ pc[p] = "parts"
    /\ \E i \in todo[p] :
         /\ IsLeast(i, todo[p])
         /\ \/ /\ blobId[p] /\ i \in held[p]
               /\ parts' = [parts EXCEPT ![content[p]] = @ \cup {i}]
               /\ todo' = [todo EXCEPT ![p] = @ \ {i}]
               /\ Goto(p, IF \A j \in todo[p] : j <= i + 1 THEN AfterBlob(p) ELSE "parts")
               /\ UNCHANGED lostBlobs
            \/ /\ ~ (blobId[p] /\ i \in held[p])
               /\ Fail(p)
               /\ lostBlobs' = IF blobId[p] THEN lostBlobs \cup {content[p]} ELSE lostBlobs
               /\ UNCHANGED <<parts, todo>>
    /\ UNCHANGED <<files, revisions, blobs, blobBlocks, stored, content, file, held, blobId,
                   target, collector, jobs, outside, lostFiles, lostBlocks>>

\* One row of blobs_blocks; both of its ids are foreign keys.
AddBlobPart(p) ==
    /\ pc[p] = "parts"
    /\ \E i \in todo[p] :
         /\ IsLeast(i, todo[p])
         /\ \/ /\ blobId[p] /\ i \in held[p]
               /\ parts' = [parts EXCEPT ![content[p]] = @ \cup {i}]
               /\ todo' = [todo EXCEPT ![p] = @ \ {i}]
               /\ Goto(p, IF todo[p] = {i} THEN AfterBlob(p) ELSE "parts")
               /\ UNCHANGED lostBlobs
            \/ /\ ~ (blobId[p] /\ i \in held[p])
               /\ Fail(p)
               /\ lostBlobs' = IF blobId[p] THEN lostBlobs \cup {content[p]} ELSE lostBlobs
               /\ UNCHANGED <<parts, todo>>
    /\ UNCHANGED <<files, revisions, blobs, blobBlocks, stored, content, file, held, blobId,
                   target, collector, jobs, outside, lostFiles, lostBlocks>>

\* containerId and filePath are unique, soft-deleted files included.
AddFile ==
    /\ pc[Worker] = "file"
    /\ \/ /\ \E i \in Existing : name[i] = target[Worker]
          /\ Fail(Worker)
          /\ UNCHANGED <<name, lastFile, file>>
       \/ /\ \A i \in Existing : name[i] # target[Worker]
          /\ lastFile < MaxFiles
          /\ lastFile' = lastFile + 1
          /\ name' = [name EXCEPT ![lastFile + 1] = target[Worker]]
          /\ file' = [file EXCEPT ![Worker] = lastFile + 1]
          /\ Goto(Worker, "revision")
    /\ UNCHANGED <<expired, revisions, blobTables, content, held, todo, blobId, target, collector,
                   jobs, outside, lost>>

\* Mutants of AddRevision: for new blobs only, and the unlink comes first.
AddRevision_NewBlobsOnly(p) ==
    /\ pc[p] = "revision"
    /\ \/ /\ blobId[p] /\ file[p] \in Existing
          /\ revs' = IF todo[p] = {} THEN revs \cup {<<file[p], content[p]>>} ELSE revs
          /\ Goto(p, IF p = Worker THEN "unlink" ELSE "done")
       \/ /\ ~ (blobId[p] /\ file[p] \in Existing)
          /\ Fail(p)
          /\ UNCHANGED revs
    /\ UNCHANGED thisSecond
    /\ UNCHANGED <<files, blobTables, locals, collector, jobs, outside, lost>>
AddRevision_UnlinksFirst(p) ==
    /\ pc[p] = "revision"
    /\ \/ /\ p = Worker /\ job.upload \in temp
          /\ temp' = temp \ {job.upload}
          /\ UNCHANGED <<pc, revs>>
       \/ /\ p = Worker => job.upload \notin temp
          /\ revs' = revs \cup {<<file[p], content[p]>>}
          /\ Goto(p, IF p = Worker THEN "unlink" ELSE "done")
          /\ UNCHANGED temp
    /\ UNCHANGED <<files, thisSecond, blobTables, locals, collector, job, queue, outside, lost>>

\* File and blob are foreign keys, and they and the second are the primary key.
AddRevision(p) ==
    LET row == <<file[p], content[p]>>
        fits == blobId[p] /\ file[p] \in Existing /\ row \notin thisSecond
    IN /\ pc[p] = "revision"
       /\ \/ /\ fits
             /\ revs' = revs \cup {row} /\ thisSecond' = thisSecond \cup {row}
             /\ Goto(p, IF p = Worker THEN "unlink" ELSE "done")
          \/ /\ ~ fits
             /\ Fail(p)
             /\ UNCHANGED revisions
       /\ UNCHANGED <<files, blobTables, locals, collector, jobs, outside, lost>>

Unlink ==
    /\ pc[Worker] = "unlink"
    /\ temp' = temp \ {job.upload}
    /\ Goto(Worker, "ack")
    /\ UNCHANGED <<files, revisions, blobTables, locals, collector, job, queue, outside, lost>>

Store(p) ==
    \/ ProcessBlobBlock(p) \/ FindBlobByHash(p) \/ AddBlob(p) \/ AddBlobPart(p)
    \/ AddRevision(p)

(***************************************************************************)
(* The job worker.                                                         *)
(***************************************************************************)
\* UploadFileFromDisk begins with stat, which throws when the file is gone.
Deliver ==
    /\ pc[Worker] = "idle"
    /\ queue # <<>>
    /\ job' = Head(queue)
    /\ queue' = Tail(queue)
    /\ \/ /\ job'.type = "upload-file" /\ job'.upload \in temp
          /\ Begin(Worker, job'.content, job'.file, job'.name)
       \/ /\ job'.type = "upload-file" /\ job'.upload \notin temp
          /\ Fail(Worker)
          /\ UNCHANGED locals
       \/ /\ job'.type = "collect-garbage"
          /\ Goto(Worker, "collect")
          /\ UNCHANGED locals
    /\ UNCHANGED <<files, revisions, blobTables, collector, temp, outside, lost>>

Acknowledge ==
    /\ pc[Worker] = "ack"
    /\ Goto(Worker, "idle")
    /\ job' = NoJob
    /\ UNCHANGED <<files, revisions, blobTables, locals, collector, temp, queue, outside, lost>>

(* GarbageColletor.Execute *)
FindSoftDeletedFiles ==
    /\ pc[Worker] = "collect"
    /\ doomedFiles' = expired \cap Existing
    /\ Goto(Worker, "nextFile")
    /\ UNCHANGED <<files, revisions, blobTables, locals, doomedBlobs, doomedBlocks, blob, block,
                   jobs, outside, lost>>

\* DeleteFile: the revisions go first, then the row in a transaction.
DeleteRevisions ==
    /\ pc[Worker] = "nextFile"
    /\ \E i \in doomedFiles :
         /\ file' = [file EXCEPT ![Worker] = i]
         /\ doomedFiles' = doomedFiles \ {i}
         /\ revs' = {r \in revs : r[1] # i}
         /\ thisSecond' = {r \in thisSecond : r[1] # i}
    /\ Goto(Worker, "deleteFile")
    /\ UNCHANGED <<files, blobTables, content, held, todo, blobId, target, doomedBlobs,
                   doomedBlocks, blob, block, jobs, outside, lost>>

DeleteFileRow ==
    /\ pc[Worker] = "deleteFile"
    /\ LET i == file[Worker] IN
       \/ /\ \E c \in Contents : <<i, c>> \in revs
          /\ Fail(Worker)
          /\ UNCHANGED <<name, expired>>
       \/ /\ \A c \in Contents : <<i, c>> \notin revs
          /\ name' = [name EXCEPT ![i] = NoName]
          /\ expired' = expired \ {i}
          /\ Goto(Worker, "nextFile")
    /\ UNCHANGED <<lastFile, revisions, blobTables, locals, collector, jobs, outside, lost>>

FindUnreferencedBlobs ==
    /\ pc[Worker] = "nextFile"
    /\ doomedFiles = {}
    /\ doomedBlobs' = {c \in blobs : ~ Referenced(c)}
    /\ Goto(Worker, "nextBlob")
    /\ UNCHANGED <<files, revisions, blobTables, locals, doomedFiles, doomedBlocks, blob, block,
                   jobs, outside, lost>>

\* Mutant of DeleteBlobParts: the rows of blobs_blocks stay.
DeleteBlobParts_Forgotten ==
    /\ pc[Worker] = "nextBlob"
    /\ \E c \in doomedBlobs :
         /\ blob' = c
         /\ doomedBlobs' = doomedBlobs \ {c}
    /\ Goto(Worker, "deleteBlob")
    /\ UNCHANGED <<files, revisions, blobTables, locals,
                   doomedFiles, doomedBlocks, block, jobs, outside, lost>>

\* DeleteBlob: its parts, then its row, which two foreign keys may protect.
DeleteBlobParts ==
    /\ pc[Worker] = "nextBlob"
    /\ \E c \in doomedBlobs :
         /\ blob' = c
         /\ doomedBlobs' = doomedBlobs \ {c}
         /\ parts' = [parts EXCEPT ![c] = {}]
    /\ Goto(Worker, "deleteBlob")
    /\ UNCHANGED <<files, revisions, blobs, blobBlocks, stored, locals,
                   doomedFiles, doomedBlocks, block, jobs, outside, lost>>

DeleteBlob ==
    /\ pc[Worker] = "deleteBlob"
    /\ LET c == blob IN
       \/ /\ Referenced(c) \/ parts[c] # {}
          /\ Fail(Worker)
          /\ lostBlobs' = lostBlobs \cup {c}
          /\ UNCHANGED <<blobs, blobId>>
       \/ /\ ~ Referenced(c) /\ parts[c] = {}
          /\ blobs' = blobs \ {c}
          /\ blobId' = [p \in Procs |-> blobId[p] /\ content[p] # c]
          /\ lostBlobs' = lostBlobs \ {c}
          /\ Goto(Worker, "nextBlob")
    /\ UNCHANGED <<files, revisions, parts, blobBlocks, stored, content, file, held, todo, target,
                   collector, jobs, outside, lostFiles, lostBlocks>>

FindUnreferencedBlobBlocks ==
    /\ pc[Worker] = "nextBlob"
    /\ doomedBlobs = {}
    /\ doomedBlocks' = {b \in blobBlocks : ~ InUse(b)}
    /\ Goto(Worker, "nextBlock")
    /\ UNCHANGED <<files, revisions, blobTables, locals, doomedFiles, doomedBlobs, blob, block,
                   jobs, outside, lost>>

\* DeleteBlobBlock: where it is stored, then its row, which blobs_blocks protects.
DeleteBlobBlockStorage ==
    /\ pc[Worker] = "nextBlock"
    /\ \E b \in doomedBlocks :
         /\ block' = b
         /\ doomedBlocks' = doomedBlocks \ {b}
         /\ stored' = stored \ {b}
    /\ Goto(Worker, "deleteBlock")
    /\ UNCHANGED <<files, revisions, blobs, parts, blobBlocks, locals, doomedFiles, doomedBlobs,
                   blob, jobs, outside, lost>>

DeleteBlobBlock ==
    /\ pc[Worker] = "deleteBlock"
    /\ \/ /\ InUse(block)
          /\ Fail(Worker)
          /\ lostBlocks' = lostBlocks \cup {block}
          /\ UNCHANGED <<blobBlocks, held>>
       \/ /\ ~ InUse(block)
          /\ blobBlocks' = blobBlocks \ {block}
          /\ held' = [p \in Procs |-> {i \in held[p] : Parts[content[p]][i] # block}]
          /\ lostBlocks' = lostBlocks \ {block}
          /\ Goto(Worker, "nextBlock")
    /\ UNCHANGED <<files, revisions, blobs, parts, stored, content, file, todo, blobId, target,
                   collector, jobs, outside, lostFiles, lostBlobs>>

\* The storage blocks are StorageBlocks' business; the job is acknowledged.
EndCollection ==
    /\ pc[Worker] = "nextBlock"
    /\ doomedBlocks = {}
    /\ Goto(Worker, "idle")
    /\ job' = NoJob
    /\ UNCHANGED <<files, revisions, blobTables, locals, collector, temp, queue, outside, lost>>

Collect ==
    \/ FindSoftDeletedFiles \/ DeleteRevisions \/ DeleteFileRow
    \/ FindUnreferencedBlobs \/ DeleteBlobParts \/ DeleteBlob
    \/ FindUnreferencedBlobBlocks \/ DeleteBlobBlockStorage \/ DeleteBlobBlock
    \/ EndCollection

Work == Deliver \/ Store(Worker) \/ AddFile \/ Unlink \/ Acknowledge \/ Collect

(***************************************************************************)
(* The environment.                                                        *)
(***************************************************************************)
InitNewFileUpload(u) ==
    /\ session[u] = Fresh
    /\ \E n \in Names :
         /\ \A i \in Existing : name[i] # n
         /\ session' = [session EXCEPT ![u] = Session(n, NoFile)]
    /\ temp' = temp \cup {u}
    /\ UNCHANGED <<files, revisions, blobTables, pc, locals, collector, job, queue,
                   collections, crashes, lost>>

InitNewRevisionUpload(u) ==
    /\ session[u] = Fresh
    /\ \E i \in Existing : session' = [session EXCEPT ![u] = Session(NoName, i)]
    /\ temp' = temp \cup {u}
    /\ UNCHANGED <<files, revisions, blobTables, pc, locals, collector, job, queue,
                   collections, crashes, lost>>

\* All chunks have been written; which bytes they are is the client's choice.
FinishUpload(u) ==
    /\ session[u] \notin {Fresh, Closed}
    /\ \E c \in Contents :
         queue' = Append(queue, Upload(u, session[u].name, session[u].file, c))
    /\ session' = [session EXCEPT ![u] = Closed]
    /\ UNCHANGED <<files, revisions, blobTables, pc, locals, collector, temp, job,
                   collections, crashes, lost>>

\* A combination of storage blocks has ended.
ScheduleCollection ==
    /\ collections < MaxCollections
    /\ collections' = collections + 1
    /\ queue' = Append(queue, CollectJob)
    /\ UNCHANGED <<files, revisions, blobTables, pc, locals, collector, temp, job, session,
                   crashes, lost>>

\* SoftDeleteFile, and 30 days.
ExpireFile ==
    /\ \E i \in Existing \ expired : expired' = expired \cup {i}
    /\ UNCHANGED <<name, lastFile, revisions, blobTables, pc, locals, collector, jobs,
                   outside, lost>>

\* Rows have a creationTimestamp of whole seconds.
NextSecond ==
    /\ thisSecond # {}
    /\ thisSecond' = {}
    /\ UNCHANGED <<files, revs, blobTables, pc, locals, collector, jobs, outside, lost>>

Adding(p, c) == pc[p] = "parts" /\ blobId[p] /\ content[p] = c
Deleting(c)  == pc[Worker] = "deleteBlob" /\ blob = c
Unstoring(b) == pc[Worker] = "deleteBlock" /\ block = b

\* What the statements under way leave behind when nobody continues them.
HalfDoneFiles ==
    {i \in Existing : \/ pc[Worker] = "revision" /\ job.file = NoFile /\ file[Worker] = i
                      \/ pc[Worker] = "deleteFile" /\ file[Worker] = i}
HalfDoneBlobs ==
    {c \in blobs : Deleting(c) \/ \E p \in Procs : Adding(p, c)}
HalfDoneBlocks == {b \in blobBlocks : Unstoring(b)}

\* The process dies and restarts: sessions and requests are gone, the broker
\* delivers the unacknowledged job again, before all others.
Crash ==
    /\ crashes < MaxCrashes
    /\ crashes' = crashes + 1
    /\ pc' = [p \in Procs |-> IF p = Worker \/ pc[p] = "idle" THEN "idle" ELSE "done"]
    /\ queue' = IF job = NoJob THEN queue ELSE <<job>> \o queue
    /\ job' = NoJob
    /\ session' = [u \in Uploads |-> IF session[u] = Fresh THEN Fresh ELSE Closed]
    /\ lostFiles' = lostFiles \cup HalfDoneFiles
    /\ lostBlobs' = lostBlobs \cup HalfDoneBlobs
    /\ lostBlocks' = lostBlocks \cup HalfDoneBlocks
    /\ UNCHANGED <<files, revisions, blobTables, locals, collector, temp, collections>>

Next ==
    \/ Work
    \/ \E p \in Requests : StartRevision(p) \/ Store(p)
    \/ \E u \in Uploads : InitNewFileUpload(u) \/ InitNewRevisionUpload(u) \/ FinishUpload(u)
    \/ ScheduleCollection \/ ExpireFile \/ NextSecond \/ Crash

Spec == Init /\ [][Next]_vars

(***************************************************************************)
(* Properties.                                                             *)
(***************************************************************************)
Labels == {"idle", "done", "failed", "blocks", "findBlob", "addBlob", "parts", "file",
           "revision", "unlink", "ack", "collect", "nextFile", "deleteFile", "nextBlob",
           "deleteBlob", "nextBlock", "deleteBlock"}
UploadJobs == [type : {"upload-file"}, upload : Uploads, name : Names \cup {NoName},
               file : FileIds \cup {NoFile}, content : Contents]
Sessions == [type : {"open"}, name : Names \cup {NoName}, file : FileIds \cup {NoFile}]

FilesOK ==
    /\ name \in [FileIds -> Names \cup {NoName}]
    /\ lastFile \in 0..MaxFiles
    /\ \A i \in Existing : i <= lastFile
    /\ expired \subseteq Existing
    /\ revs \subseteq Existing \X blobs /\ thisSecond \subseteq revs
BlobsOK ==
    /\ blobs \subseteq Contents
    /\ parts \in [Contents -> SUBSET Nat]
    /\ \A c \in Contents : parts[c] \subseteq Indices(c) /\ (parts[c] # {} => c \in blobs)
    /\ blobBlocks \subseteq BlobBlocks
    /\ \A c \in Contents : \A i \in parts[c] : Parts[c][i] \in blobBlocks
    /\ stored \subseteq blobBlocks
LocalsOK ==
    /\ pc \in [Procs -> Labels]
    /\ content \in [Procs -> Contents]
    /\ file \in [Procs -> FileIds \cup {NoFile}]
    /\ held \in [Procs -> SUBSET Nat] /\ todo \in [Procs -> SUBSET Nat]
    /\ \A p \in Procs : held[p] \cup todo[p] \subseteq Indices(content[p])
    /\ blobId \in [Procs -> BOOLEAN]
    /\ target \in [Procs -> Names \cup {NoName}]
CollectorOK ==
    /\ doomedFiles \subseteq FileIds
    /\ doomedBlobs \subseteq Contents /\ doomedBlocks \subseteq BlobBlocks
    /\ blob \in Contents /\ block \in BlobBlocks
OutsideOK ==
    /\ session \in [Uploads -> Sessions \cup {Fresh, Closed}]
    /\ temp \subseteq Uploads
    /\ job \in UploadJobs \cup {CollectJob, NoJob}
    /\ queue \in Seq(UploadJobs \cup {CollectJob})
    /\ collections \in 0..MaxCollections /\ crashes \in 0..MaxCrashes
    /\ lostFiles \subseteq FileIds
    /\ lostBlobs \subseteq Contents /\ lostBlocks \subseteq BlobBlocks

\* The type invariant, with the foreign keys of the tables: a revision has its
\* file and its blob, a part of a blob has its blob and its blob block.
CatalogTypeOK == FilesOK /\ BlobsOK /\ LocalsOK /\ CollectorOK /\ OutsideOK

\* A blob has all its parts, or whoever is inserting or deleting them is still at it,
\* or has been stopped by an exception or a crash.
Whole(c) ==
    parts[c] = Indices(c) \/ (\E p \in Procs : Adding(p, c)) \/ Deleting(c) \/ c \in lostBlobs

\* A blob block is stored, or the same holds for its deletion.
Stored(b) == b \in stored \/ Unstoring(b) \/ b \in lostBlocks

\* The bytes of a revision can be read: no interleaving of uploads, revisions and
\* collections leaves a file with a truncated blob or an unstored part unless an
\* exception or a crash has cut off the statements that add or delete it.
RevisionsAreReadable ==
    \A r \in revs : Whole(r[2]) /\ \A i \in parts[r[2]] : Stored(Parts[r[2]][i])

\* Handlers read QueryNewestRevision(...)!.blobId: a file has a revision except
\* between two statements of the job that creates or deletes it.
FilesHaveRevisions ==
    \A i \in Existing :
        \/ \E c \in blobs : <<i, c>> \in revs
        \/ pc[Worker] \in {"revision", "deleteFile"} /\ file[Worker] = i
        \/ i \in lostFiles

\* An uploaded file is deleted only when its bytes are a revision.
UploadsAreKept ==
    [][\A u \in temp \ temp' :
         job.upload = u /\ <<file[Worker], job.content>> \in revs]_vars

\* While no request has stored a revision four things stop the worker: the name of a
\* new file is taken by now, the file to be revised is gone, the same bytes became a
\* revision of it within this second, or a crash came between the unlinking of the
\* temporary file and the acknowledgement.
WorkerStopsOnlyOverFiles ==
    [][(pc'[Worker] = "failed" /\ pc[Worker] # "failed" /\ \A p \in Requests : pc[p] = "idle") =>
         /\ job'.type = "upload-file"
         /\ \/ job'.file = NoFile /\ \E i \in Existing : name[i] = job'.name
            \/ job'.file # NoFile /\ job'.file \notin Existing
            \/ job'.file # NoFile /\ <<job'.file, job'.content>> \in thisSecond
            \/ crashes > 0 /\ job'.upload \notin temp]_vars

=============================================================================
