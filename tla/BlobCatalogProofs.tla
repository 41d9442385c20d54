------------------------- MODULE BlobCatalogProofs -------------------------
(***************************************************************************)
(* Theorems about BlobCatalog: for any number of requests, files, blobs    *)
(* and crashes a revision stays readable, a file keeps a revision and an   *)
(* upload is not deleted before it is one; and what can stop the worker    *)
(* when it is the only one that stores.                                    *)
(***************************************************************************)
EXTENDS BlobCatalog, TLAPS

(***************************************************************************)
(* The inductive invariant.                                                *)
(***************************************************************************)
\* An id a process holds belongs to a row: what makes the foreign keys of its
\* inserts come true.
IdsInv ==
    \A p \in Procs : /\ blobId[p] => content[p] \in blobs
                     /\ \A i \in held[p] : Parts[content[p]][i] \in blobBlocks

\* Nothing is inserted before the blob, one process inserts the parts of a blob,
\* and those not there yet are those it has still to do, unless the collector
\* has taken parts away.
AddersInv ==
    /\ \A p \in Procs :
         pc[p] \in {"findBlob", "addBlob"} => todo[p] = Indices(content[p])
    /\ \A p, q \in Procs : \A c \in Contents : Adding(p, c) /\ Adding(q, c) => p = q
    /\ \A p \in Procs : \A c \in Contents : Adding(p, c) =>
         parts[c] \cup todo[p] = Indices(c) \/ Deleting(c) \/ c \in lostBlobs

WholeInv  == \A c \in blobs : Whole(c)
StoredInv == \A b \in blobBlocks : Stored(b)

\* What the collector is going to delete is still there, and no longer stored
\* once it has begun.
CollectorInv ==
    /\ pc[Worker] \in {"nextBlock", "deleteBlock"} => doomedBlocks \subseteq blobBlocks
    /\ pc[Worker] = "deleteBlock" => block \in blobBlocks \ (stored \cup doomedBlocks)

\* The worker's locals are those of its job, its blob id is alive because the only
\* one to delete blobs is the worker, and it unlinks what it has stored.
WorkerInv ==
    /\ pc[Worker] \in {"blocks", "findBlob", "addBlob", "parts", "file"} =>
         file[Worker] = job.file
    /\ pc[Worker] \in {"blocks", "findBlob", "addBlob", "parts", "file", "revision"} =>
         content[Worker] = job.content
    /\ pc[Worker] = "file" => file[Worker] = NoFile
    /\ pc[Worker] \in {"parts", "file", "revision"} => blobId[Worker]
    /\ pc[Worker] = "unlink" => <<file[Worker], job.content>> \in revs

FilesInv ==
    \A i \in Existing :
        \/ \E c \in Contents : <<i, c>> \in revs
        \/ pc[Worker] = "revision" /\ job.file = NoFile /\ file[Worker] = i
        \/ pc[Worker] = "deleteFile" /\ file[Worker] = i
        \/ i \in lostFiles

CatalogInv ==
    /\ CatalogTypeOK /\ IdsInv /\ AddersInv /\ WholeInv /\ StoredInv
    /\ CollectorInv /\ WorkerInv /\ FilesInv

LEMMA CatalogInvInit == Init => CatalogInv
<1> SUFFICES ASSUME Init PROVE CatalogInv
  OBVIOUS
<1> USE WorkerIsNoRequest, NoNameIsNoName, CatalogBounds DEF Init
<1>1. FilesOK /\ OutsideOK
  BY DEF FilesOK, Existing, FileIds, OutsideOK, Fresh, NoJob
<1>2. BlobsOK /\ CollectorOK
  BY DEF BlobsOK, CollectorOK, Indices
<1>3. LocalsOK
  BY DEF LocalsOK, Labels, Indices, NoFile
<1>4. IdsInv /\ WholeInv /\ StoredInv /\ CollectorInv
  BY DEF IdsInv, WholeInv, StoredInv, CollectorInv, Procs
<1>5. AddersInv /\ WorkerInv /\ FilesInv
  BY DEF AddersInv, Adding, WorkerInv, FilesInv, Existing, Procs
<1> QED
  BY <1>1, <1>2, <1>3, <1>4, <1>5 DEF CatalogInv, CatalogTypeOK

(***************************************************************************)
(* The tables.                                                             *)
(***************************************************************************)
LEMMA FilesStep == ASSUME CatalogInv, Next PROVE FilesOK'
<1>a. FilesOK /\ BlobsOK /\ LocalsOK /\ CollectorOK /\ IdsInv /\ Worker \in Procs
  BY DEF CatalogInv, CatalogTypeOK, Procs
<1> USE <1>a, NoNameIsNoName, CatalogBounds DEF files, revisions,
       blobTables, locals, collector, jobs, outside, FilesOK, Existing, FileIds
<1>1. CASE UNCHANGED <<files, revisions, blobs>>
  BY <1>1
<1>2. CASE \E p \in Procs : AddBlob(p)
  BY <1>2 DEF AddBlob
<1>3. CASE \E p \in Procs : AddRevision(p)
  BY <1>3 DEF AddRevision, IdsInv
<1>4. CASE AddFile
  <2>1. CASE name' = name /\ lastFile' = lastFile
    BY <1>4, <2>1 DEF AddFile
  <2>2. CASE /\ lastFile < MaxFiles /\ lastFile' = lastFile + 1
             /\ name' = [name EXCEPT ![lastFile + 1] = target[Worker]]
    <3>1. name[lastFile + 1] = NoName
      BY <2>2
    <3>2. \A i \in 1..MaxFiles : i # lastFile + 1 => name'[i] = name[i]
      BY <2>2
    <3>3. name' \in [1..MaxFiles -> Names \cup {NoName}] /\ lastFile' \in 0..MaxFiles
      BY <2>2 DEF LocalsOK
    <3> QED
      BY <1>4, <2>2, <3>1, <3>2, <3>3 DEF AddFile
  <2> QED
    BY <1>4, <2>1, <2>2 DEF AddFile
<1>5. CASE DeleteRevisions
  BY <1>5 DEF DeleteRevisions
<1>6. CASE DeleteFileRow
  <2>1. CASE name' = name /\ expired' = expired
    BY <1>6, <2>1 DEF DeleteFileRow
  <2>2. CASE /\ \A c \in Contents : <<file[Worker], c>> \notin revs
             /\ name' = [name EXCEPT ![file[Worker]] = NoName]
             /\ expired' = expired \ {file[Worker]}
    <3>1. UNCHANGED <<lastFile, revisions, blobs>> /\ file[Worker] \in FileIds \cup {NoFile}
      BY <1>6 DEF DeleteFileRow, LocalsOK
    <3>2. \A i \in 1..MaxFiles : name'[i] = IF i = file[Worker] THEN NoName ELSE name[i]
      BY <2>2
    <3>3. revs' \subseteq Existing' \X blobs'
      <4> SUFFICES ASSUME NEW r \in revs PROVE r[1] # file[Worker]
        BY <3>1, <3>2
      <4>1. r[2] \in Contents /\ r = <<r[1], r[2]>>
        BY DEF BlobsOK
      <4> QED
        BY <2>2, <4>1
    <3> QED
      BY <2>2, <3>1, <3>2, <3>3
  <2> QED
    BY <1>6, <2>1, <2>2 DEF DeleteFileRow
<1>7. CASE DeleteBlob
  <2>1. UNCHANGED <<files, revisions>>
    BY <1>7 DEF DeleteBlob
  <2>2. \/ blobs' = blobs
        \/ blobs' = blobs \ {blob} /\ \A i \in FileIds : <<i, blob>> \notin revs
    BY <1>7 DEF DeleteBlob, Referenced
  <2>3. revs \subseteq Existing \X blobs'
    BY <2>2
  <2> QED
    BY <2>1, <2>3
<1>8. CASE ExpireFile \/ NextSecond
  BY <1>8 DEF ExpireFile, NextSecond
<1>9. \/ UNCHANGED <<files, revisions, blobs>> \/ \E p \in Procs : AddBlob(p) \/ AddRevision(p)
      \/ AddFile \/ DeleteRevisions \/ DeleteFileRow \/ DeleteBlob \/ ExpireFile \/ NextSecond
  BY DEF Next, Work, Store, Collect, Procs, StartRevision, ProcessBlobBlock, FindBlobByHash,
         AddBlobPart, Unlink, Deliver, Acknowledge, FindSoftDeletedFiles,
         FindUnreferencedBlobs, DeleteBlobParts, FindUnreferencedBlobBlocks,
         DeleteBlobBlockStorage, DeleteBlobBlock, EndCollection, InitNewFileUpload,
         InitNewRevisionUpload, FinishUpload, ScheduleCollection, Crash
<1> QED
  BY <1>1, <1>2, <1>3, <1>4, <1>5, <1>6, <1>7, <1>8, <1>9

LEMMA BlobsStep == ASSUME CatalogInv, Next PROVE BlobsOK'
<1>a. BlobsOK /\ LocalsOK /\ CollectorOK /\ IdsInv /\ CollectorInv /\ Worker \in Procs
  BY DEF CatalogInv, CatalogTypeOK, Procs
<1> USE <1>a, PartsAssumption DEF files, revisions, blobTables, locals, collector, jobs, outside, BlobsOK,
       Indices
<1>1. CASE UNCHANGED blobTables
  BY <1>1
<1>2. CASE \E p \in Procs : ProcessBlobBlock(p)
  <2> PICK p \in Procs : ProcessBlobBlock(p)
    BY <1>2
  <2> PICK i \in todo[p] :
         /\ blobBlocks' = blobBlocks \cup {Parts[content[p]][i]}
         /\ stored' = IF Parts[content[p]][i] \in blobBlocks THEN stored
                      ELSE stored \cup {Parts[content[p]][i]}
    BY DEF ProcessBlobBlock
  <2>1. Parts[content[p]][i] \in BlobBlocks
    BY DEF LocalsOK
  <2> QED
    BY <2>1 DEF ProcessBlobBlock
<1>3. CASE \E p \in Procs : AddBlob(p)
  BY <1>3 DEF AddBlob, LocalsOK
<1>4. CASE \E p \in Procs : AddBlobPart(p)
  <2> PICK p \in Procs : AddBlobPart(p)
    BY <1>4
  <2>1. PICK i \in todo[p] :
          \/ parts' = parts
          \/ /\ blobId[p] /\ i \in held[p]
             /\ parts' = [parts EXCEPT ![content[p]] = @ \cup {i}]
    BY DEF AddBlobPart
  <2>2. i \in Nat /\ i \in Indices(content[p]) /\ content[p] \in Contents
    BY DEF LocalsOK
  <2>3. UNCHANGED <<blobs, blobBlocks, stored>>
    BY DEF AddBlobPart
  <2>4. CASE parts' = parts
    BY <2>3, <2>4
  <2>5. CASE /\ blobId[p] /\ i \in held[p]
             /\ parts' = [parts EXCEPT ![content[p]] = @ \cup {i}]
    <3>1. content[p] \in blobs /\ Parts[content[p]][i] \in blobBlocks
      BY <2>5 DEF IdsInv
    <3>2. \A c \in Contents : parts'[c] = IF c = content[p] THEN parts[c] \cup {i} ELSE parts[c]
      BY <2>5
    <3> QED
      BY <2>2, <2>3, <2>5, <3>1, <3>2
  <2> QED
    BY <2>1, <2>4, <2>5
<1>5. CASE DeleteBlobParts
  <2> PICK c \in doomedBlobs : parts' = [parts EXCEPT ![c] = {}]
    BY <1>5 DEF DeleteBlobParts
  <2>1. \A d \in Contents : parts'[d] = IF d = c THEN {} ELSE parts[d]
    OBVIOUS
  <2> QED
    BY <1>5, <2>1 DEF DeleteBlobParts
<1>6. CASE DeleteBlob
  BY <1>6 DEF DeleteBlob
<1>7. CASE DeleteBlobBlockStorage
  BY <1>7 DEF DeleteBlobBlockStorage
<1>8. CASE DeleteBlobBlock
  BY <1>8 DEF DeleteBlobBlock, InUse, CollectorInv
<1>9. \/ UNCHANGED blobTables
      \/ \E p \in Procs : ProcessBlobBlock(p) \/ AddBlob(p) \/ AddBlobPart(p)
      \/ DeleteBlobParts \/ DeleteBlob \/ DeleteBlobBlockStorage \/ DeleteBlobBlock
  BY DEF Next, Work, Store, Collect, Procs, StartRevision, FindBlobByHash, AddRevision, AddFile,
         Unlink, Deliver, Acknowledge, FindSoftDeletedFiles, DeleteRevisions, DeleteFileRow,
         FindUnreferencedBlobs, FindUnreferencedBlobBlocks, EndCollection, InitNewFileUpload,
         InitNewRevisionUpload, FinishUpload, ScheduleCollection, ExpireFile, NextSecond, Crash
<1> QED
  BY <1>1, <1>2, <1>3, <1>4, <1>5, <1>6, <1>7, <1>8, <1>9

(***************************************************************************)
(* Locals, queue and sessions.                                             *)
(***************************************************************************)
LEMMA JobsAreTyped ==
    /\ \A u \in Uploads, n \in Names \cup {NoName}, i \in FileIds \cup {NoFile}, c \in Contents :
         Upload(u, n, i, c) \in UploadJobs
    /\ \A n \in Names \cup {NoName}, i \in FileIds \cup {NoFile} : Session(n, i) \in Sessions
    /\ \A j \in UploadJobs \cup {CollectJob, NoJob} :
         j.type = "upload-file" =>
            /\ j.upload \in Uploads /\ j.name \in Names \cup {NoName}
            /\ j.file \in FileIds \cup {NoFile} /\ j.content \in Contents
    /\ \A x \in Sessions \cup {Fresh, Closed} : x \notin {Fresh, Closed} =>
            x.name \in Names \cup {NoName} /\ x.file \in FileIds \cup {NoFile}
  BY DEF Upload, Session, UploadJobs, Sessions, CollectJob, NoJob, Fresh, Closed

LEMMA BeginTyped ==
    ASSUME LocalsOK, NEW p \in Procs, NEW c \in Contents, NEW i \in FileIds \cup {NoFile},
           NEW n \in Names \cup {NoName}, Begin(p, c, i, n)
    PROVE  LocalsOK'
<1>1. Indices(c) \subseteq Nat
  BY PartsAssumption DEF Indices
<1> QED
  BY <1>1 DEF Begin, Goto, LocalsOK, Labels, Indices

LEMMA LocalsStep == ASSUME CatalogInv, Next PROVE LocalsOK'
<1>a. FilesOK /\ BlobsOK /\ LocalsOK /\ CollectorOK /\ OutsideOK /\ Worker \in Procs
  BY DEF CatalogInv, CatalogTypeOK, Procs
<1> USE <1>a, PartsAssumption, CatalogBounds DEF locals, Indices, Goto, Fail
<1>1. CASE UNCHANGED locals /\ \E p \in Procs, l \in Labels : pc' \in {pc, [pc EXCEPT ![p] = l]}
  BY <1>1 DEF LocalsOK
<1>2. CASE \E p \in Requests : StartRevision(p)
  BY <1>2, BeginTyped DEF StartRevision, Procs, Existing
<1>3. CASE Deliver
  <2>1. job' \in UploadJobs \cup {CollectJob}
    BY <1>3 DEF Deliver, OutsideOK
  <2>2. CASE UNCHANGED locals /\ \E l \in Labels : pc' = [pc EXCEPT ![Worker] = l]
    BY <2>2 DEF LocalsOK
  <2>3. CASE job'.type = "upload-file" /\ Begin(Worker, job'.content, job'.file, job'.name)
    BY <2>1, <2>3, BeginTyped, JobsAreTyped
  <2> QED
    BY <1>3, <2>2, <2>3 DEF Deliver, Labels
<1>4. CASE \E p \in Procs : ProcessBlobBlock(p)
  <2> PICK p \in Procs : ProcessBlobBlock(p)
    BY <1>4
  <2>1. PICK i \in todo[p] :
          /\ held' = [held EXCEPT ![p] = @ \cup {i}]
          /\ \/ /\ pc' = [pc EXCEPT ![p] = "findBlob"]
                /\ todo' = [todo EXCEPT ![p] = DOMAIN Parts[content[p]]]
             \/ /\ pc' = pc
                /\ todo' = [todo EXCEPT ![p] = @ \ {i}]
    BY DEF ProcessBlobBlock
  <2>2. DOMAIN Parts[content[p]] \subseteq Nat
    BY DEF LocalsOK
  <2>3. pc' \in [Procs -> Labels]
    BY <2>1 DEF LocalsOK, Labels
  <2>4. /\ held' \in [Procs -> SUBSET Nat] /\ todo' \in [Procs -> SUBSET Nat]
        /\ \A q \in Procs : held'[q] \cup todo'[q] \subseteq DOMAIN Parts[content[q]]
    <3>1. i \in DOMAIN Parts[content[p]] /\ i \in Nat
      BY <2>2 DEF LocalsOK
    <3>2. held' \in [Procs -> SUBSET Nat]
      BY <2>1, <3>1 DEF LocalsOK
    <3>3. todo' \in [Procs -> SUBSET Nat]
      BY <2>1, <2>2, ZenonT(60) DEF LocalsOK
    <3>4. \A q \in Procs : held'[q] \subseteq DOMAIN Parts[content[q]]
      BY <2>1, <3>1 DEF LocalsOK
    <3>5. \A q \in Procs : todo'[q] \subseteq DOMAIN Parts[content[q]]
      BY <2>1 DEF LocalsOK
    <3> QED
      BY <3>2, <3>3, <3>4, <3>5
  <2> QED
    BY <2>3, <2>4 DEF ProcessBlobBlock, LocalsOK
<1>5. CASE \E p \in Procs : FindBlobByHash(p)
  BY <1>5 DEF FindBlobByHash, AfterBlob, LocalsOK, Labels
<1>6. CASE \E p \in Procs : AddBlob(p)
  BY <1>6 DEF AddBlob, LocalsOK, Labels
<1>7. CASE \E p \in Procs : AddBlobPart(p)
  <2> PICK p \in Procs : AddBlobPart(p)
    BY <1>7
  <2>1. UNCHANGED <<content, file, held, blobId, target>>
    BY DEF AddBlobPart
  <2>2. \E l \in Labels : pc' = [pc EXCEPT ![p] = l]
    BY DEF AddBlobPart, AfterBlob, Labels
  <2>3. \E i \in todo[p] : todo' \in {todo, [todo EXCEPT ![p] = @ \ {i}]}
    BY DEF AddBlobPart
  <2>4. /\ todo' \in [Procs -> SUBSET Nat]
        /\ \A q \in Procs : todo'[q] \subseteq todo[q]
    BY <2>3 DEF LocalsOK
  <2>5. \A q \in Procs : held[q] \cup todo'[q] \subseteq DOMAIN Parts[content[q]]
    BY <2>4 DEF LocalsOK
  <2>6. pc' \in [Procs -> Labels]
    BY <2>2 DEF LocalsOK
  <2> QED
    BY <2>1, <2>4, <2>5, <2>6 DEF LocalsOK
<1>8. CASE AddFile
  <2>1. UNCHANGED <<content, held, todo, blobId, target>>
    BY <1>8 DEF AddFile
  <2>2. \E l \in Labels : pc' = [pc EXCEPT ![Worker] = l]
    BY <1>8 DEF AddFile, Labels
  <2>3. file' \in [Procs -> FileIds \cup {NoFile}]
    <3>1. CASE file' = file
      BY <3>1 DEF LocalsOK
    <3>2. CASE lastFile < MaxFiles /\ file' = [file EXCEPT ![Worker] = lastFile + 1]
      BY <3>2 DEF FilesOK, FileIds, LocalsOK
    <3> QED
      BY <1>8, <3>1, <3>2 DEF AddFile
  <2> QED
    BY <2>1, <2>2, <2>3 DEF LocalsOK
<1>9. CASE DeleteRevisions
  BY <1>9 DEF DeleteRevisions, LocalsOK, Labels, CollectorOK
<1>10. CASE DeleteBlob
  BY <1>10 DEF DeleteBlob, LocalsOK, Labels
<1>11. CASE DeleteBlobBlock
  <2>1. UNCHANGED <<content, file, todo, blobId, target>>
    BY <1>11 DEF DeleteBlobBlock
  <2>2. \E l \in Labels : pc' = [pc EXCEPT ![Worker] = l]
    BY <1>11 DEF DeleteBlobBlock, Labels
  <2>3. /\ held' \in [Procs -> SUBSET Nat]
        /\ \A q \in Procs : held'[q] \subseteq held[q]
    BY <1>11 DEF DeleteBlobBlock, LocalsOK
  <2>4. \A q \in Procs : held'[q] \cup todo[q] \subseteq DOMAIN Parts[content[q]]
    BY <2>3 DEF LocalsOK
  <2>5. pc' \in [Procs -> Labels]
    BY <2>2 DEF LocalsOK
  <2> QED
    BY <2>1, <2>3, <2>4, <2>5 DEF LocalsOK
<1>12. CASE Crash
  BY <1>12 DEF Crash, LocalsOK, Labels
<1>13. \/ UNCHANGED locals /\ \E p \in Procs, l \in Labels : pc' \in {pc, [pc EXCEPT ![p] = l]}
       \/ \E p \in Requests : StartRevision(p)
       \/ \E p \in Procs : ProcessBlobBlock(p) \/ FindBlobByHash(p) \/ AddBlob(p) \/ AddBlobPart(p)
       \/ Deliver \/ AddFile \/ DeleteRevisions \/ DeleteBlob \/ DeleteBlobBlock \/ Crash
  <2>1. ASSUME NEW p \in Procs, AddRevision(p)
        PROVE  UNCHANGED locals /\ \E l \in Labels : pc' \in {pc, [pc EXCEPT ![p] = l]}
    BY <2>1 DEF AddRevision, Labels
  <2>2. CASE Unlink \/ Acknowledge \/ FindSoftDeletedFiles \/ DeleteFileRow
             \/ FindUnreferencedBlobs \/ DeleteBlobParts \/ FindUnreferencedBlobBlocks
             \/ DeleteBlobBlockStorage \/ EndCollection
    <3>1. UNCHANGED locals /\ \E l \in Labels : pc' = [pc EXCEPT ![Worker] = l]
      BY <2>2 DEF Unlink, Acknowledge, FindSoftDeletedFiles, DeleteFileRow, FindUnreferencedBlobs,
           DeleteBlobParts, FindUnreferencedBlobBlocks, DeleteBlobBlockStorage, EndCollection, Labels
    <3> QED
      BY <3>1
  <2>3. CASE \/ \E u \in Uploads : InitNewFileUpload(u) \/ InitNewRevisionUpload(u) \/ FinishUpload(u)
             \/ ScheduleCollection \/ ExpireFile \/ NextSecond
    <3>1. UNCHANGED <<locals, pc>> /\ "idle" \in Labels
      BY <2>3 DEF InitNewFileUpload, InitNewRevisionUpload, FinishUpload, ScheduleCollection,
           ExpireFile, NextSecond, Labels
    <3> QED
      BY <3>1
  <2> QED
    BY <2>1, <2>2, <2>3 DEF Next, Work, Store, Collect, Procs
<1> QED
  BY <1>1, <1>2, <1>3, <1>4, <1>5, <1>6, <1>7, <1>8, <1>9, <1>10, <1>11, <1>12, <1>13

LEMMA CollectorStep == ASSUME CatalogInv, Next PROVE CollectorOK'
<1>a. FilesOK /\ BlobsOK /\ CollectorOK
  BY DEF CatalogInv, CatalogTypeOK
<1> USE <1>a DEF collector, CollectorOK
<1>1. CASE UNCHANGED collector
  BY <1>1
<1>2. CASE FindSoftDeletedFiles \/ DeleteRevisions
  BY <1>2 DEF FindSoftDeletedFiles, DeleteRevisions, Existing
<1>3. CASE FindUnreferencedBlobs \/ DeleteBlobParts
  BY <1>3 DEF FindUnreferencedBlobs, DeleteBlobParts, BlobsOK
<1>4. CASE FindUnreferencedBlobBlocks \/ DeleteBlobBlockStorage
  BY <1>4 DEF FindUnreferencedBlobBlocks, DeleteBlobBlockStorage, BlobsOK
<1>5. \/ UNCHANGED collector \/ FindSoftDeletedFiles \/ DeleteRevisions \/ FindUnreferencedBlobs
      \/ DeleteBlobParts \/ FindUnreferencedBlobBlocks \/ DeleteBlobBlockStorage
  BY DEF Next, Work, Store, Collect, StartRevision, ProcessBlobBlock, FindBlobByHash, AddBlob,
         AddBlobPart, AddRevision, AddFile, Unlink, Deliver, Acknowledge, DeleteFileRow, DeleteBlob,
         DeleteBlobBlock, EndCollection, InitNewFileUpload, InitNewRevisionUpload, FinishUpload,
         ScheduleCollection, ExpireFile, NextSecond, Crash
<1> QED
  BY <1>1, <1>2, <1>3, <1>4, <1>5

LEMMA OutsideStep == ASSUME CatalogInv, Next PROVE OutsideOK'
<1>a. FilesOK /\ BlobsOK /\ LocalsOK /\ CollectorOK /\ OutsideOK /\ Worker \in Procs
  BY DEF CatalogInv, CatalogTypeOK, Procs
<1> USE <1>a, CatalogBounds DEF jobs, outside, lost, OutsideOK
<1>1. CASE UNCHANGED <<jobs, outside, lost>>
  BY <1>1
<1>2. CASE Deliver
  BY <1>2 DEF Deliver
<1>3. CASE Acknowledge \/ EndCollection
  BY <1>3 DEF Acknowledge, EndCollection
<1>4. CASE Unlink
  BY <1>4 DEF Unlink
<1>5. CASE \E p \in Procs : AddBlobPart(p)
  BY <1>5 DEF AddBlobPart, LocalsOK
<1>6. CASE DeleteBlob \/ DeleteBlobBlock
  BY <1>6 DEF DeleteBlob, DeleteBlobBlock, CollectorOK
<1>7. CASE \E u \in Uploads : InitNewFileUpload(u)
  BY <1>7, JobsAreTyped DEF InitNewFileUpload
<1>8. CASE \E u \in Uploads : InitNewRevisionUpload(u)
  BY <1>8, JobsAreTyped DEF InitNewRevisionUpload, Existing
<1>9. CASE \E u \in Uploads : FinishUpload(u)
  <2> PICK u \in Uploads : FinishUpload(u)
    BY <1>9
  <2>1. PICK c \in Contents :
          queue' = Append(queue, Upload(u, session[u].name, session[u].file, c))
    BY DEF FinishUpload
  <2>2. Upload(u, session[u].name, session[u].file, c) \in UploadJobs
    BY JobsAreTyped DEF FinishUpload
  <2>3. queue' \in Seq(UploadJobs \cup {CollectJob})
    BY <2>1, <2>2
  <2> QED
    BY <2>3 DEF FinishUpload
<1>10. CASE ScheduleCollection
  BY <1>10 DEF ScheduleCollection
<1>11. CASE Crash
  <2>1. queue' \in Seq(UploadJobs \cup {CollectJob})
    <3>1. CASE job = NoJob
      BY <1>11, <3>1 DEF Crash
    <3>2. CASE job # NoJob
      <4>1. <<job>> \in Seq(UploadJobs \cup {CollectJob})
        BY <3>2
      <4> QED
        BY <1>11, <3>2, <4>1 DEF Crash
    <3> QED
      BY <3>1, <3>2
  <2>2. session' \in [Uploads -> Sessions \cup {Fresh, Closed}]
    BY <1>11 DEF Crash
  <2>3. lostFiles' \subseteq FileIds /\ lostBlobs' \subseteq Contents /\ lostBlocks' \subseteq BlobBlocks
    BY <1>11 DEF Crash, HalfDoneFiles, HalfDoneBlobs, HalfDoneBlocks, Existing, BlobsOK
  <2> QED
    BY <1>11, <2>1, <2>2, <2>3 DEF Crash
<1>12. \/ UNCHANGED <<jobs, outside, lost>> \/ Deliver \/ Acknowledge \/ EndCollection \/ Unlink
       \/ \E p \in Procs : AddBlobPart(p)
       \/ DeleteBlob \/ DeleteBlobBlock
       \/ \E u \in Uploads : InitNewFileUpload(u) \/ InitNewRevisionUpload(u) \/ FinishUpload(u)
       \/ ScheduleCollection \/ Crash
  BY DEF Next, Work, Store, Collect, Procs, StartRevision, ProcessBlobBlock, FindBlobByHash, AddBlob,
         AddRevision, AddFile, FindSoftDeletedFiles, DeleteRevisions, DeleteFileRow,
         FindUnreferencedBlobs, DeleteBlobParts, FindUnreferencedBlobBlocks,
         DeleteBlobBlockStorage, ExpireFile, NextSecond
<1> QED
  BY <1>1, <1>2, <1>3, <1>4, <1>5, <1>6, <1>7, <1>8, <1>9, <1>10, <1>11, <1>12

(***************************************************************************)
(* Ids, stored blob blocks and the collector's results.                    *)
(***************************************************************************)
LEMMA IdsStep == ASSUME CatalogInv, Next PROVE IdsInv'
<1>a. BlobsOK /\ LocalsOK /\ CollectorOK /\ IdsInv /\ Worker \in Procs
  BY DEF CatalogInv, CatalogTypeOK, Procs
<1> USE <1>a DEF blobTables, locals
<1>1. CASE UNCHANGED <<content, held, blobId, blobs, blobBlocks>>
  BY <1>1 DEF IdsInv
<1>2. ASSUME NEW p \in Procs, NEW c, NEW i, NEW n, Begin(p, c, i, n), UNCHANGED <<blobs, blobBlocks>>
      PROVE  IdsInv'
  BY <1>2 DEF Begin, IdsInv, LocalsOK
<1>3. CASE \E p \in Procs : ProcessBlobBlock(p)
  <2> PICK p \in Procs : ProcessBlobBlock(p)
    BY <1>3
  <2>1. PICK i \in todo[p] : /\ blobBlocks' = blobBlocks \cup {Parts[content[p]][i]}
                             /\ held' = [held EXCEPT ![p] = @ \cup {i}]
    BY DEF ProcessBlobBlock
  <2>2. UNCHANGED <<content, blobId, blobs>>
    BY DEF ProcessBlobBlock
  <2>3. \A q \in Procs : held'[q] \subseteq IF q = p THEN held[q] \cup {i} ELSE held[q]
    BY <2>1 DEF LocalsOK
  <2> QED
    BY <2>1, <2>2, <2>3 DEF IdsInv
<1>4. CASE \E p \in Procs : FindBlobByHash(p) \/ AddBlob(p)
  BY <1>4 DEF FindBlobByHash, AddBlob, IdsInv, LocalsOK
<1>5. CASE DeleteBlob
  BY <1>5 DEF DeleteBlob, IdsInv, LocalsOK
<1>6. CASE DeleteBlobBlock
  BY <1>6 DEF DeleteBlobBlock, IdsInv, LocalsOK
<1>7. CASE \E p \in Requests : StartRevision(p)
  BY <1>7, <1>2 DEF StartRevision, Procs
<1>8. CASE Deliver
  BY <1>8, <1>2, <1>1 DEF Deliver
<1>9. \/ UNCHANGED <<content, held, blobId, blobs, blobBlocks>>
      \/ \E p \in Procs : ProcessBlobBlock(p) \/ FindBlobByHash(p) \/ AddBlob(p)
      \/ DeleteBlob \/ DeleteBlobBlock \/ Deliver \/ \E p \in Requests : StartRevision(p)
  BY DEF Next, Work, Store, Collect, Procs, AddBlobPart, AddRevision, AddFile, Unlink, Acknowledge,
         FindSoftDeletedFiles, DeleteRevisions, DeleteFileRow, FindUnreferencedBlobs, DeleteBlobParts,
         FindUnreferencedBlobBlocks, DeleteBlobBlockStorage, EndCollection, InitNewFileUpload,
         InitNewRevisionUpload, FinishUpload, ScheduleCollection, ExpireFile, NextSecond, Crash
<1> QED
  BY <1>1, <1>3, <1>4, <1>5, <1>6, <1>7, <1>8, <1>9

\* A step moves the worker's control only if it is the worker's or a crash.
LEMMA RequestsLeaveWorkerAlone ==
    ASSUME CatalogInv, NEW p \in Requests, StartRevision(p) \/ Store(p)
    PROVE  /\ pc'[Worker] = pc[Worker] /\ UNCHANGED <<files, collector, jobs, outside, lostFiles, lostBlocks>>
           /\ file'[Worker] = file[Worker] /\ content'[Worker] = content[Worker]
           /\ blobId'[Worker] = blobId[Worker] /\ todo'[Worker] = todo[Worker]
<1>1. LocalsOK /\ p # Worker /\ p \in Procs /\ Worker \in Procs
  BY WorkerIsNoRequest DEF CatalogInv, CatalogTypeOK, Procs
<1> USE <1>1 DEF LocalsOK, Goto, Fail, files, revisions, collector, jobs, outside, locals, lost
<1>2. CASE StartRevision(p)
  BY <1>2 DEF StartRevision, Begin
<1>3. CASE ProcessBlobBlock(p)
  BY <1>3 DEF ProcessBlobBlock
<1>4. CASE FindBlobByHash(p)
  BY <1>4 DEF FindBlobByHash
<1>5. CASE AddBlob(p)
  BY <1>5 DEF AddBlob
<1>6. CASE AddBlobPart(p)
  BY <1>6 DEF AddBlobPart
<1>7. CASE AddRevision(p)
  BY <1>7 DEF AddRevision
<1> QED
  BY <1>2, <1>3, <1>4, <1>5, <1>6, <1>7 DEF Store

LEMMA CollectorInvStep == ASSUME CatalogInv, Next PROVE CollectorInv'
<1>a. BlobsOK /\ LocalsOK /\ CollectorOK /\ CollectorInv /\ Worker \in Procs
  BY DEF CatalogInv, CatalogTypeOK, Procs
<1>1. blobBlocks \subseteq blobBlocks' \/ DeleteBlobBlock
  BY DEF Next, Work, Store, Collect, StartRevision, ProcessBlobBlock, FindBlobByHash, AddBlob,
         AddBlobPart, AddRevision, AddFile, Unlink, Deliver, Acknowledge, FindSoftDeletedFiles,
         DeleteRevisions, DeleteFileRow, FindUnreferencedBlobs, DeleteBlobParts, DeleteBlob,
         FindUnreferencedBlobBlocks, DeleteBlobBlockStorage, EndCollection, InitNewFileUpload,
         InitNewRevisionUpload, FinishUpload, ScheduleCollection, ExpireFile,
              NextSecond, Crash, blobTables
<1> USE <1>a DEF LocalsOK, Goto, Fail, collector, blobTables
<1>2. CASE \E p \in Requests : StartRevision(p) \/ Store(p)
  <2> PICK p \in Requests : StartRevision(p) \/ Store(p)
    BY <1>2
  <2>1. blobBlocks \subseteq blobBlocks'
    BY DEF StartRevision, Store, ProcessBlobBlock, FindBlobByHash, AddBlob, AddBlobPart, AddRevision
  <2>2. block \in blobBlocks => (block \in stored' => block \in stored)
    BY DEF StartRevision, Store, ProcessBlobBlock, FindBlobByHash, AddBlob, AddBlobPart, AddRevision
  <2>3. pc'[Worker] = pc[Worker] /\ UNCHANGED collector
    BY RequestsLeaveWorkerAlone
  <2> QED
    BY <2>1, <2>2, <2>3 DEF CollectorInv
<1>3. CASE Store(Worker) \/ AddFile \/ Unlink \/ Acknowledge \/ Deliver
  <2>1. pc'[Worker] \notin {"nextBlock", "deleteBlock"}
    BY <1>3 DEF Store, ProcessBlobBlock, FindBlobByHash, AddBlob, AddBlobPart, AddRevision, AfterBlob,
         AddFile, Unlink, Acknowledge, Deliver, Begin
  <2> QED
    BY <2>1 DEF CollectorInv
<1>4. CASE \/ FindSoftDeletedFiles \/ DeleteRevisions \/ DeleteFileRow \/ FindUnreferencedBlobs
           \/ DeleteBlobParts \/ DeleteBlob \/ EndCollection
  <2>1. pc'[Worker] \notin {"nextBlock", "deleteBlock"}
    BY <1>4 DEF FindSoftDeletedFiles, DeleteRevisions, DeleteFileRow, FindUnreferencedBlobs,
         DeleteBlobParts, DeleteBlob, EndCollection
  <2> QED
    BY <2>1 DEF CollectorInv
<1>5. CASE FindUnreferencedBlobBlocks
  BY <1>5 DEF FindUnreferencedBlobBlocks, CollectorInv
<1>6. CASE DeleteBlobBlockStorage
  BY <1>6 DEF DeleteBlobBlockStorage, CollectorInv
<1>7. CASE DeleteBlobBlock
  BY <1>7 DEF DeleteBlobBlock, CollectorInv
<1>8. CASE \/ \E u \in Uploads : InitNewFileUpload(u) \/ InitNewRevisionUpload(u) \/ FinishUpload(u)
           \/ ScheduleCollection \/ ExpireFile \/ NextSecond
  BY <1>8 DEF InitNewFileUpload, InitNewRevisionUpload, FinishUpload, ScheduleCollection,
       ExpireFile, NextSecond, CollectorInv
<1>9. CASE Crash
  BY <1>9 DEF Crash, CollectorInv
<1> QED
  BY <1>2, <1>3, <1>4, <1>5, <1>6, <1>7, <1>8, <1>9 DEF Next, Work, Collect

\* A blob block is stored, being deleted, or was left behind.
LEMMA StoredStep == ASSUME CatalogInv, Next PROVE StoredInv'
<1>a. BlobsOK /\ LocalsOK /\ CollectorOK /\ StoredInv /\ CollectorInv /\ Worker \in Procs
  BY DEF CatalogInv, CatalogTypeOK, Procs
<1> USE <1>a DEF LocalsOK, Goto, Fail, collector, blobTables, Stored, Unstoring, StoredInv, lost
<1>2. CASE \E p \in Requests : StartRevision(p) \/ Store(p)
  <2> PICK p \in Requests : StartRevision(p) \/ Store(p)
    BY <1>2
  <2>1. stored \subseteq stored' /\ blobBlocks' \subseteq blobBlocks \cup stored'
    BY DEF StartRevision, Store, ProcessBlobBlock, FindBlobByHash, AddBlob, AddBlobPart, AddRevision
  <2>2. pc'[Worker] = pc[Worker] /\ UNCHANGED <<collector, lostBlocks>>
    BY RequestsLeaveWorkerAlone
  <2> QED
    BY <2>1, <2>2
<1>3. CASE Store(Worker)
  <2>1. stored \subseteq stored' /\ blobBlocks' \subseteq blobBlocks \cup stored'
    BY <1>3 DEF Store, ProcessBlobBlock, FindBlobByHash, AddBlob, AddBlobPart, AddRevision
  <2>2. pc[Worker] # "deleteBlock" /\ UNCHANGED lostBlocks
    BY <1>3 DEF Store, ProcessBlobBlock, FindBlobByHash, AddBlob, AddBlobPart, AddRevision
  <2> QED
    BY <2>1, <2>2
<1>4. CASE \/ AddFile \/ Unlink \/ Acknowledge \/ Deliver
           \/ FindSoftDeletedFiles \/ DeleteRevisions \/ DeleteFileRow \/ FindUnreferencedBlobs
           \/ DeleteBlobParts \/ DeleteBlob \/ FindUnreferencedBlobBlocks \/ EndCollection
  <2>1. pc[Worker] # "deleteBlock" /\ UNCHANGED <<blobBlocks, stored, lostBlocks>>
    BY <1>4 DEF AddFile, Unlink, Acknowledge, Deliver, FindSoftDeletedFiles, DeleteRevisions,
         DeleteFileRow, FindUnreferencedBlobs, DeleteBlobParts, DeleteBlob,
         FindUnreferencedBlobBlocks, EndCollection
  <2> QED
    BY <2>1
<1>6. CASE DeleteBlobBlockStorage
  BY <1>6 DEF DeleteBlobBlockStorage
<1>7. CASE DeleteBlobBlock
  BY <1>7 DEF DeleteBlobBlock
<1>8. CASE \/ \E u \in Uploads : InitNewFileUpload(u) \/ InitNewRevisionUpload(u) \/ FinishUpload(u)
           \/ ScheduleCollection \/ ExpireFile \/ NextSecond
  BY <1>8 DEF InitNewFileUpload, InitNewRevisionUpload, FinishUpload, ScheduleCollection, ExpireFile,
       NextSecond
<1>9. CASE Crash
  BY <1>9 DEF Crash, HalfDoneBlocks
<1> QED
  BY <1>2, <1>3, <1>4, <1>6, <1>7, <1>8, <1>9 DEF Next, Work, Collect

(***************************************************************************)
(* The worker's job and the files.                                         *)
(***************************************************************************)
LEMMA RequestsKeepRevisions ==
    ASSUME NEW p \in Procs, StartRevision(p) \/ Store(p)
    PROVE  revs \subseteq revs'
  BY DEF revisions, StartRevision, Store, ProcessBlobBlock, FindBlobByHash, AddBlob, AddBlobPart,
         AddRevision

LEMMA WorkerInvStep == ASSUME CatalogInv, Next PROVE WorkerInv'
<1>a. LocalsOK /\ WorkerInv /\ Worker \in Procs
  BY DEF CatalogInv, CatalogTypeOK, Procs
<1> USE <1>a DEF LocalsOK, Goto, Fail, locals, jobs, revisions
<1>1. CASE \E p \in Requests : StartRevision(p) \/ Store(p)
  <2> PICK p \in Requests : StartRevision(p) \/ Store(p)
    BY <1>1
  <2>1. revs \subseteq revs'
    BY RequestsKeepRevisions DEF Procs
  <2>2. /\ pc'[Worker] = pc[Worker] /\ file'[Worker] = file[Worker] /\ job' = job
        /\ content'[Worker] = content[Worker] /\ blobId'[Worker] = blobId[Worker]
    BY RequestsLeaveWorkerAlone
  <2> QED
    BY <2>1, <2>2 DEF WorkerInv
<1>2. CASE ProcessBlobBlock(Worker)
  BY <1>2 DEF ProcessBlobBlock, WorkerInv
<1>3. CASE FindBlobByHash(Worker)
  BY <1>3 DEF FindBlobByHash, AfterBlob, WorkerInv
<1>4. CASE AddBlob(Worker)
  BY <1>4 DEF AddBlob, WorkerInv
<1>5. CASE AddBlobPart(Worker)
  <2>1. UNCHANGED <<file, content, blobId, job>> /\ pc[Worker] = "parts"
    BY <1>5 DEF AddBlobPart
  <2>2. pc'[Worker] \in {"parts", "failed", AfterBlob(Worker)}
    BY <1>5 DEF AddBlobPart
  <2> QED
    BY <2>1, <2>2 DEF WorkerInv, AfterBlob
<1>6. CASE AddRevision(Worker)
  BY <1>6 DEF AddRevision, WorkerInv
<1>7. CASE AddFile
  BY <1>7 DEF AddFile, WorkerInv
<1>8. CASE Deliver
  BY <1>8 DEF Deliver, Begin, WorkerInv
<1>9. CASE Unlink \/ Acknowledge \/ Collect \/ Crash
  <2>1. pc'[Worker] \notin {"blocks", "findBlob", "addBlob", "parts", "file", "revision", "unlink"}
    BY <1>9 DEF Unlink, Acknowledge, Collect, Crash, FindSoftDeletedFiles, DeleteRevisions, DeleteFileRow,
         FindUnreferencedBlobs, DeleteBlobParts, DeleteBlob, FindUnreferencedBlobBlocks,
         DeleteBlobBlockStorage, DeleteBlobBlock, EndCollection
  <2> QED
    BY <2>1 DEF WorkerInv
<1>10. CASE \/ \E u \in Uploads : InitNewFileUpload(u) \/ InitNewRevisionUpload(u) \/ FinishUpload(u)
            \/ ScheduleCollection \/ ExpireFile \/ NextSecond
  BY <1>10 DEF InitNewFileUpload, InitNewRevisionUpload, FinishUpload, ScheduleCollection, ExpireFile,
       NextSecond, WorkerInv
<1> QED
  BY <1>1, <1>2, <1>3, <1>4, <1>5, <1>6, <1>7, <1>8, <1>9, <1>10 DEF Next, Work, Store

LEMMA FilesInvStep == ASSUME CatalogInv, Next PROVE FilesInv'
<1>a. FilesOK /\ BlobsOK /\ LocalsOK /\ CollectorOK /\ WorkerInv /\ FilesInv /\ Worker \in Procs
  BY DEF CatalogInv, CatalogTypeOK, Procs
<1> USE <1>a DEF LocalsOK, Goto, Fail, files, revisions, locals, jobs, lost, Existing
<1>1. CASE \E p \in Requests : StartRevision(p) \/ Store(p)
  <2> PICK p \in Requests : StartRevision(p) \/ Store(p)
    BY <1>1
  <2>1. revs \subseteq revs'
    BY RequestsKeepRevisions DEF Procs
  <2>2. /\ pc'[Worker] = pc[Worker] /\ file'[Worker] = file[Worker] /\ UNCHANGED <<job, name, lostFiles>>
    BY RequestsLeaveWorkerAlone
  <2> QED
    BY <2>1, <2>2 DEF FilesInv
<1>2. CASE \/ ProcessBlobBlock(Worker) \/ FindBlobByHash(Worker) \/ AddBlob(Worker)
           \/ AddBlobPart(Worker) \/ Unlink \/ Acknowledge \/ Deliver
  <2>1. pc[Worker] \notin {"revision", "deleteFile"} /\ UNCHANGED <<name, revs, lostFiles>>
    BY <1>2 DEF ProcessBlobBlock, FindBlobByHash, AddBlob, AddBlobPart, Unlink, Acknowledge, Deliver
  <2> QED
    BY <2>1 DEF FilesInv
<1>3. CASE AddRevision(Worker)
  <2>1. pc[Worker] = "revision" /\ blobId[Worker] /\ revs \subseteq revs' /\ UNCHANGED <<name, lostFiles>>
    BY <1>3 DEF AddRevision, WorkerInv
  <2>2. file[Worker] \in Existing => <<file[Worker], content[Worker]>> \in revs'
    <3>1. thisSecond \subseteq revs
      BY DEF FilesOK
    <3> QED
      BY <1>3, <2>1, <3>1 DEF AddRevision
  <2> QED
    BY <2>1, <2>2 DEF FilesInv
<1>4. CASE AddFile
  <2>1. pc[Worker] = "file" /\ job.file = NoFile /\ UNCHANGED <<revs, job, lostFiles>>
    BY <1>4 DEF AddFile, WorkerInv
  <2>2. CASE name' = name
    BY <2>1, <2>2 DEF FilesInv
  <2>3. CASE /\ lastFile < MaxFiles
             /\ name' = [name EXCEPT ![lastFile + 1] = target[Worker]]
             /\ file' = [file EXCEPT ![Worker] = lastFile + 1]
             /\ pc' = [pc EXCEPT ![Worker] = "revision"]
    <3>1. \A i \in FileIds : i # lastFile + 1 => name'[i] = name[i]
      BY <2>3 DEF FilesOK
    <3>2. pc'[Worker] = "revision" /\ file'[Worker] = lastFile + 1
      BY <2>3
    <3> QED
      BY <2>1, <3>1, <3>2 DEF FilesInv
  <2> QED
    BY <1>4, <2>2, <2>3 DEF AddFile
<1>5. CASE DeleteRevisions
  <2>1. PICK i \in doomedFiles : /\ file' = [file EXCEPT ![Worker] = i]
                                 /\ revs' = {r \in revs : r[1] # i}
    BY <1>5 DEF DeleteRevisions
  <2>2. \A j \in FileIds, c \in Contents : j # i /\ <<j, c>> \in revs => <<j, c>> \in revs'
    BY <2>1
  <2>3. pc[Worker] = "nextFile" /\ pc'[Worker] = "deleteFile" /\ UNCHANGED <<name, lostFiles>>
    BY <1>5 DEF DeleteRevisions
  <2> QED
    BY <2>1, <2>2, <2>3 DEF FilesInv
<1>6. CASE DeleteFileRow
  <2>1. pc[Worker] = "deleteFile" /\ UNCHANGED <<revs, lostFiles>>
    BY <1>6 DEF DeleteFileRow
  <2>2. CASE /\ \E c \in Contents : <<file[Worker], c>> \in revs
             /\ name' = name
    BY <2>1, <2>2 DEF FilesInv
  <2>3. CASE name' = [name EXCEPT ![file[Worker]] = NoName]
    <3>1. \A i \in FileIds : name'[i] = IF i = file[Worker] THEN NoName ELSE name[i]
      BY <2>3 DEF FilesOK
    <3> QED
      BY <2>1, <3>1 DEF FilesInv
  <2> QED
    BY <1>6, <2>2, <2>3 DEF DeleteFileRow
<1>7. CASE \/ FindSoftDeletedFiles \/ FindUnreferencedBlobs
           \/ DeleteBlobParts \/ DeleteBlob \/ FindUnreferencedBlobBlocks
           \/ DeleteBlobBlockStorage \/ DeleteBlobBlock \/ EndCollection
  <2>1. pc[Worker] \notin {"revision", "deleteFile"} /\ UNCHANGED <<name, revs, lostFiles>>
    BY <1>7 DEF FindSoftDeletedFiles, FindUnreferencedBlobs, DeleteBlobParts, DeleteBlob,
         FindUnreferencedBlobBlocks, DeleteBlobBlockStorage, DeleteBlobBlock, EndCollection
  <2> QED
    BY <2>1 DEF FilesInv
<1>8. CASE \/ \E u \in Uploads : InitNewFileUpload(u) \/ InitNewRevisionUpload(u) \/ FinishUpload(u)
           \/ ScheduleCollection \/ ExpireFile \/ NextSecond
  BY <1>8 DEF InitNewFileUpload, InitNewRevisionUpload, FinishUpload, ScheduleCollection, ExpireFile,
       NextSecond, FilesInv
<1>9. CASE Crash
  BY <1>9 DEF Crash, HalfDoneFiles, FilesInv
<1> QED
  BY <1>1, <1>2, <1>3, <1>4, <1>5, <1>6, <1>7, <1>8, <1>9 DEF Next, Work, Store, Collect

(***************************************************************************)
(* Whoever inserts the parts of a blob.                                    *)
(***************************************************************************)
SameControl(q) == /\ pc'[q] = pc[q] /\ blobId'[q] = blobId[q]
                  /\ content'[q] = content[q] /\ todo'[q] = todo[q]

\* What neither inserts nor deletes parts cannot disturb AddersInv and WholeInv: at
\* most one process moves, it is not inserting before or after, and nothing is taken
\* from the tables.
Harmless ==
    /\ UNCHANGED <<parts, blobs, blob, lostBlobs>>
    /\ \E p \in Procs :
         /\ \A q \in Procs \ {p} : SameControl(q)
         /\ \/ SameControl(p)
            \/ /\ pc[p] # "parts" /\ pc'[p] # "parts"
               /\ pc'[p] \in {"findBlob", "addBlob"} => todo'[p] = Indices(content'[p])
               /\ p = Worker => pc[p] # "deleteBlob" /\ pc'[p] # "deleteBlob"

LEMMA HarmlessKeepsAdders ==
    ASSUME AddersInv, WholeInv, Harmless, BlobsOK
    PROVE  AddersInv' /\ WholeInv'
<1>1. PICK p \in Procs :
         /\ \A q \in Procs \ {p} : SameControl(q)
         /\ \/ SameControl(p)
            \/ /\ pc[p] # "parts" /\ pc'[p] # "parts"
               /\ pc'[p] \in {"findBlob", "addBlob"} => todo'[p] = Indices(content'[p])
               /\ p = Worker => pc[p] # "deleteBlob" /\ pc'[p] # "deleteBlob"
  BY DEF Harmless
<1>2. \A q \in Procs, c \in Contents : Adding(q, c)' <=> Adding(q, c)
  BY <1>1 DEF Adding, SameControl
<1>3. \A c \in Contents : Deleting(c)' <=> Deleting(c)
  BY <1>1 DEF Deleting, Harmless, SameControl, Procs
<1>4. \A q \in Procs, c \in Contents : Adding(q, c) => todo'[q] = todo[q]
  BY <1>1 DEF Adding, SameControl
<1>5. \A q \in Procs : pc'[q] \in {"findBlob", "addBlob"} => todo'[q] = Indices(content'[q])
  BY <1>1 DEF SameControl, AddersInv
<1>6. UNCHANGED <<parts, blobs, lostBlobs>>
  BY DEF Harmless
<1> QED
  <2>1. WholeInv'
    BY <1>2, <1>3, <1>6 DEF WholeInv, Whole, BlobsOK
  <2>2. \A q, r \in Procs : \A c \in Contents : Adding(q, c)' /\ Adding(r, c)' => q = r
    BY <1>2 DEF AddersInv
  <2>3. \A q \in Procs : \A c \in Contents : Adding(q, c)' =>
          parts'[c] \cup todo'[q] = Indices(c) \/ Deleting(c)' \/ c \in lostBlobs'
    BY <1>2, <1>3, <1>4, <1>6 DEF AddersInv
  <2> QED
    BY <1>5, <2>1, <2>2, <2>3 DEF AddersInv

LEMMA MostStepsAreHarmless ==
    ASSUME CatalogInv, Next
    PROVE  \/ Harmless \/ \E p \in Procs : AddBlob(p) /\ content[p] \notin blobs
           \/ \E p \in Procs : AddBlobPart(p) \/ DeleteBlobParts \/ DeleteBlob \/ Crash
<1>a. LocalsOK /\ AddersInv /\ Worker \in Procs
  BY DEF CatalogInv, CatalogTypeOK, Procs
<1> USE <1>a DEF LocalsOK, Goto, Fail, blobTables, locals, collector, lost, SameControl, Harmless
<1>1. ASSUME NEW p \in Procs, NEW c, NEW i, NEW n, Begin(p, c, i, n), pc[p] = "idle",
             UNCHANGED <<parts, blobs, blob, lostBlobs>>
      PROVE  Harmless
  <2>1. pc'[p] = "blocks" /\ \A q \in Procs \ {p} : SameControl(q)
    BY <1>1 DEF Begin
  <2> QED
    BY <1>1, <2>1
<1>2. CASE \E p \in Requests : StartRevision(p)
  BY <1>1, <1>2 DEF StartRevision, Procs
<1>3. CASE Deliver
  <2>1. CASE Begin(Worker, job'.content, job'.file, job'.name)
    BY <1>1, <1>3, <2>1 DEF Deliver
  <2>2. CASE UNCHANGED locals /\ \E l \in {"failed", "collect"} : pc' = [pc EXCEPT ![Worker] = l]
    BY <1>3, <2>2 DEF Deliver
  <2> QED
    BY <1>3, <2>1, <2>2 DEF Deliver
<1>4. ASSUME NEW p \in Procs, ProcessBlobBlock(p) PROVE Harmless
  <2>1. /\ pc[p] = "blocks" /\ UNCHANGED <<content, blobId, parts, blobs, blob, lostBlobs>>
        /\ \A q \in Procs \ {p} : SameControl(q)
    BY <1>4 DEF ProcessBlobBlock
  <2>2. pc'[p] = "blocks" \/ (pc'[p] = "findBlob" /\ todo'[p] = Indices(content[p]))
    <3>1. PICK i \in todo[p] :
            \/ pc' = [pc EXCEPT ![p] = "findBlob"] /\ todo' = [todo EXCEPT ![p] = Indices(content[p])]
            \/ pc' = pc
      BY <1>4 DEF ProcessBlobBlock
    <3>2. CASE pc' = [pc EXCEPT ![p] = "findBlob"] /\ todo' = [todo EXCEPT ![p] = Indices(content[p])]
      BY <3>2
    <3>3. CASE pc' = pc
      <4>1. pc[p] = "blocks"
        BY <2>1
      <4> QED
        BY <3>3, <4>1
    <3> QED
      BY <3>1, <3>2, <3>3
  <2> QED
    BY <2>1, <2>2
<1>5. ASSUME NEW p \in Procs, FindBlobByHash(p) PROVE Harmless
  <2>1. /\ pc[p] = "findBlob" /\ UNCHANGED <<content, todo, parts, blobs, blob, lostBlobs>>
        /\ \A q \in Procs \ {p} : SameControl(q)
    BY <1>5 DEF FindBlobByHash
  <2>2. pc'[p] \in {"addBlob", "file", "revision"}
    BY <1>5 DEF FindBlobByHash, AfterBlob
  <2> QED
    BY <2>1, <2>2 DEF AddersInv
<1>6. ASSUME NEW p \in Procs, AddBlob(p), content[p] \in blobs PROVE Harmless
  BY <1>6 DEF AddBlob
<1>7. ASSUME NEW p \in Procs, AddRevision(p) PROVE Harmless
  <2>1. /\ pc[p] = "revision" /\ UNCHANGED <<locals, parts, blobs, blob, lostBlobs>>
        /\ pc'[p] \in {"unlink", "done", "failed"} /\ \A q \in Procs \ {p} : SameControl(q)
    BY <1>7 DEF AddRevision
  <2> QED
    BY <2>1
<1>8. CASE AddFile \/ Unlink \/ Acknowledge
  BY <1>8 DEF AddFile, Unlink, Acknowledge
<1>9. CASE FindSoftDeletedFiles \/ DeleteRevisions \/ DeleteFileRow \/ FindUnreferencedBlobs
  BY <1>9 DEF FindSoftDeletedFiles, DeleteRevisions, DeleteFileRow, FindUnreferencedBlobs
<1>10. CASE \/ FindUnreferencedBlobBlocks \/ DeleteBlobBlockStorage \/ DeleteBlobBlock \/ EndCollection
  BY <1>10 DEF FindUnreferencedBlobBlocks, DeleteBlobBlockStorage, DeleteBlobBlock, EndCollection
<1>11. CASE \/ \E u \in Uploads : InitNewFileUpload(u) \/ InitNewRevisionUpload(u) \/ FinishUpload(u)
            \/ ScheduleCollection \/ ExpireFile \/ NextSecond
  BY <1>11 DEF InitNewFileUpload, InitNewRevisionUpload, FinishUpload, ScheduleCollection, ExpireFile,
       NextSecond
<1> QED
  BY <1>2, <1>3, <1>4, <1>5, <1>6, <1>7, <1>8, <1>9, <1>10, <1>11
     DEF Next, Work, Store, Collect, Procs, AddBlob

LEMMA AddBlobKeepsAdders ==
    ASSUME CatalogInv, NEW p \in Procs, AddBlob(p), content[p] \notin blobs
    PROVE  AddersInv' /\ WholeInv'
<1>a. BlobsOK /\ LocalsOK /\ AddersInv /\ WholeInv /\ IdsInv /\ Worker \in Procs
  BY DEF CatalogInv, CatalogTypeOK, Procs
<1> DEFINE c == content[p]
<1>1. /\ pc[p] = "addBlob" /\ pc' = [pc EXCEPT ![p] = "parts"] /\ blobs' = blobs \cup {c}
      /\ blobId' = [blobId EXCEPT ![p] = TRUE]
      /\ UNCHANGED <<parts, content, todo, blob, lostBlobs>>
  BY DEF AddBlob, Goto, locals, collector, lost
<1>2. c \in Contents /\ parts[c] = {} /\ todo[p] = Indices(c)
  BY <1>1, <1>a DEF BlobsOK, LocalsOK, AddersInv
<1>3. \A q \in Procs : ~ Adding(q, c)
  BY <1>a DEF Adding, IdsInv
<1>4. \A q \in Procs, d \in Contents : Adding(q, d)' <=> Adding(q, d) \/ (q = p /\ d = c)
  BY <1>1, <1>a DEF Adding, LocalsOK
<1>5. \A d \in Contents : Deleting(d)' <=> Deleting(d)
  BY <1>1, <1>a DEF Deleting, LocalsOK
<1>6. \A q, r \in Procs : \A d \in Contents : Adding(q, d)' /\ Adding(r, d)' => q = r
  BY <1>3, <1>4, <1>a DEF AddersInv
<1>7. \A q \in Procs : pc'[q] \in {"findBlob", "addBlob"} => todo'[q] = Indices(content'[q])
  BY <1>1, <1>a DEF AddersInv, LocalsOK
<1>8. \A q \in Procs : \A d \in Contents : Adding(q, d)' =>
         parts'[d] \cup todo'[q] = Indices(d) \/ Deleting(d)' \/ d \in lostBlobs'
  BY <1>1, <1>2, <1>4, <1>5, <1>a DEF AddersInv
<1>9. WholeInv'
  BY <1>1, <1>2, <1>4, <1>5, <1>a DEF WholeInv, Whole, BlobsOK
<1> QED
  BY <1>6, <1>7, <1>8, <1>9 DEF AddersInv

LEMMA AddBlobPartKeepsAdders ==
    ASSUME CatalogInv, NEW p \in Procs, AddBlobPart(p)
    PROVE  AddersInv' /\ WholeInv'
<1>a. BlobsOK /\ LocalsOK /\ AddersInv /\ WholeInv /\ IdsInv /\ Worker \in Procs
  BY DEF CatalogInv, CatalogTypeOK, Procs
<1> DEFINE c == content[p]
<1>b. c \in Contents /\ pc[p] = "parts" /\ UNCHANGED <<content, blobId, blobs, blob>>
  BY <1>a DEF AddBlobPart, LocalsOK, collector
<1>c. \A q \in Procs : q # p => pc'[q] = pc[q] /\ todo'[q] = todo[q]
  BY <1>a DEF AddBlobPart, LocalsOK, Goto, Fail
<1>d. PICK i \in todo[p] :
         \/ /\ blobId[p] /\ UNCHANGED lostBlobs
            /\ parts' = [parts EXCEPT ![c] = @ \cup {i}] /\ todo' = [todo EXCEPT ![p] = @ \ {i}]
            /\ pc' = [pc EXCEPT ![p] = IF todo[p] = {i} THEN AfterBlob(p) ELSE "parts"]
         \/ /\ pc' = [pc EXCEPT ![p] = "failed"] /\ UNCHANGED <<parts, todo>>
            /\ lostBlobs' = IF blobId[p] THEN lostBlobs \cup {c} ELSE lostBlobs
  BY DEF AddBlobPart, Goto, Fail
<1>e. \A d \in Contents : Deleting(d)' <=> Deleting(d)
  BY <1>b, <1>c, <1>d, <1>a DEF Deleting, LocalsOK, AfterBlob
<1>f. pc'[p] \notin {"findBlob", "addBlob"}
  BY <1>d, <1>a DEF LocalsOK, AfterBlob
<1>1. CASE /\ blobId[p] /\ UNCHANGED lostBlobs
           /\ parts' = [parts EXCEPT ![c] = @ \cup {i}] /\ todo' = [todo EXCEPT ![p] = @ \ {i}]
           /\ pc' = [pc EXCEPT ![p] = IF todo[p] = {i} THEN AfterBlob(p) ELSE "parts"]
  <2>1. \A d \in Contents : parts'[d] = IF d = c THEN parts[c] \cup {i} ELSE parts[d]
    BY <1>1, <1>a DEF BlobsOK
  <2>2. todo'[p] = todo[p] \ {i}
    BY <1>1, <1>a DEF LocalsOK
  <2>3. Adding(p, c) /\ \A d \in Contents : Adding(p, d) => d = c
    BY <1>b, <1>1 DEF Adding
  <2>4. \A q \in Procs, d \in Contents : Adding(q, d)' => Adding(q, d)
    BY <1>b, <1>c, <1>1, <1>a DEF Adding, LocalsOK
  <2>5. \A q \in Procs, d \in Contents : Adding(q, d) /\ q # p => Adding(q, d)' /\ d # c
    BY <1>b, <1>c, <2>3, <1>a DEF Adding, AddersInv
  <2>6. parts[c] \cup todo[p] = Indices(c) \/ Deleting(c) \/ c \in lostBlobs
    BY <1>b, <2>3, <1>a DEF AddersInv
  <2>7. parts'[c] \cup todo'[p] = Indices(c) \/ Deleting(c)' \/ c \in lostBlobs'
    BY <1>b, <1>d, <1>e, <1>1, <2>1, <2>2, <2>6
  <2>8. Whole(c)'
    <3>1. CASE todo[p] = {i}
      BY <1>b, <2>1, <2>2, <2>7, <3>1 DEF Whole
    <3>2. CASE todo[p] # {i}
      <4>1. Adding(p, c)'
        BY <1>b, <1>1, <3>2, <1>a DEF Adding, LocalsOK
      <4> QED
        BY <4>1 DEF Whole
    <3> QED
      BY <3>1, <3>2
  <2>9. \A d \in blobs : d # c => Whole(d)'
    <3> SUFFICES ASSUME NEW d \in blobs, d # c PROVE Whole(d)'
      OBVIOUS
    <3>1. d \in Contents /\ Whole(d) /\ parts'[d] = parts[d] /\ ~ Adding(p, d)
      BY <2>1, <2>3, <1>a DEF BlobsOK, WholeInv
    <3>2. CASE \E q \in Procs : Adding(q, d)
      BY <2>5, <3>1, <3>2 DEF Whole
    <3> QED
      BY <1>e, <1>1, <3>1, <3>2 DEF Whole
  <2>10. WholeInv'
    BY <1>b, <2>8, <2>9 DEF WholeInv
  <2>11. \A q \in Procs : \A d \in Contents : Adding(q, d)' =>
         parts'[d] \cup todo'[q] = Indices(d) \/ Deleting(d)' \/ d \in lostBlobs'
    <3> SUFFICES ASSUME NEW q \in Procs, NEW d \in Contents, Adding(q, d)'
                 PROVE  parts'[d] \cup todo'[q] = Indices(d) \/ Deleting(d)' \/ d \in lostBlobs'
      OBVIOUS
    <3>1. CASE q = p
      BY <1>b, <2>3, <2>4, <2>7, <3>1 DEF Deleting
    <3>2. CASE q # p
      <4>1. Adding(q, d) /\ d # c
        BY <2>4, <2>5, <3>2
      <4> QED
        BY <1>c, <1>e, <1>1, <2>1, <3>2, <4>1, <1>a DEF AddersInv
    <3> QED
      BY <3>1, <3>2
  <2>12. \A q \in Procs : pc'[q] \in {"findBlob", "addBlob"} => todo'[q] = Indices(content'[q])
    BY <1>b, <1>c, <1>f, <1>a DEF AddersInv
  <2> QED
    BY <2>4, <2>10, <2>11, <2>12, <1>a DEF AddersInv
<1>2. CASE /\ pc' = [pc EXCEPT ![p] = "failed"] /\ UNCHANGED <<parts, todo>>
           /\ lostBlobs' = IF blobId[p] THEN lostBlobs \cup {c} ELSE lostBlobs
  <2>1. \A q \in Procs, d \in Contents : Adding(q, d)' <=> Adding(q, d) /\ q # p
    BY <1>b, <1>2, <1>a DEF Adding, LocalsOK
  <2>2. \A d \in Contents : Adding(p, d) => d \in lostBlobs'
    BY <1>b, <1>2 DEF Adding
  <2>3. WholeInv'
    BY <1>b, <1>e, <1>2, <2>1, <2>2, <1>a DEF WholeInv, Whole, BlobsOK
  <2>4. \A q \in Procs : pc'[q] \in {"findBlob", "addBlob"} => todo'[q] = Indices(content'[q])
    BY <1>b, <1>c, <1>f, <1>a DEF AddersInv
  <2> QED
    BY <1>e, <1>2, <2>1, <2>3, <2>4, <1>a DEF AddersInv
<1> QED
  BY <1>d, <1>1, <1>2

LEMMA AddersStep == ASSUME CatalogInv, Next PROVE AddersInv' /\ WholeInv'
<1>a. BlobsOK /\ LocalsOK /\ CollectorOK /\ AddersInv /\ WholeInv /\ Worker \in Procs
  BY DEF CatalogInv, CatalogTypeOK, Procs
<1>1. CASE Harmless
  BY <1>1, <1>a, HarmlessKeepsAdders
<1>2. CASE \E p \in Procs : AddBlob(p) /\ content[p] \notin blobs
  BY <1>2, AddBlobKeepsAdders
<1>3. CASE \E p \in Procs : AddBlobPart(p)
  BY <1>3, AddBlobPartKeepsAdders
<1>4. CASE DeleteBlobParts
  <2>1. PICK c \in Contents : blob' = c /\ parts' = [parts EXCEPT ![c] = {}]
    BY <1>4, <1>a DEF DeleteBlobParts, CollectorOK
  <2>2. /\ pc[Worker] = "nextBlob" /\ pc' = [pc EXCEPT ![Worker] = "deleteBlob"]
        /\ UNCHANGED <<content, blobId, todo, blobs, lostBlobs>>
    BY <1>4 DEF DeleteBlobParts, Goto, locals, lost
  <2>3. \A q \in Procs, d \in Contents : Adding(q, d)' <=> Adding(q, d)
    BY <2>2, <1>a DEF Adding, LocalsOK
  <2>4. \A d \in Contents : ~ Deleting(d)
    BY <2>2 DEF Deleting
  <2>5. Deleting(c)'
    BY <2>1, <2>2, <1>a DEF Deleting, LocalsOK
  <2>6. \A d \in Contents : d # c => parts'[d] = parts[d]
    BY <2>1, <1>a DEF BlobsOK
  <2>7. WholeInv'
    BY <2>2, <2>3, <2>4, <2>5, <2>6, <1>a DEF WholeInv, Whole, BlobsOK
  <2>8. \A q \in Procs : pc'[q] \in {"findBlob", "addBlob"} => todo'[q] = Indices(content'[q])
    BY <2>2, <1>a DEF AddersInv, LocalsOK
  <2> QED
    BY <2>2, <2>3, <2>4, <2>5, <2>6, <2>7, <2>8, <1>a DEF AddersInv
<1>5. CASE DeleteBlob
  <2>1. /\ pc[Worker] = "deleteBlob" /\ blob \in Contents
        /\ UNCHANGED <<content, todo, parts, blob>>
    BY <1>5, <1>a DEF DeleteBlob, CollectorOK, collector
  <2>2. pc' \in {[pc EXCEPT ![Worker] = "failed"], [pc EXCEPT ![Worker] = "nextBlob"]}
    BY <1>5 DEF DeleteBlob, Goto, Fail
  <2>3. \A d \in Contents : Deleting(d) <=> d = blob
    BY <2>1 DEF Deleting
  <2>4. \A q \in Procs : pc'[q] \in {"findBlob", "addBlob"} => todo'[q] = Indices(content'[q])
    BY <2>1, <2>2, <1>a DEF AddersInv, LocalsOK
  <2>5. CASE lostBlobs' = lostBlobs \cup {blob} /\ UNCHANGED <<blobs, blobId>>
    <3>1. \A q \in Procs, d \in Contents : Adding(q, d)' <=> Adding(q, d)
      BY <2>1, <2>2, <2>5, <1>a DEF Adding, LocalsOK
    <3>2. WholeInv'
      BY <2>1, <2>3, <2>5, <3>1, <1>a DEF WholeInv, Whole, BlobsOK
    <3> QED
      BY <2>1, <2>3, <2>4, <2>5, <3>1, <3>2, <1>a DEF AddersInv
  <2>6. CASE /\ blobs' = blobs \ {blob} /\ lostBlobs' = lostBlobs \ {blob}
             /\ blobId' = [p \in Procs |-> blobId[p] /\ content[p] # blob]
    <3>1. \A q \in Procs, d \in Contents : Adding(q, d)' <=> Adding(q, d) /\ d # blob
      BY <2>1, <2>2, <2>6, <1>a DEF Adding, LocalsOK
    <3>2. WholeInv'
      BY <2>1, <2>3, <2>6, <3>1, <1>a DEF WholeInv, Whole, BlobsOK
    <3> QED
      BY <2>1, <2>3, <2>4, <2>6, <3>1, <3>2, <1>a DEF AddersInv
  <2> QED
    BY <1>5, <2>5, <2>6 DEF DeleteBlob
<1>6. CASE Crash
  <2>1. /\ UNCHANGED <<content, todo, parts, blobs, blob>>
        /\ lostBlobs' = lostBlobs \cup HalfDoneBlobs
    BY <1>6 DEF Crash, blobTables, locals, collector
  <2>2. \A q \in Procs : pc'[q] \in {"idle", "done"}
    BY <1>6, <1>a DEF Crash, LocalsOK
  <2>3. \A c \in blobs : Deleting(c) \/ (\E p \in Procs : Adding(p, c)) => c \in lostBlobs'
    BY <2>1 DEF HalfDoneBlobs
  <2>4. WholeInv'
    BY <2>1, <2>3, <1>a DEF WholeInv, Whole
  <2>5. \A q \in Procs, d \in Contents : ~ Adding(q, d)'
    BY <2>2 DEF Adding
  <2> QED
    BY <2>2, <2>4, <2>5 DEF AddersInv
<1> QED
  BY <1>1, <1>2, <1>3, <1>4, <1>5, <1>6, MostStepsAreHarmless

(***************************************************************************)
(* The theorems.                                                           *)
(***************************************************************************)
LEMMA CatalogInvStutter == ASSUME CatalogInv, UNCHANGED vars PROVE CatalogInv'
<1> USE DEF vars, files, revisions, blobTables, locals, collector, jobs, outside, lost
<1>1. CatalogTypeOK'
  BY DEF CatalogInv, CatalogTypeOK, FilesOK, BlobsOK, LocalsOK, CollectorOK, OutsideOK, Existing
<1>2. IdsInv' /\ StoredInv' /\ CollectorInv' /\ WorkerInv' /\ FilesInv'
  BY DEF CatalogInv, IdsInv, StoredInv, Stored, Unstoring, CollectorInv, WorkerInv, FilesInv, Existing
<1>3. AddersInv' /\ WholeInv'
  BY DEF CatalogInv, AddersInv, WholeInv, Whole, Adding, Deleting
<1> QED
  BY <1>1, <1>2, <1>3 DEF CatalogInv

LEMMA CatalogInvStep == CatalogInv /\ [Next]_vars => CatalogInv'
<1> SUFFICES ASSUME CatalogInv, [Next]_vars PROVE CatalogInv'
  OBVIOUS
<1>1. CASE Next
  <2>1. CatalogTypeOK'
    BY <1>1, FilesStep, BlobsStep, LocalsStep, CollectorStep, OutsideStep DEF CatalogTypeOK
  <2>2. IdsInv' /\ StoredInv' /\ CollectorInv'
    BY <1>1, IdsStep, StoredStep, CollectorInvStep
  <2>3. AddersInv' /\ WholeInv' /\ WorkerInv' /\ FilesInv'
    BY <1>1, AddersStep, WorkerInvStep, FilesInvStep
  <2> QED
    BY <2>1, <2>2, <2>3 DEF CatalogInv
<1>2. CASE UNCHANGED vars
  BY <1>2, CatalogInvStutter
<1> QED
  BY <1>1, <1>2

LEMMA CatalogInvAlways == Spec => []CatalogInv
  BY CatalogInvInit, CatalogInvStep, PTL DEF Spec

\* Types, and the foreign keys of the tables.
THEOREM CatalogTypeCorrect == Spec => []CatalogTypeOK
<1>1. CatalogInv => CatalogTypeOK
  BY DEF CatalogInv
<1> QED
  BY <1>1, CatalogInvAlways, PTL

\* Whatever uploads, revisions and collections run into each other, and wherever the
\* process dies: the blob of a revision is whole and its blob blocks are stored, or
\* somebody is at work on it, or an exception or a crash has cut somebody off.
THEOREM RevisionsStayReadable == Spec => []RevisionsAreReadable
<1>1. CatalogInv => RevisionsAreReadable
  <2> SUFFICES ASSUME CatalogInv, NEW r \in revs
               PROVE  Whole(r[2]) /\ \A i \in parts[r[2]] : Stored(Parts[r[2]][i])
    BY DEF RevisionsAreReadable
  <2>1. r[2] \in blobs /\ FilesOK /\ BlobsOK /\ WholeInv /\ StoredInv
    BY DEF CatalogInv, CatalogTypeOK, FilesOK
  <2>2. \A i \in parts[r[2]] : Parts[r[2]][i] \in blobBlocks
    BY <2>1 DEF BlobsOK
  <2> QED
    BY <2>1, <2>2 DEF WholeInv, StoredInv
<1> QED
  BY <1>1, CatalogInvAlways, PTL

\* A file has a revision whenever the job worker is not about to add or delete it and
\* has not been cut off doing so.
THEOREM FilesKeepRevisions == Spec => []FilesHaveRevisions
<1>1. CatalogInv => FilesHaveRevisions
  BY DEF CatalogInv, CatalogTypeOK, FilesOK, FilesInv, FilesHaveRevisions
<1> QED
  BY <1>1, CatalogInvAlways, PTL

\* The temporary file of an upload outlives the insertion of its revision.
THEOREM UploadsStayKept == Spec => UploadsAreKept
<1> DEFINE Kept == \A u \in temp \ temp' :
                      job.upload = u /\ <<file[Worker], job.content>> \in revs
<1>1. CatalogInv /\ [Next]_vars => [Kept]_vars
  <2> SUFFICES ASSUME CatalogInv, Next, NEW u \in temp \ temp'
               PROVE  job.upload = u /\ <<file[Worker], job.content>> \in revs
    BY DEF vars, jobs
  <2>1. Unlink
    BY DEF Next, Work, Store, Collect, StartRevision, ProcessBlobBlock, FindBlobByHash, AddBlob,
       AddBlobPart, AddRevision, AddFile, Deliver, Acknowledge, FindSoftDeletedFiles, DeleteRevisions,
       DeleteFileRow, FindUnreferencedBlobs, DeleteBlobParts, DeleteBlob,
       FindUnreferencedBlobBlocks, DeleteBlobBlockStorage, DeleteBlobBlock, EndCollection,
       InitNewFileUpload, InitNewRevisionUpload, FinishUpload, ScheduleCollection, ExpireFile,
            NextSecond, Crash,
       jobs
  <2> QED
    BY <2>1 DEF Unlink, CatalogInv, WorkerInv
<1>2. CatalogInv /\ [Next]_vars /\ CatalogInv' => [Kept]_vars
  BY <1>1
<1> QED
  BY <1>2, CatalogInvAlways, PTL DEF Spec, UploadsAreKept

(***************************************************************************)
(* The worker by itself: what it finds is there when it uses it.           *)
(***************************************************************************)
\* No request has begun to store a revision.
Alone == \A p \in Requests : pc[p] = "idle"

\* An upload that has begun keeps its file until its job is done, or until a crash
\* sends its job again, has one job, and is for a file or has a name for a new one.
Named(x) == x.file = NoFile => x.name # NoName
QueueInv ==
    /\ \A u \in Uploads : session[u] \notin {Fresh, Closed} => u \in temp /\ Named(session[u])
    /\ \A k \in DOMAIN queue : queue[k].type = "upload-file" =>
         /\ (queue[k].upload \in temp \/ crashes > 0) /\ Named(queue[k])
         /\ session[queue[k].upload] = Closed
         /\ job.type = "upload-file" => job.upload # queue[k].upload
         /\ \A l \in DOMAIN queue :
              queue[l].type = "upload-file" /\ queue[l].upload = queue[k].upload => k = l
    /\ job.type = "upload-file" => session[job.upload] = Closed /\ Named(job)

\* The ids the worker has got stay alive, what it has not found it has not found
\* because it is not there, and the file it has made exists and has no revision yet.
Before == {"blocks", "findBlob", "addBlob", "parts", "file"}
StoringInv ==
    /\ pc[Worker] \in Before \cup {"revision", "unlink"} => job.type = "upload-file"
    /\ pc[Worker] \in Before => target[Worker] = job.name
    /\ pc[Worker] = "blocks" => held[Worker] \cup todo[Worker] = Indices(content[Worker])
    /\ pc[Worker] \in {"findBlob", "addBlob", "parts"} => held[Worker] = Indices(content[Worker])
    /\ pc[Worker] = "addBlob" => content[Worker] \notin blobs
    /\ pc[Worker] = "revision" =>
         IF job.file = NoFile
         THEN file[Worker] \in Existing /\ \A c \in Contents : <<file[Worker], c>> \notin revs
         ELSE file[Worker] = job.file

\* What the collector is going to delete, nothing refers to.
CollectingInv ==
    /\ pc[Worker] = "deleteFile" => \A c \in Contents : <<file[Worker], c>> \notin revs
    /\ pc[Worker] \in {"nextBlob", "deleteBlob"} => \A c \in doomedBlobs : ~ Referenced(c)
    /\ pc[Worker] = "deleteBlob" => ~ Referenced(blob) /\ parts[blob] = {}
    /\ pc[Worker] \in {"nextBlock", "deleteBlock"} => \A b \in doomedBlocks : ~ InUse(b)
    /\ pc[Worker] = "deleteBlock" => ~ InUse(block)

AloneInv == Alone => QueueInv /\ StoringInv /\ CollectingInv

Environment ==
    \/ \E u \in Uploads : InitNewFileUpload(u) \/ InitNewRevisionUpload(u) \/ FinishUpload(u)
    \/ ScheduleCollection \/ ExpireFile \/ NextSecond \/ Crash

\* Once a request has begun, it stays so.
LEMMA AloneSteps ==
    ASSUME CatalogInv, Next, Alone'
    PROVE  Alone /\ (Work \/ Environment)
<1>1. LocalsOK
  BY DEF CatalogInv, CatalogTypeOK
<1>3. ASSUME NEW p \in Requests, StartRevision(p) \/ Store(p) PROVE FALSE
  <2>1. p \in Procs /\ pc \in [Procs -> Labels]
    BY <1>1 DEF Procs, LocalsOK
  <2>2. pc'[p] # "idle"
    BY <1>3, <2>1 DEF StartRevision, Begin, Store, ProcessBlobBlock, FindBlobByHash, AddBlob, AddBlobPart,
       AddRevision, AfterBlob, Goto, Fail
  <2> QED
    BY <1>3, <2>2 DEF Alone
<1>4. Work \/ Environment
  BY <1>3 DEF Next, Environment
<1>5. \A p \in Requests : pc[p] = "idle"
  <2> SUFFICES ASSUME NEW p \in Requests PROVE pc[p] = "idle"
    OBVIOUS
  <2>1. p # Worker /\ p \in Procs /\ Worker \in Procs /\ pc \in [Procs -> Labels]
    BY <1>1, WorkerIsNoRequest DEF Procs, LocalsOK
  <2>2. CASE Crash
    BY <2>1, <2>2 DEF Crash, Alone
  <2>3. ASSUME ~ Crash
        PROVE  pc' = pc \/ \E l \in Labels : pc' = [pc EXCEPT ![Worker] = l]
    BY <1>4, <2>3 DEF Work, Environment, Deliver, Begin, Store, ProcessBlobBlock, FindBlobByHash, AddBlob, AddBlobPart,
       AddRevision, AddFile, Unlink, Acknowledge, Collect, FindSoftDeletedFiles, DeleteRevisions,
       DeleteFileRow, FindUnreferencedBlobs, DeleteBlobParts, DeleteBlob, FindUnreferencedBlobBlocks,
       DeleteBlobBlockStorage, DeleteBlobBlock, EndCollection, InitNewFileUpload, InitNewRevisionUpload,
       FinishUpload, ScheduleCollection, ExpireFile, NextSecond, AfterBlob, Goto, Fail, Labels
  <2> QED
    BY <2>1, <2>2, <2>3 DEF Alone
<1> QED
  BY <1>4, <1>5 DEF Alone

LEMMA QueueStep ==
    ASSUME CatalogInv, QueueInv, StoringInv, Work \/ Environment
    PROVE  QueueInv'
<1>a. OutsideOK /\ LocalsOK /\ Worker \in Procs /\ FilesOK
  BY DEF CatalogInv, CatalogTypeOK, Procs
<1> USE <1>a, CatalogBounds DEF OutsideOK, QueueInv, jobs, outside
<1>1. CASE UNCHANGED <<session, temp, job, queue, crashes>>
  BY <1>1 DEF Named
<1>2. CASE Deliver
  <2>1. /\ queue # <<>> /\ job' = queue[1] /\ queue' = Tail(queue)
        /\ UNCHANGED <<session, temp, crashes>>
    BY <1>2 DEF Deliver
  <2>2. /\ 1 \in DOMAIN queue
        /\ \A k \in DOMAIN queue' : /\ k + 1 \in DOMAIN queue /\ k + 1 # 1 /\ k \in Nat
                                    /\ queue'[k] = queue[k + 1]
    BY <2>1
  <2> QED
    BY <2>1, <2>2 DEF Named
<1>3. CASE Acknowledge \/ EndCollection
  BY <1>3 DEF Acknowledge, EndCollection, NoJob, Named
<1>4. CASE Unlink
  BY <1>4 DEF Unlink, StoringInv, Named
<1>5. CASE \E u \in Uploads : InitNewFileUpload(u) \/ InitNewRevisionUpload(u)
  <2> PICK u \in Uploads : InitNewFileUpload(u) \/ InitNewRevisionUpload(u)
    BY <1>5
  <2>1. session[u] = Fresh /\ temp' = temp \cup {u}
        /\ UNCHANGED <<job, queue, crashes>>
    BY DEF InitNewFileUpload, InitNewRevisionUpload
  <2>2. \E x \in Sessions : session' = [session EXCEPT ![u] = x] /\ Named(x)
    <3>1. CASE InitNewFileUpload(u)
      <4>1. PICK n \in Names : session' = [session EXCEPT ![u] = Session(n, NoFile)]
        BY <3>1 DEF InitNewFileUpload
      <4>2. Session(n, NoFile) \in Sessions /\ Named(Session(n, NoFile))
        BY JobsAreTyped, NoNameIsNoName DEF Named, Session
      <4> QED
        BY <4>1, <4>2
    <3>2. CASE InitNewRevisionUpload(u)
      <4>1. PICK i \in Existing : session' = [session EXCEPT ![u] = Session(NoName, i)]
        BY <3>2 DEF InitNewRevisionUpload
      <4>2. i \in FileIds /\ i # NoFile
        BY CatalogBounds DEF Existing, FileIds, NoFile
      <4>3. Session(NoName, i) \in Sessions /\ Named(Session(NoName, i))
        BY <4>2, JobsAreTyped DEF Named, Session
      <4> QED
        BY <4>1, <4>3
    <3> QED
      BY <3>1, <3>2
  <2>3. Fresh # Closed
    BY DEF Fresh, Closed
  <2>4. \A v \in Uploads : session[v] = Closed => session'[v] = Closed
    BY <2>1, <2>2, <2>3
  <2>5. \A v \in Uploads : session'[v] \notin {Fresh, Closed} => v \in temp' /\ Named(session'[v])
    BY <2>1, <2>2
  <2>6. \A k \in DOMAIN queue : queue[k].type = "upload-file" => queue[k].upload \in Uploads
    BY JobsAreTyped
  <2>7. job.type = "upload-file" => job.upload \in Uploads
    BY JobsAreTyped
  <2> QED
    BY <2>1, <2>4, <2>5, <2>6, <2>7 DEF Named
<1>6. CASE \E u \in Uploads : FinishUpload(u)
  <2> PICK u \in Uploads : FinishUpload(u)
    BY <1>6
  <2> PICK c \in Contents : queue' = Append(queue, Upload(u, session[u].name, session[u].file, c))
    BY DEF FinishUpload
  <2> DEFINE new == Upload(u, session[u].name, session[u].file, c)
  <2>1. /\ session[u] \notin {Fresh, Closed} /\ session' = [session EXCEPT ![u] = Closed]
        /\ UNCHANGED <<temp, job, crashes>>
    BY DEF FinishUpload
  <2>2. \A k \in DOMAIN queue' : \/ k \in DOMAIN queue /\ queue'[k] = queue[k]
                                 \/ k = Len(queue) + 1 /\ queue'[k] = new
    OBVIOUS
  <2>3. new.type = "upload-file" /\ new.upload = u /\ Named(new)
    BY <2>1 DEF Upload, Named
  <2> HIDE DEF new
  <2>4. \A v \in Uploads : session'[v] = IF v = u THEN Closed ELSE session[v]
    BY <2>1
  <2>5. \A k \in DOMAIN queue : queue[k].type = "upload-file" => queue[k].upload \in Uploads \ {u}
    BY <2>1, JobsAreTyped
  <2>6. job.type = "upload-file" => job.upload \in Uploads \ {u}
    BY <2>1, JobsAreTyped
  <2>7. \A v \in Uploads : session'[v] \notin {Fresh, Closed} => v \in temp' /\ Named(session'[v])
    BY <2>1, <2>4
  <2>8. ASSUME NEW k \in DOMAIN queue', queue'[k].type = "upload-file"
        PROVE  /\ (queue'[k].upload \in temp' \/ crashes' > 0) /\ Named(queue'[k])
               /\ session'[queue'[k].upload] = Closed
               /\ job'.type = "upload-file" => job'.upload # queue'[k].upload
               /\ \A l \in DOMAIN queue' :
                    queue'[l].type = "upload-file" /\ queue'[l].upload = queue'[k].upload => k = l
    <3>1. CASE k \in DOMAIN queue /\ queue'[k] = queue[k]
      BY <2>1, <2>2, <2>3, <2>4, <2>5, <2>6, <2>8, <3>1
    <3>2. CASE k = Len(queue) + 1 /\ queue'[k] = new
      BY <2>1, <2>2, <2>3, <2>4, <2>5, <2>6, <3>2
    <3> QED
      BY <2>2, <3>1, <3>2
  <2>9. job'.type = "upload-file" => session'[job'.upload] = Closed /\ Named(job')
    BY <2>1, <2>4, <2>6
  <2> QED
    BY <2>7, <2>8, <2>9 DEF Named
<1>7. CASE ScheduleCollection
  <2>1. queue' = Append(queue, CollectJob) /\ UNCHANGED <<session, temp, job, crashes>>
    BY <1>7 DEF ScheduleCollection
  <2>2. CollectJob.type # "upload-file"
    BY DEF CollectJob
  <2>3. \A k \in DOMAIN queue' : \/ k \in DOMAIN queue /\ queue'[k] = queue[k]
                                 \/ queue'[k].type # "upload-file"
    BY <2>1, <2>2
  <2> QED
    BY <2>1, <2>3 DEF Named
<1>8. CASE Crash
  <2>1. /\ crashes' > 0 /\ job' = NoJob /\ temp' = temp
        /\ session' = [u \in Uploads |-> IF session[u] = Fresh THEN Fresh ELSE Closed]
    BY <1>8 DEF Crash
  <2>2. NoJob.type # "upload-file" /\ Fresh # Closed
    BY DEF NoJob, Fresh, Closed
  <2>3. \A u \in Uploads : session[u] = Closed => session'[u] = Closed
    BY <2>1, <2>2
  <2>4. \A u \in Uploads : session'[u] \in {Fresh, Closed}
    BY <2>1
  <2>5. \A k \in DOMAIN queue : queue[k].type = "upload-file" => queue[k].upload \in Uploads
    BY JobsAreTyped
  <2>6. job.type = "upload-file" => job.upload \in Uploads
    BY JobsAreTyped
  <2>7. CASE job = NoJob
    <3>1. queue' = queue
      BY <1>8, <2>7 DEF Crash
    <3> QED
      BY <2>1, <2>2, <2>3, <2>4, <2>5, <3>1
  <2>8. CASE job # NoJob
    <3>1. queue' = <<job>> \o queue
      BY <1>8, <2>8 DEF Crash
    <3>2. <<job>> \in Seq({job}) /\ Len(<<job>>) = 1 /\ <<job>>[1] = job
      OBVIOUS
    <3>3. \A k \in DOMAIN queue' : \/ k = 1 /\ queue'[k] = job
                                   \/ k - 1 \in DOMAIN queue /\ k \in Nat /\ queue'[k] = queue[k - 1]
      BY <3>1, <3>2
    <3>4. ASSUME NEW k \in DOMAIN queue', queue'[k].type = "upload-file"
          PROVE  /\ Named(queue'[k]) /\ session'[queue'[k].upload] = Closed
                 /\ \A l \in DOMAIN queue' :
                      queue'[l].type = "upload-file" /\ queue'[l].upload = queue'[k].upload => k = l
      BY <2>3, <2>5, <2>6, <3>3, <3>4
    <3> QED
      BY <2>1, <2>2, <2>4, <3>4
  <2> QED
    BY <2>7, <2>8
<1>9. \/ UNCHANGED <<session, temp, job, queue, crashes>> \/ Deliver \/ Acknowledge \/ EndCollection \/ Unlink
      \/ \E u \in Uploads : InitNewFileUpload(u) \/ InitNewRevisionUpload(u) \/ FinishUpload(u)
      \/ ScheduleCollection \/ Crash
  BY DEF Work, Environment, Store, Collect, ProcessBlobBlock, FindBlobByHash, AddBlob, AddBlobPart,
     AddRevision, AddFile, FindSoftDeletedFiles, DeleteRevisions, DeleteFileRow,
     FindUnreferencedBlobs, DeleteBlobParts, DeleteBlob, FindUnreferencedBlobBlocks,
     DeleteBlobBlockStorage, DeleteBlobBlock, ExpireFile, NextSecond
<1> QED
  BY <1>1, <1>2, <1>3, <1>4, <1>5, <1>6, <1>7, <1>8, <1>9

LEMMA StoringStep ==
    ASSUME CatalogInv, StoringInv, QueueInv, Work \/ Environment
    PROVE  StoringInv'
<1>a. OutsideOK /\ LocalsOK /\ Worker \in Procs /\ FilesOK /\ WorkerInv /\ AddersInv /\ BlobsOK
  BY DEF CatalogInv, CatalogTypeOK, Procs
<1> USE <1>a DEF LocalsOK, Goto, Fail, Before, locals, blobTables, files, revisions, jobs
<1>1. CASE Environment
  BY <1>1 DEF Environment, InitNewFileUpload, InitNewRevisionUpload, FinishUpload, ScheduleCollection,
     ExpireFile, NextSecond, Crash, StoringInv, Existing
<1>2. CASE Deliver
  BY <1>2 DEF Deliver, Begin, StoringInv
<1>3. CASE ProcessBlobBlock(Worker)
  <2> PICK i \in todo[Worker] :
         /\ held' = [held EXCEPT ![Worker] = @ \cup {i}]
         /\ \/ /\ todo[Worker] = {i} /\ pc' = [pc EXCEPT ![Worker] = "findBlob"]
            \/ /\ todo' = [todo EXCEPT ![Worker] = @ \ {i}] /\ UNCHANGED pc
    BY <1>3 DEF ProcessBlobBlock
  <2>1. pc[Worker] = "blocks" /\ UNCHANGED <<content, target, job>>
    BY <1>3 DEF ProcessBlobBlock
  <2>2. held[Worker] \cup todo[Worker] = Indices(content[Worker])
    BY <2>1 DEF StoringInv
  <2> QED
    BY <2>1, <2>2 DEF StoringInv
<1>4. CASE FindBlobByHash(Worker)
  BY <1>4 DEF FindBlobByHash, AfterBlob, StoringInv, WorkerInv
<1>5. CASE AddBlob(Worker)
  BY <1>5 DEF AddBlob, StoringInv
<1>6. CASE AddBlobPart(Worker)
  <2>1. /\ UNCHANGED <<content, held, file, target, blobs, job, name>> /\ pc[Worker] = "parts"
        /\ pc'[Worker] \in {AfterBlob(Worker), "parts", "failed"}
    BY <1>6 DEF AddBlobPart
  <2> QED
    BY <2>1 DEF AfterBlob, StoringInv, WorkerInv
<1>7. CASE AddRevision(Worker)
  BY <1>7 DEF AddRevision, StoringInv
<1>8. CASE AddFile
  <2>1. pc[Worker] = "file" /\ job.type = "upload-file" /\ target[Worker] = job.name /\ job' = job
    BY <1>8 DEF AddFile, StoringInv
  <2>2. job.file = NoFile /\ job.name # NoName
    BY <2>1 DEF WorkerInv, QueueInv, Named
  <2>3. CASE pc' = [pc EXCEPT ![Worker] = "failed"]
    BY <2>3 DEF StoringInv
  <2>4. CASE /\ pc' = [pc EXCEPT ![Worker] = "revision"] /\ lastFile < MaxFiles
             /\ name' = [name EXCEPT ![lastFile + 1] = target[Worker]]
             /\ file' = [file EXCEPT ![Worker] = lastFile + 1]
    <3>1. lastFile + 1 \in FileIds
      BY <2>4, CatalogBounds DEF FileIds, FilesOK
    <3>2. name'[lastFile + 1] = target[Worker]
      BY <2>4, <3>1 DEF FilesOK
    <3>3. file'[Worker] \in Existing'
      BY <2>1, <2>2, <2>4, <3>1, <3>2 DEF Existing
    <3>4. pc'[Worker] = "revision"
      BY <2>4
    <3>5. \A c \in Contents : <<lastFile + 1, c>> \notin revs
      BY DEF FilesOK, Existing
    <3>6. file'[Worker] = lastFile + 1 /\ revs' = revs
      BY <1>8, <2>4 DEF AddFile
    <3> QED
      BY <2>1, <2>2, <3>3, <3>4, <3>5, <3>6 DEF StoringInv
  <2> QED
    BY <1>8, <2>3, <2>4 DEF AddFile
<1>9. CASE Unlink \/ Acknowledge \/ Collect
  <2>1. pc'[Worker] \notin Before \cup {"revision", "unlink"}
    BY <1>9 DEF Unlink, Acknowledge, Collect, FindSoftDeletedFiles, DeleteRevisions, DeleteFileRow,
       FindUnreferencedBlobs, DeleteBlobParts, DeleteBlob, FindUnreferencedBlobBlocks,
       DeleteBlobBlockStorage, DeleteBlobBlock, EndCollection
  <2> QED
    BY <2>1 DEF StoringInv
<1> QED
  BY <1>1, <1>2, <1>3, <1>4, <1>5, <1>6, <1>7, <1>8, <1>9 DEF Work, Store

LEMMA CollectingStep ==
    ASSUME CatalogInv, CollectingInv, Work \/ Environment
    PROVE  CollectingInv'
<1>a. LocalsOK /\ Worker \in Procs /\ FilesOK /\ BlobsOK /\ CollectorOK
  BY DEF CatalogInv, CatalogTypeOK, Procs
<1> DEFINE Labs == {"deleteFile", "nextBlob", "deleteBlob", "nextBlock", "deleteBlock"}
<1> USE <1>a DEF LocalsOK, Goto, Fail, locals, blobTables, collector, revisions, Referenced,
       InUse
<1>1. CASE Environment
  BY <1>1 DEF Environment, InitNewFileUpload, InitNewRevisionUpload, FinishUpload, ScheduleCollection,
     ExpireFile, NextSecond, Crash, CollectingInv
<1>2. CASE \/ Store(Worker) \/ AddFile \/ Deliver \/ Unlink \/ Acknowledge
           \/ FindSoftDeletedFiles \/ DeleteFileRow \/ EndCollection
  <2>1. pc'[Worker] \notin Labs
    BY <1>2 DEF Store, ProcessBlobBlock, FindBlobByHash, AddBlob, AddBlobPart, AddRevision, AfterBlob,
       AddFile, Deliver, Begin, Unlink, Acknowledge, FindSoftDeletedFiles, DeleteFileRow, EndCollection
  <2> QED
    BY <2>1 DEF CollectingInv
<1>3. CASE DeleteRevisions
  BY <1>3 DEF DeleteRevisions, CollectingInv
<1>4. CASE FindUnreferencedBlobs
  BY <1>4 DEF FindUnreferencedBlobs, CollectingInv
<1>5. CASE DeleteBlobParts
  <2>1. /\ pc[Worker] = "nextBlob" /\ pc'[Worker] = "deleteBlob" /\ revs' = revs
        /\ doomedBlobs' \subseteq doomedBlobs /\ blob' \in doomedBlobs
        /\ parts' = [parts EXCEPT ![blob'] = {}]
    BY <1>5 DEF DeleteBlobParts
  <2>2. parts'[blob'] = {}
    BY <2>1 DEF CollectorOK, BlobsOK
  <2> QED
    BY <2>1, <2>2 DEF CollectingInv
<1>6. CASE DeleteBlob
  BY <1>6 DEF DeleteBlob, CollectingInv
<1>7. CASE FindUnreferencedBlobBlocks
  BY <1>7 DEF FindUnreferencedBlobBlocks, CollectingInv
<1>8. CASE DeleteBlobBlockStorage
  BY <1>8 DEF DeleteBlobBlockStorage, CollectingInv
<1>9. CASE DeleteBlobBlock
  BY <1>9 DEF DeleteBlobBlock, CollectingInv
<1> QED
  BY <1>1, <1>2, <1>3, <1>4, <1>5, <1>6, <1>7, <1>8, <1>9 DEF Work, Collect

\* Why a step stops the worker.
StopReason ==
    /\ job'.type = "upload-file"
    /\ \/ job'.file = NoFile /\ \E i \in Existing : name[i] = job'.name
       \/ job'.file # NoFile /\ job'.file \notin Existing
       \/ job'.file # NoFile /\ <<job'.file, job'.content>> \in thisSecond
       \/ crashes > 0 /\ job'.upload \notin temp

LEMMA StoppedStep ==
    ASSUME CatalogInv, Alone, QueueInv, StoringInv, CollectingInv, Next,
           pc'[Worker] = "failed", pc[Worker] # "failed"
    PROVE  StopReason
<1>a. LocalsOK /\ Worker \in Procs /\ FilesOK /\ WorkerInv /\ OutsideOK
  BY DEF CatalogInv, CatalogTypeOK, Procs
<1> USE <1>a DEF LocalsOK, Goto, Fail, jobs
<1>1. CASE Environment
  BY <1>1 DEF Environment, InitNewFileUpload, InitNewRevisionUpload, FinishUpload, ScheduleCollection,
     ExpireFile, NextSecond, Crash
<1>2. CASE \E p \in Requests : StartRevision(p) \/ Store(p)
  BY <1>2, RequestsLeaveWorkerAlone
<1>3. CASE \/ ProcessBlobBlock(Worker) \/ FindBlobByHash(Worker) \/ Unlink \/ Acknowledge
           \/ FindSoftDeletedFiles \/ DeleteRevisions \/ FindUnreferencedBlobs \/ DeleteBlobParts
           \/ FindUnreferencedBlobBlocks \/ DeleteBlobBlockStorage \/ EndCollection
  BY <1>3 DEF ProcessBlobBlock, FindBlobByHash, AfterBlob, Unlink, Acknowledge, FindSoftDeletedFiles,
     DeleteRevisions, FindUnreferencedBlobs, DeleteBlobParts, FindUnreferencedBlobBlocks,
     DeleteBlobBlockStorage, EndCollection
<1>4. CASE Deliver
  <2>1. queue # <<>> /\ job' = queue[1]
    BY <1>4 DEF Deliver
  <2>2. 1 \in DOMAIN queue
    BY <2>1 DEF OutsideOK
  <2>3. job'.type = "upload-file" => job'.upload \in temp \/ crashes > 0
    BY <2>1, <2>2 DEF QueueInv
  <2>4. job'.type = "upload-file" /\ job'.upload \notin temp
    BY <1>4 DEF Deliver, Begin
  <2> QED
    BY <2>3, <2>4 DEF StopReason
<1>5. CASE AddBlob(Worker)
  BY <1>5 DEF AddBlob, StoringInv
<1>6. CASE AddBlobPart(Worker)
  <2>1. pc[Worker] = "parts" /\ blobId[Worker] /\ held[Worker] = Indices(content[Worker])
    BY <1>6 DEF AddBlobPart, WorkerInv, StoringInv
  <2>2. pc'[Worker] # "failed"
    BY <1>6, <2>1 DEF AddBlobPart, AfterBlob
  <2> QED
    BY <2>2
<1>7. CASE AddRevision(Worker)
  <2>1. /\ pc[Worker] = "revision" /\ blobId[Worker] /\ job.type = "upload-file" /\ job' = job
        /\ content[Worker] = job.content /\ job.content \in Contents
    BY <1>7 DEF AddRevision, WorkerInv, StoringInv
  <2>2. file[Worker] \notin Existing \/ <<file[Worker], content[Worker]>> \in thisSecond
    BY <1>7, <2>1 DEF AddRevision
  <2>3. thisSecond \subseteq revs
    BY DEF FilesOK
  <2>4. CASE job.file = NoFile
    BY <2>1, <2>2, <2>3, <2>4 DEF StoringInv
  <2>5. CASE job.file # NoFile
    <3>1. file[Worker] = job.file
      BY <2>1, <2>5 DEF StoringInv
    <3> QED
      BY <2>1, <2>2, <2>5, <3>1 DEF StopReason
  <2> QED
    BY <2>4, <2>5
<1>8. CASE AddFile
  <2>1. /\ pc[Worker] = "file" /\ job.type = "upload-file" /\ target[Worker] = job.name
        /\ job' = job /\ job.file = NoFile
    BY <1>8 DEF AddFile, StoringInv, WorkerInv, Before
  <2>2. \E i \in Existing : name[i] = target[Worker]
    BY <1>8 DEF AddFile
  <2> QED
    BY <2>1, <2>2 DEF StopReason
<1>9. CASE DeleteFileRow
  BY <1>9 DEF DeleteFileRow, CollectingInv
<1>10. CASE DeleteBlob
  BY <1>10 DEF DeleteBlob, CollectingInv
<1>11. CASE DeleteBlobBlock
  BY <1>11 DEF DeleteBlobBlock, CollectingInv
<1> QED
  BY <1>1, <1>2, <1>3, <1>4, <1>5, <1>6, <1>7, <1>8, <1>9, <1>10, <1>11
     DEF Next, Environment, Work, Store, Collect

LEMMA AloneInvInit == Init => AloneInv
<1> SUFFICES ASSUME Init PROVE AloneInv
  OBVIOUS
<1>1. QueueInv
  BY DEF Init, QueueInv, Fresh, NoJob
<1>2. StoringInv /\ CollectingInv
  BY DEF Init, StoringInv, CollectingInv, Before, Procs
<1> QED
  BY <1>1, <1>2 DEF AloneInv

LEMMA AloneInvStep == CatalogInv /\ AloneInv /\ [Next]_vars => AloneInv'
<1> SUFFICES ASSUME CatalogInv, AloneInv, [Next]_vars, Alone'
             PROVE  QueueInv' /\ StoringInv' /\ CollectingInv'
  BY DEF AloneInv
<1>1. CASE Next
  <2>1. Alone /\ (Work \/ Environment)
    BY <1>1, AloneSteps
  <2>2. QueueInv /\ StoringInv /\ CollectingInv
    BY <2>1 DEF AloneInv
  <2> QED
    BY <2>1, <2>2, QueueStep, StoringStep, CollectingStep
<1>2. CASE UNCHANGED vars
  <2> USE DEF vars, files, revisions, blobTables, locals, collector, jobs, outside, lost
  <2>1. Alone
    BY <1>2 DEF Alone
  <2>2. QueueInv' /\ StoringInv'
    BY <1>2, <2>1 DEF AloneInv, QueueInv, Named, StoringInv, Before, Existing
  <2>3. CollectingInv'
    BY <1>2, <2>1 DEF AloneInv, CollectingInv, Existing, Referenced, InUse
  <2> QED
    BY <2>2, <2>3
<1> QED
  BY <1>1, <1>2

\* As long as no request stores a revision, the queue stops at nothing but an upload
\* whose name has been taken or whose file has been deleted since it was asked for,
\* whose bytes became a revision of its file within the same second, or, after a crash,
\* that had been stored before: no unique or foreign key of the blobs and nothing the
\* collector deletes stops the worker.
THEOREM OnlyFilesStopTheWorker == Spec => WorkerStopsOnlyOverFiles
<1> DEFINE Stops == pc'[Worker] = "failed" /\ pc[Worker] # "failed" /\ Alone
<1>1. CatalogInv /\ AloneInv /\ [Next]_vars => [Stops => StopReason]_vars
  BY StoppedStep DEF AloneInv
<1>2. CatalogInv /\ [Next]_vars /\ AloneInv => AloneInv'
  BY AloneInvStep
<1>3. CatalogInv /\ CatalogInv' /\ [Next]_vars /\ AloneInv => AloneInv' /\ [Stops => StopReason]_vars
  BY <1>1, <1>2
<1>4. Spec => [][Stops => StopReason]_vars
  BY <1>3, AloneInvInit, CatalogInvAlways, PTL DEF Spec
<1> QED
  BY <1>4 DEF WorkerStopsOnlyOverFiles, StopReason, Alone

=============================================================================
