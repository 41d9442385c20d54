------------------------ MODULE StorageBlocksProofs ------------------------
(* Theorems about StorageBlocks, for every value of its constants. *)
EXTENDS StorageBlocks, FiniteSetTheorems, TLAPS

(***************************************************************************)
(* Type correctness.  Reading the next source, moving references and        *)
(* writing a combined block need a source to be there, so the invariant     *)
(* also says where the worker is while it combines.                         *)
(***************************************************************************)
AcquiringOrWriting ==
    {"lock", "select", "unfree", "create", "store", "info", "location", "residual", "count"}

CombineControl ==
    /\ pc[Worker] \in {"find", "add", "reference", "link"} => job.type = "upload-file"
    /\ pc[Worker] \in AcquiringOrWriting =>
            \/ job.type = "upload-file"
            \/ job.type = "combine-residual-blocks" /\ sources # {}
    /\ pc[Worker] \in {"combine", "read"} => job.type = "combine-residual-blocks"
    /\ pc[Worker] \in {"read", "refs"} => \E i \in sources : i > pos
    /\ pc[Worker] = "move" => pos \in sources

TypeInv == TypeOK /\ CombineControl

\* An answer to QueryResidualBlocksOrderedBySizeDescending is a sequence.
LEMMA ResidualRowsAreSequences ==
    ASSUME TableOK, NEW q \in ResidualRows
    PROVE  q \in Seq(StorageIds) /\ Len(q) \in Nat /\ DOMAIN q = 1..Len(q)
<1>1. IsFiniteSet(1..MaxStorageBlocks)
  BY BoundsAssumption, FS_Interval
<1>2. IsFiniteSet(residual)
  BY <1>1, FS_Subset DEF StorageIds, TableOK
<1>3. Cardinality(residual) \in Nat
  BY <1>2, FS_CardinalityType
<1>4. q \in [1..Cardinality(residual) -> StorageIds]
  BY DEF ResidualRows, TableOK
<1> QED
  BY <1>3, <1>4

\* What lies on a backend or in the cache is a content.
LEMMA DownloadedIsContent ==
    ASSUME StoresOK, MemoryOK, NEW s \in StorageIds
    PROVE  Stored(s) \subseteq Content /\ Downloaded(s) \subseteq Content
<1>1. \A k \in locs[s] : files[s][k] \in Content
  BY DEF StoresOK
<1>2. Stored(s) \subseteq Content
  BY <1>1 DEF Stored
<1> QED
  BY <1>2 DEF MemoryOK, Downloaded

LEMMA BlankIsContent == Blank \in Content
  BY DEF Blank, Content

LEMMA ConcatIsContent ==
    ASSUME NEW c \in Content, NEW d \in Content
    PROVE  Concat(c, d) \in Content
<1>1. Shifted(d, c.size) \subseteq BlobBlocks \X Nat
  BY DEF Shifted, Content
<1> QED
  BY <1>1 DEF Concat, Content

LEMMA PlainIsContent ==
    ASSUME NEW b \in BlobBlocks
    PROVE  Plain(b) \in Content
  BY SizeAssumption, BoundsAssumption DEF Plain, Content

LEMMA JobsAreJobs ==
    /\ \A b \in BlobBlocks : UploadJob(b) \in Jobs
    /\ \A s \in StorageIds : ReplicateJob(s) \in Jobs
    /\ CombineJob \in Jobs /\ CollectJob \in Jobs
  BY DEF UploadJob, ReplicateJob, CombineJob, CollectJob, Jobs

\* A writer's tail keeps the queue, the cache and the worker's position typed, and
\* leaves the worker where CombineControl wants it.
LEMMA EndWriteTyped ==
    ASSUME TypeInv, NEW p \in Procs, NEW jobs \in Seq(Jobs), EndWrite(p, jobs),
           pc[p] \in AcquiringOrWriting, UNCHANGED <<job, sources>>
    PROVE  /\ cache' \in [StorageIds -> Content] /\ queue' \in Seq(Jobs)
           /\ pc' \in [Procs -> Labels] /\ pos' \in Nat /\ CombineControl'
<1>a. /\ CombineControl /\ Worker \in Procs
      /\ MemoryOK /\ ControlOK /\ LocalsOK /\ CombineOK
  BY DEF TypeInv, TypeOK, Procs
<1>1. ReplicateJob(blk[p]) \in Jobs
  BY <1>a, JobsAreJobs DEF LocalsOK
<1>2. queue' \in Seq(Jobs)
  BY <1>1, <1>a DEF ControlOK, EndWrite, Send
<1>3. cache' \in [StorageIds -> Content]
  BY <1>a, BlankIsContent DEF MemoryOK, EndWrite
<1>4. CASE p = Worker /\ job.type = "combine-residual-blocks"
  <2>1. pc' = [pc EXCEPT ![Worker] = "refs"] /\ pos' = 0
    BY <1>4 DEF EndWrite, Goto
  <2>2. pc'[Worker] = "refs" /\ pc' \in [Procs -> Labels]
    BY <2>1, <1>a DEF ControlOK, Labels
  <2>3. PICK i \in sources : TRUE
    BY <1>4, <1>a DEF CombineControl
  <2>4. i \in sources' /\ i > pos'
    BY <2>1, <2>3, <1>a DEF CombineOK
  <2>5. CombineControl'
    BY <2>2, <2>4 DEF CombineControl, AcquiringOrWriting
  <2> QED
    BY <1>2, <1>3, <2>1, <2>2, <2>5
<1>5. CASE ~(p = Worker /\ job.type = "combine-residual-blocks")
  <2>1. pc' = [pc EXCEPT ![p] = "reference"] /\ pos' = pos
    BY <1>5 DEF EndWrite, Goto
  <2>2. pc' \in [Procs -> Labels] /\ pos' \in Nat
    BY <2>1, <1>a DEF ControlOK, CombineOK, Labels
  <2>3. p = Worker => job.type = "upload-file"
    BY <1>5, <1>a DEF CombineControl
  <2>4. CombineControl'
    BY <2>1, <2>3, <1>a DEF CombineControl, AcquiringOrWriting, ControlOK
  <2> QED
    BY <1>2, <1>3, <2>2, <2>4
<1> QED
  BY <1>4, <1>5

LEMMA TypeInit == Init => TypeInv
<1> SUFFICES ASSUME Init PROVE TypeInv
  OBVIOUS
<1> USE BlankIsContent, WorkerIsNoReviser, BoundsAssumption
<1>1. CatalogOK /\ TableOK /\ StoresOK /\ OutsideOK
  BY DEF Init, CatalogOK, TableOK, StoresOK, OutsideOK, StorageIds
<1>2. MemoryOK /\ ControlOK
  BY DEF Init, MemoryOK, ControlOK, Labels
<1>3. LocalsOK
  BY DEF Init, LocalsOK, StorageIds
<1>4. CombineOK /\ ResultsOK
  BY DEF Init, CombineOK, ResultsOK
<1>5. CombineControl
  BY DEF Init, CombineControl, AcquiringOrWriting, Procs
<1> QED
  BY <1>1, <1>2, <1>3, <1>4, <1>5 DEF TypeInv, TypeOK

\* The storing steps of any process.
LEMMA TypeStore ==
    ASSUME TypeInv, NEW p \in Procs, Store(p)
    PROVE  TypeInv'
<1> USE WorkerIsNoReviser, BoundsAssumption DEF tables, catalog, table, stores, memory,
      locals, combine, results, outside, others, Goto, Fail, Return
<1>a. /\ CombineControl /\ Worker \in Procs
      /\ CatalogOK /\ TableOK /\ StoresOK /\ MemoryOK /\ ControlOK /\ LocalsOK
      /\ CombineOK /\ ResultsOK /\ OutsideOK
  BY DEF TypeInv, TypeOK, Procs
<1>1. CASE FindBlobBlock(p)
  <2>1. ControlOK'
    BY <1>1, <1>a DEF FindBlobBlock, ControlOK, Labels
  <2>2. /\ CatalogOK' /\ TableOK' /\ StoresOK' /\ MemoryOK' /\ LocalsOK'
        /\ CombineOK' /\ ResultsOK' /\ OutsideOK'
    BY <1>1, <1>a
       DEF FindBlobBlock, CatalogOK, TableOK, StoresOK, MemoryOK, LocalsOK,
           CombineOK, ResultsOK, OutsideOK
  <2>3. CombineControl'
    BY <1>1, <1>a DEF FindBlobBlock, CombineControl, ControlOK, AcquiringOrWriting
  <2> QED BY <2>1, <2>2, <2>3 DEF TypeInv, TypeOK
<1>2. CASE AddBlobBlock(p)
  <2>1. CatalogOK'
    BY <1>2, <1>a DEF AddBlobBlock, CatalogOK, LocalsOK
  <2>2. ControlOK'
    BY <1>2, <1>a DEF AddBlobBlock, ControlOK, Labels
  <2>3. /\ TableOK' /\ StoresOK' /\ MemoryOK' /\ LocalsOK' /\ CombineOK'
        /\ ResultsOK' /\ OutsideOK'
    BY <1>2, <1>a
       DEF AddBlobBlock, TableOK, StoresOK, MemoryOK, LocalsOK, CombineOK,
           ResultsOK, OutsideOK
  <2>4. CombineControl'
    BY <1>2, <1>a DEF AddBlobBlock, CombineControl, ControlOK, AcquiringOrWriting
  <2> QED BY <2>1, <2>2, <2>3, <2>4 DEF TypeInv, TypeOK
<1>3. CASE LockFreeList(p)
  <2>1. MemoryOK'
    BY <1>3, <1>a DEF LockFreeList, MemoryOK
  <2>2. ControlOK'
    BY <1>3, <1>a DEF LockFreeList, ControlOK, Labels
  <2>3. /\ CatalogOK' /\ TableOK' /\ StoresOK' /\ LocalsOK' /\ CombineOK'
        /\ ResultsOK' /\ OutsideOK'
    BY <1>3, <1>a
       DEF LockFreeList, CatalogOK, TableOK, StoresOK, LocalsOK, CombineOK,
           ResultsOK, OutsideOK
  <2>4. CombineControl'
    BY <1>3, <1>a DEF LockFreeList, CombineControl, ControlOK, AcquiringOrWriting
  <2> QED BY <2>1, <2>2, <2>3, <2>4 DEF TypeInv, TypeOK
<1>4. CASE SelectFreed(p)
  <2>1. LocalsOK'
    BY <1>4, <1>a DEF SelectFreed, LocalsOK, TableOK
  <2>2. ControlOK'
    BY <1>4, <1>a DEF SelectFreed, ControlOK, Labels
  <2>3. /\ CatalogOK' /\ TableOK' /\ StoresOK' /\ MemoryOK' /\ CombineOK'
        /\ ResultsOK' /\ OutsideOK'
    BY <1>4, <1>a
       DEF SelectFreed, CatalogOK, TableOK, StoresOK, MemoryOK, CombineOK,
           ResultsOK, OutsideOK
  <2>4. CombineControl'
    BY <1>4, <1>a DEF SelectFreed, CombineControl, ControlOK, AcquiringOrWriting
  <2> QED BY <2>1, <2>2, <2>3, <2>4 DEF TypeInv, TypeOK
<1>5. CASE DeleteFreed(p)
  <2>1. TableOK'
    BY <1>5, <1>a DEF DeleteFreed, TableOK
  <2>2. MemoryOK'
    BY <1>5, <1>a DEF DeleteFreed, MemoryOK
  <2>3. ControlOK'
    BY <1>5, <1>a DEF DeleteFreed, ControlOK, Labels
  <2>4. /\ CatalogOK' /\ StoresOK' /\ LocalsOK' /\ CombineOK' /\ ResultsOK'
        /\ OutsideOK'
    BY <1>5, <1>a
       DEF DeleteFreed, CatalogOK, StoresOK, LocalsOK, CombineOK, ResultsOK,
           OutsideOK
  <2>5. CombineControl'
    BY <1>5, <1>a DEF DeleteFreed, CombineControl, ControlOK, AcquiringOrWriting
  <2> QED BY <2>1, <2>2, <2>3, <2>4, <2>5 DEF TypeInv, TypeOK
<1>6. CASE CreateBlock(p)
  <2>1. TableOK'
    BY <1>6, <1>a DEF CreateBlock, TableOK
  <2>2. LocalsOK'
    BY <1>6, <1>a DEF CreateBlock, LocalsOK, TableOK, StorageIds
  <2>3. MemoryOK'
    BY <1>6, <1>a DEF CreateBlock, MemoryOK
  <2>4. ControlOK'
    BY <1>6, <1>a DEF CreateBlock, ControlOK, Labels
  <2>5. /\ CatalogOK' /\ StoresOK' /\ CombineOK' /\ ResultsOK' /\ OutsideOK'
    BY <1>6, <1>a
       DEF CreateBlock, CatalogOK, StoresOK, CombineOK, ResultsOK, OutsideOK
  <2>6. CombineControl'
    BY <1>6, <1>a DEF CreateBlock, CombineControl, ControlOK, AcquiringOrWriting
  <2> QED BY <2>1, <2>2, <2>3, <2>4, <2>5, <2>6 DEF TypeInv, TypeOK
<1>7. CASE StoreFile(p)
  <2>1. StoresOK'
    BY <1>7, <1>a DEF StoreFile, StoresOK, LocalsOK
  <2>2. ControlOK'
    BY <1>7, <1>a DEF StoreFile, ControlOK, Labels
  <2>3. /\ CatalogOK' /\ TableOK' /\ MemoryOK' /\ LocalsOK' /\ CombineOK'
        /\ ResultsOK' /\ OutsideOK'
    BY <1>7, <1>a
       DEF StoreFile, CatalogOK, TableOK, MemoryOK, LocalsOK, CombineOK, ResultsOK,
           OutsideOK
  <2>4. CombineControl'
    BY <1>7, <1>a DEF StoreFile, CombineControl, ControlOK, AcquiringOrWriting
  <2> QED BY <2>1, <2>2, <2>3, <2>4 DEF TypeInv, TypeOK
<1>8. CASE UpdateStorageBlockInfo(p)
  <2>1. TableOK'
    BY <1>8, <1>a DEF UpdateStorageBlockInfo, TableOK, LocalsOK
  <2>2. ControlOK'
    BY <1>8, <1>a DEF UpdateStorageBlockInfo, ControlOK, Labels
  <2>3. /\ CatalogOK' /\ StoresOK' /\ MemoryOK' /\ LocalsOK' /\ CombineOK'
        /\ ResultsOK' /\ OutsideOK'
    BY <1>8, <1>a
       DEF UpdateStorageBlockInfo, CatalogOK, StoresOK, MemoryOK, LocalsOK,
           CombineOK, ResultsOK, OutsideOK
  <2>4. CombineControl'
    BY <1>8, <1>a
       DEF UpdateStorageBlockInfo, CombineControl, ControlOK, AcquiringOrWriting
  <2> QED BY <2>1, <2>2, <2>3, <2>4 DEF TypeInv, TypeOK
<1>9. CASE AddBlockLocation(p)
  <2>a. locs' \in [StorageIds -> SUBSET Backends]
    BY <1>9, <1>a DEF AddBlockLocation, StoresOK, Backends, Fastest
  <2>b. /\ cache' \in [StorageIds -> Content] /\ queue' \in Seq(Jobs)
        /\ pc' \in [Procs -> Labels] /\ pos' \in Nat /\ CombineControl'
    <3>1. CASE EndWrite(p, <<>>)
      <4>1. <<>> \in Seq(Jobs)
        OBVIOUS
      <4>2. pc[p] \in AcquiringOrWriting /\ UNCHANGED <<job, sources>>
        BY <1>9 DEF AddBlockLocation, AcquiringOrWriting
      <4> HIDE DEF Goto, Fail, Return, tables, catalog, table, stores, memory, locals,
              combine, results, outside, others
      <4> QED
        BY <3>1, <4>1, <4>2, EndWriteTyped
    <3>2. CASE Fail(p) /\ UNCHANGED <<cache, queue, pos>>
      BY <3>2, <1>9, <1>a
         DEF AddBlockLocation, MemoryOK, ControlOK, CombineOK, Labels, CombineControl,
             AcquiringOrWriting
    <3>3. CASE Goto(p, "residual") /\ UNCHANGED <<cache, queue, pos>>
      BY <3>3, <1>9, <1>a
         DEF AddBlockLocation, MemoryOK, ControlOK, CombineOK, Labels, CombineControl,
             AcquiringOrWriting
    <3> QED
      BY <3>1, <3>2, <3>3, <1>9 DEF AddBlockLocation
  <2>1. StoresOK'
    BY <2>a, <1>9, <1>a DEF AddBlockLocation, StoresOK
  <2>2. MemoryOK'
    BY <2>b, <1>9, <1>a DEF AddBlockLocation, MemoryOK
  <2>3. ControlOK'
    BY <2>b, <1>9, <1>a DEF AddBlockLocation, ControlOK
  <2>4. CombineOK'
    BY <2>b, <1>9, <1>a DEF AddBlockLocation, CombineOK
  <2>5. /\ CatalogOK' /\ TableOK' /\ LocalsOK' /\ ResultsOK' /\ OutsideOK'
    BY <1>9, <1>a
       DEF AddBlockLocation, CatalogOK, TableOK, LocalsOK, ResultsOK, OutsideOK
  <2>6. CombineControl'
    BY <2>b
  <2> QED BY <2>1, <2>2, <2>3, <2>4, <2>5, <2>6 DEF TypeInv, TypeOK
<1>10. CASE PutOnResidualList(p)
  <2>1. TableOK'
    BY <1>10, <1>a DEF PutOnResidualList, TableOK, LocalsOK
  <2>2. ControlOK'
    BY <1>10, <1>a DEF PutOnResidualList, ControlOK, Labels
  <2>3. /\ CatalogOK' /\ StoresOK' /\ MemoryOK' /\ LocalsOK' /\ CombineOK'
        /\ ResultsOK' /\ OutsideOK'
    BY <1>10, <1>a
       DEF PutOnResidualList, CatalogOK, StoresOK, MemoryOK, LocalsOK, CombineOK,
           ResultsOK, OutsideOK
  <2>4. CombineControl'
    BY <1>10, <1>a
       DEF PutOnResidualList, CombineControl, ControlOK, AcquiringOrWriting
  <2> QED BY <2>1, <2>2, <2>3, <2>4 DEF TypeInv, TypeOK
<1>11. CASE QueryResidualBlockCount(p)
  <2> DEFINE jobs == IF Cardinality(residual) > THRESHOLD THEN <<CombineJob>> ELSE <<>>
  <2>a. jobs \in Seq(Jobs) /\ EndWrite(p, jobs)
    <3>1. EndWrite(p, jobs)
      BY <1>11 DEF QueryResidualBlockCount
    <3>2. <<CombineJob>> \in Seq(Jobs) /\ <<>> \in Seq(Jobs)
      BY JobsAreJobs
    <3> QED
      BY <3>1, <3>2
  <2> HIDE DEF jobs
  <2>b. /\ cache' \in [StorageIds -> Content] /\ queue' \in Seq(Jobs)
        /\ pc' \in [Procs -> Labels] /\ pos' \in Nat /\ CombineControl'
    <3>1. pc[p] \in AcquiringOrWriting /\ UNCHANGED <<job, sources>>
      BY <1>11 DEF QueryResidualBlockCount, AcquiringOrWriting
    <3> HIDE DEF Goto, Fail, Return, tables, catalog, table, stores, memory, locals,
            combine, results, outside, others
    <3> QED
      BY <3>1, <2>a, EndWriteTyped
  <2>1. MemoryOK'
    BY <2>b, <1>11, <1>a DEF QueryResidualBlockCount, MemoryOK
  <2>2. ControlOK'
    BY <2>b, <1>11, <1>a DEF QueryResidualBlockCount, ControlOK
  <2>3. CombineOK'
    BY <2>b, <1>11, <1>a DEF QueryResidualBlockCount, CombineOK
  <2>4. /\ CatalogOK' /\ TableOK' /\ StoresOK' /\ LocalsOK' /\ ResultsOK'
        /\ OutsideOK'
    BY <1>11, <1>a
       DEF QueryResidualBlockCount, CatalogOK, TableOK, StoresOK, LocalsOK,
           ResultsOK, OutsideOK
  <2>5. CombineControl'
    BY <2>b
  <2> QED BY <2>1, <2>2, <2>3, <2>4, <2>5 DEF TypeInv, TypeOK
<1>12. CASE AddBlobBlockStorage(p)
  <2>1. CatalogOK'
    BY <1>12, <1>a DEF AddBlobBlockStorage, CatalogOK, LocalsOK, Refs
  <2>2. ControlOK'
    BY <1>12, <1>a DEF AddBlobBlockStorage, ControlOK, Labels
  <2>3. /\ TableOK' /\ StoresOK' /\ MemoryOK' /\ LocalsOK' /\ CombineOK'
        /\ ResultsOK' /\ OutsideOK'
    BY <1>12, <1>a
       DEF AddBlobBlockStorage, TableOK, StoresOK, MemoryOK, LocalsOK, CombineOK,
           ResultsOK, OutsideOK
  <2>4. CombineControl'
    BY <1>12, <1>a
       DEF AddBlobBlockStorage, CombineControl, ControlOK, AcquiringOrWriting
  <2> QED BY <2>1, <2>2, <2>3, <2>4 DEF TypeInv, TypeOK
<1>13. CASE LinkBlob(p)
  <2>1. CatalogOK'
    BY <1>13, <1>a DEF LinkBlob, CatalogOK, LocalsOK
  <2>2. ControlOK'
    BY <1>13, <1>a DEF LinkBlob, ControlOK, Labels
  <2>3. /\ TableOK' /\ StoresOK' /\ MemoryOK' /\ LocalsOK' /\ CombineOK'
        /\ ResultsOK' /\ OutsideOK'
    BY <1>13, <1>a
       DEF LinkBlob, TableOK, StoresOK, MemoryOK, LocalsOK, CombineOK, ResultsOK,
           OutsideOK
  <2>4. CombineControl'
    BY <1>13, <1>a DEF LinkBlob, CombineControl, ControlOK, AcquiringOrWriting
  <2> QED BY <2>1, <2>2, <2>3, <2>4 DEF TypeInv, TypeOK
<1> QED
  BY <1>1, <1>2, <1>3, <1>4, <1>5, <1>6, <1>7, <1>8, <1>9, <1>10, <1>11, <1>12,
     <1>13 DEF Store

\* The other steps of the worker.
LEMMA TypeWork ==
    ASSUME TypeInv, Work, ~Store(Worker)
    PROVE  TypeInv'
<1> USE WorkerIsNoReviser, BoundsAssumption DEF tables, catalog, table, stores, memory,
      locals, combine, results, outside, others, Goto, Fail, Return
<1>a. /\ CombineControl /\ Worker \in Procs
      /\ CatalogOK /\ TableOK /\ StoresOK /\ MemoryOK /\ ControlOK /\ LocalsOK
      /\ CombineOK /\ ResultsOK /\ OutsideOK
  BY DEF TypeInv, TypeOK, Procs
<1>1. CASE Deliver
  <2>a. /\ job' \in Jobs /\ queue' \in Seq(Jobs)
    BY <1>1, <1>a DEF Deliver, ControlOK
  <2>1. LocalsOK'
    <3>1. job'.type = "upload-file" => job'.blobBlock \in BlobBlocks
      BY <2>a DEF Jobs, CombineJob, CollectJob
    <3>2. job'.type = "replicate" => job'.storageBlock \in StorageIds
      BY <2>a DEF Jobs, CombineJob, CollectJob
    <3>3. CASE job'.type = "upload-file" /\ pc' = [pc EXCEPT ![Worker] = "find"]
      BY <3>1, <3>3, <1>1, <1>a, PlainIsContent DEF Deliver, LocalsOK
    <3>4. CASE job'.type = "replicate"
      BY <3>2, <3>4, <1>1, <1>a DEF Deliver, LocalsOK
    <3>5. CASE UNCHANGED <<bb, blk, buf>>
      BY <3>5, <1>a DEF LocalsOK
    <3> QED
      BY <3>3, <3>4, <3>5, <1>1 DEF Deliver
  <2>2. ControlOK'
    BY <2>a, <1>1, <1>a DEF Deliver, ControlOK, Labels
  <2>3. /\ CatalogOK' /\ TableOK' /\ StoresOK' /\ MemoryOK' /\ CombineOK'
        /\ ResultsOK' /\ OutsideOK'
    BY <1>1, <1>a
       DEF Deliver, CatalogOK, TableOK, StoresOK, MemoryOK, CombineOK, ResultsOK,
           OutsideOK
  <2>4. CombineControl'
    BY <1>1, <1>a DEF Deliver, CombineControl, ControlOK, AcquiringOrWriting
  <2> QED BY <2>1, <2>2, <2>3, <2>4 DEF TypeInv, TypeOK
<1>2. CASE QueryBlockLocations
  <2>1. ResultsOK'
    BY <1>2, <1>a DEF QueryBlockLocations, ResultsOK, FindReplicationBackends
  <2>2. ControlOK'
    BY <1>2, <1>a DEF QueryBlockLocations, ControlOK, Labels
  <2>3. /\ CatalogOK' /\ TableOK' /\ StoresOK' /\ MemoryOK' /\ LocalsOK'
        /\ CombineOK' /\ OutsideOK'
    BY <1>2, <1>a
       DEF QueryBlockLocations, CatalogOK, TableOK, StoresOK, MemoryOK, LocalsOK,
           CombineOK, OutsideOK
  <2>4. CombineControl'
    BY <1>2, <1>a
       DEF QueryBlockLocations, CombineControl, ControlOK, AcquiringOrWriting
  <2> QED BY <2>1, <2>2, <2>3, <2>4 DEF TypeInv, TypeOK
<1>3. CASE CheckFreeList
  <2>1. ControlOK'
    BY <1>3, <1>a DEF CheckFreeList, ControlOK, Labels
  <2>2. /\ CatalogOK' /\ TableOK' /\ StoresOK' /\ MemoryOK' /\ LocalsOK'
        /\ CombineOK' /\ ResultsOK' /\ OutsideOK'
    BY <1>3, <1>a
       DEF CheckFreeList, CatalogOK, TableOK, StoresOK, MemoryOK, LocalsOK,
           CombineOK, ResultsOK, OutsideOK
  <2>3. CombineControl'
    BY <1>3, <1>a DEF CheckFreeList, CombineControl, ControlOK, AcquiringOrWriting
  <2> QED BY <2>1, <2>2, <2>3 DEF TypeInv, TypeOK
<1>4. CASE FetchBlock
  <2>1. LocalsOK'
    BY <1>4, <1>a, DownloadedIsContent DEF FetchBlock, LocalsOK
  <2>2. ControlOK'
    BY <1>4, <1>a DEF FetchBlock, ControlOK, Labels
  <2>3. /\ CatalogOK' /\ TableOK' /\ StoresOK' /\ MemoryOK' /\ CombineOK'
        /\ ResultsOK' /\ OutsideOK'
    BY <1>4, <1>a
       DEF FetchBlock, CatalogOK, TableOK, StoresOK, MemoryOK, CombineOK, ResultsOK,
           OutsideOK
  <2>4. CombineControl'
    BY <1>4, <1>a DEF FetchBlock, CombineControl, ControlOK, AcquiringOrWriting
  <2> QED BY <2>1, <2>2, <2>3, <2>4 DEF TypeInv, TypeOK
<1>5. CASE CopyFile
  <2>1. StoresOK'
    BY <1>5, <1>a DEF CopyFile, StoresOK, LocalsOK, ResultsOK
  <2>2. ControlOK'
    BY <1>5, <1>a DEF CopyFile, ControlOK, Labels
  <2>3. /\ CatalogOK' /\ TableOK' /\ MemoryOK' /\ LocalsOK' /\ CombineOK'
        /\ ResultsOK' /\ OutsideOK'
    BY <1>5, <1>a
       DEF CopyFile, CatalogOK, TableOK, MemoryOK, LocalsOK, CombineOK, ResultsOK,
           OutsideOK
  <2>4. CombineControl'
    BY <1>5, <1>a DEF CopyFile, CombineControl, ControlOK, AcquiringOrWriting
  <2> QED BY <2>1, <2>2, <2>3, <2>4 DEF TypeInv, TypeOK
<1>6. CASE AddReplicaLocation
  <2>1. StoresOK'
    BY <1>6, <1>a DEF AddReplicaLocation, StoresOK, ResultsOK
  <2>2. ResultsOK'
    BY <1>6, <1>a DEF AddReplicaLocation, ResultsOK
  <2>3. ControlOK'
    BY <1>6, <1>a DEF AddReplicaLocation, ControlOK, Labels
  <2>4. /\ CatalogOK' /\ TableOK' /\ MemoryOK' /\ LocalsOK' /\ CombineOK'
        /\ OutsideOK'
    BY <1>6, <1>a
       DEF AddReplicaLocation, CatalogOK, TableOK, MemoryOK, LocalsOK, CombineOK,
           OutsideOK
  <2>5. CombineControl'
    BY <1>6, <1>a
       DEF AddReplicaLocation, CombineControl, ControlOK, AcquiringOrWriting
  <2> QED BY <2>1, <2>2, <2>3, <2>4, <2>5 DEF TypeInv, TypeOK
<1>7. CASE QueryResidualBlocks
  <2>a. PICK q \in ResidualRows :
          /\ rows' = q
          /\ \/ sources' = {} /\ Return(Worker)
             \/ /\ \E S \in SUBSET (1..Len(q)) : IsCombination(q, S) /\ sources' = S
                /\ Goto(Worker, "read") /\ UNCHANGED job
    BY <1>7 DEF QueryResidualBlocks
  <2>b. q \in Seq(StorageIds) /\ Len(q) \in Nat /\ DOMAIN q = 1..Len(q)
    BY <1>a, ResidualRowsAreSequences
  <2>c. pos' = 0 /\ delta' = delta /\ queue' = queue
    BY <1>7 DEF QueryResidualBlocks
  <2>d. ASSUME NEW S \in SUBSET (1..Len(q)), IsCombination(q, S)
        PROVE  \E i \in S : i > 0
    <3>1. PICK first \in 1..Len(q) : Combines(q, first) /\ S = FirstFit(q, first)
      BY <2>d DEF IsCombination
    <3>2. Cardinality(S) > 1
      BY <3>1 DEF Combines
    <3>3. S # {}
      <4> SUFFICES ASSUME S = {} PROVE FALSE
        OBVIOUS
      <4>1. Cardinality(S) = 0
        BY FS_EmptySet
      <4> QED
        BY <3>2, <4>1
    <3>4. PICK i \in S : TRUE
      BY <3>3
    <3>5. i \in 1..Len(q)
      OBVIOUS
    <3> QED
      BY <3>4, <3>5, <2>b
  <2>1. CombineOK'
    BY <2>a, <2>b, <2>c, <1>a DEF CombineOK
  <2>2. LocalsOK'
    BY <1>7, <1>a, BlankIsContent DEF QueryResidualBlocks, LocalsOK
  <2>3. ControlOK'
    BY <2>a, <2>c, <1>a DEF ControlOK, Labels
  <2>4. /\ CatalogOK' /\ TableOK' /\ StoresOK' /\ MemoryOK' /\ ResultsOK'
        /\ OutsideOK'
    BY <1>7, <1>a
       DEF QueryResidualBlocks, CatalogOK, TableOK, StoresOK, MemoryOK, ResultsOK,
           OutsideOK
  <2>5. CombineControl'
    <3>1. CASE Return(Worker)
      BY <3>1, <1>a DEF CombineControl, ControlOK, AcquiringOrWriting
    <3>2. CASE /\ \E S \in SUBSET (1..Len(q)) : IsCombination(q, S) /\ sources' = S
               /\ Goto(Worker, "read") /\ UNCHANGED job
      <4>1. pc'[Worker] = "read"
        BY <3>2, <1>a DEF ControlOK
      <4>2. job'.type = "combine-residual-blocks"
        BY <3>2, <1>7, <1>a DEF CombineControl, QueryResidualBlocks
      <4>3. \E i \in sources' : i > pos'
        BY <3>2, <2>c, <2>d
      <4> QED
        BY <4>1, <4>2, <4>3 DEF CombineControl, AcquiringOrWriting
    <3> QED
      BY <3>1, <3>2, <2>a
  <2> QED BY <2>1, <2>2, <2>3, <2>4, <2>5 DEF TypeInv, TypeOK
<1>8. CASE ReadSource
  <2>1. MemoryOK'
    BY <1>8, <1>a, DownloadedIsContent DEF ReadSource, MemoryOK, CombineOK
  <2>2. LocalsOK'
    BY <1>8, <1>a, DownloadedIsContent, ConcatIsContent
       DEF ReadSource, LocalsOK, CombineOK
  <2>b. buf[Worker].size \in Nat
    BY <1>a DEF LocalsOK, Content
  <2>3. CombineOK'
    BY <1>8, <1>a, <2>b DEF ReadSource, CombineOK
  <2>4. ControlOK'
    BY <1>8, <1>a DEF ReadSource, ControlOK, Labels
  <2>5. /\ CatalogOK' /\ TableOK' /\ StoresOK' /\ ResultsOK' /\ OutsideOK'
    BY <1>8, <1>a DEF ReadSource, CatalogOK, TableOK, StoresOK, ResultsOK, OutsideOK
  <2>6. CombineControl'
    <3>1. pc[Worker] = "read" /\ UNCHANGED <<job, sources>>
      BY <1>8 DEF ReadSource
    <3>2. CASE pc' = [pc EXCEPT ![Worker] = "failed"]
      BY <3>1, <3>2, <1>a DEF CombineControl, ControlOK, AcquiringOrWriting
    <3>3. ASSUME NEW i \in sources, pos' = i,
                 pc' = [pc EXCEPT ![Worker] = IF IsLastSource(i) THEN "lock" ELSE "read"]
          PROVE  CombineControl'
      <4>1. CASE IsLastSource(i)
        <5>1. pc'[Worker] = "lock"
          BY <3>3, <4>1, <1>a DEF ControlOK
        <5>2. job.type = "combine-residual-blocks"
          BY <3>1, <1>a DEF CombineControl
        <5> QED
          BY <5>1, <5>2, <3>1 DEF CombineControl, AcquiringOrWriting
      <4>2. CASE ~IsLastSource(i)
        <5>1. pc'[Worker] = "read"
          BY <3>3, <4>2, <1>a DEF ControlOK
        <5>2. PICK j \in sources : ~(j <= i)
          BY <4>2 DEF IsLastSource
        <5>3. j > i
          BY <5>2, <1>a DEF CombineOK
        <5>4. job.type = "combine-residual-blocks"
          BY <3>1, <1>a DEF CombineControl
        <5>5. \E l \in sources' : l > pos'
          BY <5>3, <3>1, <3>3
        <5> QED
          BY <5>1, <5>4, <5>5, <3>1 DEF CombineControl, AcquiringOrWriting
      <4> QED
        BY <4>1, <4>2
    <3> QED
      BY <3>2, <3>3, <1>8 DEF ReadSource
  <2> QED BY <2>1, <2>2, <2>3, <2>4, <2>5, <2>6 DEF TypeInv, TypeOK
<1>9. CASE QueryBlobBlocksInStorageBlock
  <2>1. CombineOK'
    BY <1>9, <1>a DEF QueryBlobBlocksInStorageBlock, CombineOK
  <2>2. ResultsOK'
    BY <1>9, <1>a DEF QueryBlobBlocksInStorageBlock, ResultsOK, RefsTo, CatalogOK
  <2>3. ControlOK'
    BY <1>9, <1>a DEF QueryBlobBlocksInStorageBlock, ControlOK, Labels
  <2>4. /\ CatalogOK' /\ TableOK' /\ StoresOK' /\ MemoryOK' /\ LocalsOK'
        /\ OutsideOK'
    BY <1>9, <1>a
       DEF QueryBlobBlocksInStorageBlock, CatalogOK, TableOK, StoresOK, MemoryOK,
           LocalsOK, OutsideOK
  <2>5. CombineControl'
    BY <1>9, <1>a
       DEF QueryBlobBlocksInStorageBlock, CombineControl, ControlOK,
           AcquiringOrWriting
  <2> QED BY <2>1, <2>2, <2>3, <2>4, <2>5 DEF TypeInv, TypeOK
<1>10. CASE MoveReference
  <2>a. \A r \in moving : MovedOffset(r) \in Nat
    <3>1. pos \in sources
      BY <1>10, <1>a DEF MoveReference, CombineControl
    <3>2. delta[rows[pos]] \in Nat
      BY <3>1, <1>a DEF CombineOK
    <3> QED
      BY <3>2, <1>a DEF ResultsOK, Refs, MovedOffset
  <2>1. CatalogOK'
    BY <2>a, <1>10, <1>a DEF MoveReference, CatalogOK, ResultsOK, Refs, LocalsOK
  <2>2. ResultsOK'
    BY <1>10, <1>a DEF MoveReference, ResultsOK
  <2>3. ControlOK'
    BY <1>10, <1>a DEF MoveReference, ControlOK, Labels
  <2>4. /\ TableOK' /\ StoresOK' /\ MemoryOK' /\ LocalsOK' /\ CombineOK'
        /\ OutsideOK'
    BY <1>10, <1>a
       DEF MoveReference, TableOK, StoresOK, MemoryOK, LocalsOK, CombineOK,
           OutsideOK
  <2>5. CombineControl'
    BY <1>10, <1>a DEF MoveReference, CombineControl, ControlOK, AcquiringOrWriting
  <2> QED BY <2>1, <2>2, <2>3, <2>4, <2>5 DEF TypeInv, TypeOK
<1>11. CASE RemoveReferencesToStorageBlockId
  <2>1. CatalogOK'
    BY <1>11, <1>a DEF RemoveReferencesToStorageBlockId, CatalogOK
  <2>a. queue \o <<CollectJob>> \in Seq(Jobs)
    BY <1>a, JobsAreJobs DEF ControlOK
  <2>2. ControlOK'
    BY <2>a, <1>11, <1>a DEF RemoveReferencesToStorageBlockId, ControlOK, Labels, Send
  <2>3. /\ TableOK' /\ StoresOK' /\ MemoryOK' /\ LocalsOK' /\ CombineOK'
        /\ ResultsOK' /\ OutsideOK'
    BY <1>11, <1>a
       DEF RemoveReferencesToStorageBlockId, TableOK, StoresOK, MemoryOK, LocalsOK,
           CombineOK, ResultsOK, OutsideOK
  <2>4. CombineControl'
    BY <1>11, <1>a
       DEF RemoveReferencesToStorageBlockId, CombineControl, ControlOK,
           AcquiringOrWriting, IsLastSource, CombineOK
  <2> QED BY <2>1, <2>2, <2>3, <2>4 DEF TypeInv, TypeOK
<1>12. CASE CollectBlobs
  <2>1. CatalogOK'
    BY <1>12, <1>a DEF CollectBlobs, CatalogOK
  <2>2. ControlOK'
    BY <1>12, <1>a DEF CollectBlobs, ControlOK, Labels
  <2>3. /\ TableOK' /\ StoresOK' /\ MemoryOK' /\ LocalsOK' /\ CombineOK'
        /\ ResultsOK' /\ OutsideOK'
    BY <1>12, <1>a
       DEF CollectBlobs, TableOK, StoresOK, MemoryOK, LocalsOK, CombineOK,
           ResultsOK, OutsideOK
  <2>4. CombineControl'
    BY <1>12, <1>a DEF CollectBlobs, CombineControl, ControlOK, AcquiringOrWriting
  <2> QED BY <2>1, <2>2, <2>3, <2>4 DEF TypeInv, TypeOK
<1>13. CASE FindUnreferencedBlobBlocks
  <2>1. ResultsOK'
    BY <1>13, <1>a DEF FindUnreferencedBlobBlocks, ResultsOK, CatalogOK
  <2>2. ControlOK'
    BY <1>13, <1>a DEF FindUnreferencedBlobBlocks, ControlOK, Labels
  <2>3. /\ CatalogOK' /\ TableOK' /\ StoresOK' /\ MemoryOK' /\ LocalsOK'
        /\ CombineOK' /\ OutsideOK'
    BY <1>13, <1>a
       DEF FindUnreferencedBlobBlocks, CatalogOK, TableOK, StoresOK, MemoryOK,
           LocalsOK, CombineOK, OutsideOK
  <2>4. CombineControl'
    BY <1>13, <1>a
       DEF FindUnreferencedBlobBlocks, CombineControl, ControlOK, AcquiringOrWriting
  <2> QED BY <2>1, <2>2, <2>3, <2>4 DEF TypeInv, TypeOK
<1>14. CASE DeleteBlobBlockStorage
  <2>1. LocalsOK'
    BY <1>14, <1>a DEF DeleteBlobBlockStorage, LocalsOK, ResultsOK
  <2>2. CatalogOK'
    BY <1>14, <1>a DEF DeleteBlobBlockStorage, CatalogOK
  <2>3. ControlOK'
    BY <1>14, <1>a DEF DeleteBlobBlockStorage, ControlOK, Labels
  <2>4. /\ TableOK' /\ StoresOK' /\ MemoryOK' /\ CombineOK' /\ ResultsOK'
        /\ OutsideOK'
    BY <1>14, <1>a
       DEF DeleteBlobBlockStorage, TableOK, StoresOK, MemoryOK, CombineOK,
           ResultsOK, OutsideOK
  <2>5. CombineControl'
    BY <1>14, <1>a
       DEF DeleteBlobBlockStorage, CombineControl, ControlOK, AcquiringOrWriting
  <2> QED BY <2>1, <2>2, <2>3, <2>4, <2>5 DEF TypeInv, TypeOK
<1>15. CASE DeleteBlobBlock
  <2>1. CatalogOK'
    BY <1>15, <1>a DEF DeleteBlobBlock, CatalogOK
  <2>2. ResultsOK'
    BY <1>15, <1>a DEF DeleteBlobBlock, ResultsOK
  <2>3. ControlOK'
    BY <1>15, <1>a DEF DeleteBlobBlock, ControlOK, Labels
  <2>4. /\ TableOK' /\ StoresOK' /\ MemoryOK' /\ LocalsOK' /\ CombineOK'
        /\ OutsideOK'
    BY <1>15, <1>a
       DEF DeleteBlobBlock, TableOK, StoresOK, MemoryOK, LocalsOK, CombineOK,
           OutsideOK
  <2>5. CombineControl'
    BY <1>15, <1>a
       DEF DeleteBlobBlock, CombineControl, ControlOK, AcquiringOrWriting
  <2> QED BY <2>1, <2>2, <2>3, <2>4, <2>5 DEF TypeInv, TypeOK
<1>16. CASE FindUnreferencedStorageBlocks
  <2>1. ResultsOK'
    BY <1>16, <1>a
       DEF FindUnreferencedStorageBlocks, ResultsOK, Unreferenced, TableOK,
           StorageIds
  <2>2. ControlOK'
    BY <1>16, <1>a DEF FindUnreferencedStorageBlocks, ControlOK, Labels
  <2>3. /\ CatalogOK' /\ TableOK' /\ StoresOK' /\ MemoryOK' /\ LocalsOK'
        /\ CombineOK' /\ OutsideOK'
    BY <1>16, <1>a
       DEF FindUnreferencedStorageBlocks, CatalogOK, TableOK, StoresOK, MemoryOK,
           LocalsOK, CombineOK, OutsideOK
  <2>4. CombineControl'
    BY <1>16, <1>a
       DEF FindUnreferencedStorageBlocks, CombineControl, ControlOK,
           AcquiringOrWriting
  <2> QED BY <2>1, <2>2, <2>3, <2>4 DEF TypeInv, TypeOK
<1>17. CASE FreeStorageBlock
  <2>1. LocalsOK'
    BY <1>17, <1>a DEF FreeStorageBlock, LocalsOK, ResultsOK
  <2>2. ResultsOK'
    BY <1>17, <1>a DEF FreeStorageBlock, ResultsOK, StoresOK
  <2>3. ControlOK'
    BY <1>17, <1>a DEF FreeStorageBlock, ControlOK, Labels
  <2>4. /\ CatalogOK' /\ TableOK' /\ StoresOK' /\ MemoryOK' /\ CombineOK'
        /\ OutsideOK'
    BY <1>17, <1>a
       DEF FreeStorageBlock, CatalogOK, TableOK, StoresOK, MemoryOK, CombineOK,
           OutsideOK
  <2>5. CombineControl'
    BY <1>17, <1>a
       DEF FreeStorageBlock, CombineControl, ControlOK, AcquiringOrWriting
  <2> QED BY <2>1, <2>2, <2>3, <2>4, <2>5 DEF TypeInv, TypeOK
<1>18. CASE DeleteFile
  <2>1. StoresOK'
    <3>1. ASSUME NEW k \in targets, files' = [files EXCEPT ![blk[Worker]][k] = Blank]
          PROVE  files' \in [StorageIds -> [Backends -> Content]]
      BY <3>1, <1>a, BlankIsContent DEF StoresOK, ResultsOK, LocalsOK
    <3>2. files' \in [StorageIds -> [Backends -> Content]] /\ locs' = locs
      BY <3>1, <1>18, <1>a DEF DeleteFile, StoresOK
    <3> QED
      BY <3>2, <1>a DEF StoresOK
  <2>2. ControlOK'
    BY <1>18, <1>a DEF DeleteFile, ControlOK, Labels
  <2>3. /\ CatalogOK' /\ TableOK' /\ MemoryOK' /\ LocalsOK' /\ CombineOK'
        /\ ResultsOK' /\ OutsideOK'
    BY <1>18, <1>a
       DEF DeleteFile, CatalogOK, TableOK, MemoryOK, LocalsOK, CombineOK, ResultsOK,
           OutsideOK
  <2>4. CombineControl'
    BY <1>18, <1>a DEF DeleteFile, CombineControl, ControlOK, AcquiringOrWriting
  <2> QED BY <2>1, <2>2, <2>3, <2>4 DEF TypeInv, TypeOK
<1>19. CASE RemoveBlockLocation
  <2>1. StoresOK'
    BY <1>19, <1>a DEF RemoveBlockLocation, StoresOK
  <2>2. ResultsOK'
    BY <1>19, <1>a DEF RemoveBlockLocation, ResultsOK
  <2>3. ControlOK'
    BY <1>19, <1>a DEF RemoveBlockLocation, ControlOK, Labels
  <2>4. /\ CatalogOK' /\ TableOK' /\ MemoryOK' /\ LocalsOK' /\ CombineOK'
        /\ OutsideOK'
    BY <1>19, <1>a
       DEF RemoveBlockLocation, CatalogOK, TableOK, MemoryOK, LocalsOK, CombineOK,
           OutsideOK
  <2>5. CombineControl'
    BY <1>19, <1>a
       DEF RemoveBlockLocation, CombineControl, ControlOK, AcquiringOrWriting
  <2> QED BY <2>1, <2>2, <2>3, <2>4, <2>5 DEF TypeInv, TypeOK
<1>20. CASE DeleteResidual
  <2>1. TableOK'
    BY <1>20, <1>a DEF DeleteResidual, TableOK
  <2>2. ControlOK'
    BY <1>20, <1>a DEF DeleteResidual, ControlOK, Labels
  <2>3. /\ CatalogOK' /\ StoresOK' /\ MemoryOK' /\ LocalsOK' /\ CombineOK'
        /\ ResultsOK' /\ OutsideOK'
    BY <1>20, <1>a
       DEF DeleteResidual, CatalogOK, StoresOK, MemoryOK, LocalsOK, CombineOK,
           ResultsOK, OutsideOK
  <2>4. CombineControl'
    BY <1>20, <1>a DEF DeleteResidual, CombineControl, ControlOK, AcquiringOrWriting
  <2> QED BY <2>1, <2>2, <2>3, <2>4 DEF TypeInv, TypeOK
<1>21. CASE InsertFreed
  <2>1. TableOK'
    BY <1>21, <1>a DEF InsertFreed, TableOK, LocalsOK
  <2>2. ControlOK'
    BY <1>21, <1>a DEF InsertFreed, ControlOK, Labels
  <2>3. /\ CatalogOK' /\ StoresOK' /\ MemoryOK' /\ LocalsOK' /\ CombineOK'
        /\ ResultsOK' /\ OutsideOK'
    BY <1>21, <1>a
       DEF InsertFreed, CatalogOK, StoresOK, MemoryOK, LocalsOK, CombineOK,
           ResultsOK, OutsideOK
  <2>4. CombineControl'
    BY <1>21, <1>a DEF InsertFreed, CombineControl, ControlOK, AcquiringOrWriting
  <2> QED BY <2>1, <2>2, <2>3, <2>4 DEF TypeInv, TypeOK
<1>22. CASE ResetInfo
  <2>1. TableOK'
    BY <1>22, <1>a, BlankIsContent DEF ResetInfo, TableOK
  <2>2. ControlOK'
    BY <1>22, <1>a DEF ResetInfo, ControlOK, Labels
  <2>3. /\ CatalogOK' /\ StoresOK' /\ MemoryOK' /\ LocalsOK' /\ CombineOK'
        /\ ResultsOK' /\ OutsideOK'
    BY <1>22, <1>a
       DEF ResetInfo, CatalogOK, StoresOK, MemoryOK, LocalsOK, CombineOK, ResultsOK,
           OutsideOK
  <2>4. CombineControl'
    BY <1>22, <1>a DEF ResetInfo, CombineControl, ControlOK, AcquiringOrWriting
  <2> QED BY <2>1, <2>2, <2>3, <2>4 DEF TypeInv, TypeOK
<1> QED
  BY <1>1, <1>2, <1>3, <1>4, <1>5, <1>6, <1>7, <1>8, <1>9, <1>10, <1>11, <1>12,
     <1>13, <1>14, <1>15, <1>16, <1>17, <1>18, <1>19, <1>20, <1>21, <1>22 DEF Work

\* Requests, the environment, a crash, and stuttering.
LEMMA TypeEnv ==
    ASSUME TypeInv,
           \/ \E p \in Revisers : StartRevision(p)
           \/ FinishUpload \/ ExpireFiles \/ Crash \/ UNCHANGED vars
    PROVE  TypeInv'
<1> USE WorkerIsNoReviser, BoundsAssumption DEF tables, catalog, table, stores, memory,
      locals, combine, results, outside, others, Goto
<1>a. /\ CombineControl /\ Worker \in Procs
      /\ CatalogOK /\ TableOK /\ StoresOK /\ MemoryOK /\ ControlOK /\ LocalsOK
      /\ CombineOK /\ ResultsOK /\ OutsideOK
  BY DEF TypeInv, TypeOK, Procs
<1>1. ASSUME NEW p \in Revisers, StartRevision(p)
      PROVE  TypeInv'
  <2>1. LocalsOK'
    BY <1>1, <1>a, PlainIsContent, UploadsAssumption, ZenonT(60) DEF StartRevision, LocalsOK
  <2>2. ControlOK'
    BY <1>1, <1>a DEF StartRevision, ControlOK, Labels
  <2>3. /\ CatalogOK' /\ TableOK' /\ StoresOK' /\ MemoryOK' /\ CombineOK'
        /\ ResultsOK' /\ OutsideOK'
    BY <1>1, <1>a
       DEF StartRevision, CatalogOK, TableOK, StoresOK, MemoryOK, CombineOK,
           ResultsOK, OutsideOK
  <2>4. CombineControl'
    BY <1>1, <1>a DEF StartRevision, CombineControl, ControlOK, AcquiringOrWriting
  <2> QED BY <2>1, <2>2, <2>3, <2>4 DEF TypeInv, TypeOK
<1>2. CASE FinishUpload
  <2>1. OutsideOK'
    BY <1>2, <1>a DEF FinishUpload, OutsideOK
  <2>2. ControlOK'
    BY <1>2, <1>a, JobsAreJobs, UploadsAssumption DEF FinishUpload, Send, ControlOK
  <2>3. /\ CatalogOK' /\ TableOK' /\ StoresOK' /\ MemoryOK' /\ LocalsOK'
        /\ CombineOK' /\ ResultsOK'
    BY <1>2, <1>a
       DEF FinishUpload, CatalogOK, TableOK, StoresOK, MemoryOK, LocalsOK,
           CombineOK, ResultsOK
  <2>4. CombineControl'
    BY <1>2, <1>a DEF FinishUpload, CombineControl
  <2> QED BY <2>1, <2>2, <2>3, <2>4 DEF TypeInv, TypeOK
<1>3. CASE ExpireFiles
  <2>1. CatalogOK'
    BY <1>3, <1>a, UploadsAssumption DEF ExpireFiles, CatalogOK
  <2>2. /\ TableOK' /\ StoresOK' /\ MemoryOK' /\ ControlOK' /\ LocalsOK'
        /\ CombineOK' /\ ResultsOK' /\ OutsideOK' /\ CombineControl'
    BY <1>3, <1>a
       DEF ExpireFiles, TableOK, StoresOK, MemoryOK, ControlOK, LocalsOK,
           CombineOK, ResultsOK, OutsideOK, CombineControl
  <2> QED BY <2>1, <2>2 DEF TypeInv, TypeOK
<1>4. CASE Crash
  <2>1. MemoryOK'
    BY <1>4, <1>a, BlankIsContent DEF Crash, MemoryOK
  <2>2. queue' \in Seq(Jobs)
    <3>1. CASE job = NoJob
      BY <3>1, <1>4, <1>a DEF Crash, ControlOK
    <3>2. CASE job # NoJob
      <4>1. job \in Jobs
        BY <3>2, <1>a DEF ControlOK
      <4> QED
        BY <4>1, <3>2, <1>4, <1>a DEF Crash, ControlOK
    <3> QED BY <3>1, <3>2
  <2>3. ControlOK'
    BY <2>2, <1>4, <1>a DEF Crash, ControlOK, Labels
  <2>4. OutsideOK'
    BY <1>4, <1>a DEF Crash, OutsideOK
  <2>5. /\ CatalogOK' /\ TableOK' /\ StoresOK' /\ LocalsOK' /\ CombineOK' /\ ResultsOK'
    BY <1>4, <1>a
       DEF Crash, CatalogOK, TableOK, StoresOK, LocalsOK, CombineOK, ResultsOK
  <2>6. CombineControl'
    BY <1>4, <1>a DEF Crash, CombineControl, AcquiringOrWriting
  <2> QED BY <2>1, <2>3, <2>4, <2>5, <2>6 DEF TypeInv, TypeOK
<1>5. CASE UNCHANGED vars
  BY <1>5, <1>a
     DEF vars, TypeInv, TypeOK, CatalogOK, TableOK, StoresOK, MemoryOK, ControlOK,
         LocalsOK, CombineOK, ResultsOK, OutsideOK, CombineControl
<1> QED
  BY <1>1, <1>2, <1>3, <1>4, <1>5

\* Every step is one of those three kinds.
LEMMA StepKinds ==
    ASSUME [Next]_vars
    PROVE  \/ \E p \in Procs : Store(p)
           \/ Work /\ ~Store(Worker)
           \/ \E p \in Revisers : StartRevision(p)
           \/ FinishUpload \/ ExpireFiles \/ Crash \/ UNCHANGED vars
<1>1. CASE Work
  BY <1>1 DEF Procs
<1>2. CASE \E p \in Revisers : StartRevision(p) \/ Store(p)
  BY <1>2 DEF Procs
<1> QED
  BY <1>1, <1>2 DEF Next

LEMMA TypeInvariant == Spec => []TypeInv
<1>1. TypeInv /\ [Next]_vars => TypeInv'
  BY StepKinds, TypeStore, TypeWork, TypeEnv
<1> QED
  BY TypeInit, <1>1, PTL DEF Spec

\* The tables, the files and the memory keep the types the code gives them, whatever
\* requests, jobs and crashes interleave.
THEOREM TypeCorrect == Spec => []TypeOK
<1>1. TypeInv => TypeOK
  BY DEF TypeInv
<1> QED
  BY TypeInvariant, <1>1, PTL

(***************************************************************************)
(* The free list is handed out safely.  FreeListDiscipline is inductive on  *)
(* its own: the lock makes its holder the only process at those labels, and *)
(* nobody else ever shortens the list.                                      *)
(***************************************************************************)
Acquiring == {"select", "unfree", "create"}

\* A step that leaves the lock and the acquiring processes alone, and does not
\* shorten the free list, cannot disturb the discipline.
LEMMA FreeListFrame ==
    ASSUME FreeListDiscipline, lock' = lock, freed \subseteq freed',
           \A p \in Procs : pc'[p] \in Acquiring => pc'[p] = pc[p] /\ blk'[p] = blk[p]
    PROVE  FreeListDiscipline'
  BY DEF FreeListDiscipline, Acquiring

LEMMA FreeListStore ==
    ASSUME TypeInv, FreeListDiscipline, NEW p \in Procs, Store(p)
    PROVE  FreeListDiscipline'
<1> USE NobodyIsNoProcess DEF tables, catalog, table, stores, memory, locals, combine,
      results, outside, others, Goto, Fail, Return
<1>a. pc \in [Procs -> Labels] /\ blk \in [Procs -> StorageIds]
  BY DEF TypeInv, TypeOK, ControlOK, LocalsOK
<1>1. CASE LockFreeList(p)
  <2>1. \A q \in Procs : pc[q] \notin Acquiring
    BY <1>1 DEF LockFreeList, FreeListDiscipline, Acquiring
  <2>2. \A q \in Procs : pc'[q] \in Acquiring => q = p /\ pc'[q] = "select"
    BY <2>1, <1>1, <1>a DEF LockFreeList, Acquiring
  <2> QED
    BY <2>2, <1>1 DEF LockFreeList, FreeListDiscipline, Acquiring
<1>2. CASE SelectFreed(p)
  <2>1. lock = p /\ UNCHANGED <<lock, freed>>
    BY <1>2 DEF SelectFreed, FreeListDiscipline
  <2>2. \A q \in Procs : q # p => pc'[q] = pc[q] /\ blk'[q] = blk[q]
    BY <1>2, <1>a DEF SelectFreed
  <2>3. pc'[p] = "unfree" => blk'[p] \in freed
    BY <1>2, <1>a DEF SelectFreed
  <2> QED
    BY <2>1, <2>2, <2>3 DEF FreeListDiscipline
<1>3. CASE DeleteFreed(p)
  <2>1. lock = p
    BY <1>3 DEF DeleteFreed, FreeListDiscipline
  <2>2. \A q \in Procs : pc'[q] \notin Acquiring
    BY <2>1, <1>3, <1>a DEF DeleteFreed, FreeListDiscipline, Acquiring
  <2> QED
    BY <2>2 DEF FreeListDiscipline, Acquiring
<1>4. CASE CreateBlock(p)
  <2>1. lock = p
    BY <1>4 DEF CreateBlock, FreeListDiscipline
  <2>2. \A q \in Procs : pc'[q] \notin Acquiring
    BY <2>1, <1>4, <1>a DEF CreateBlock, FreeListDiscipline, Acquiring
  <2> QED
    BY <2>2 DEF FreeListDiscipline, Acquiring
<1>5. CASE \/ FindBlobBlock(p) \/ AddBlobBlock(p) \/ StoreFile(p)
           \/ UpdateStorageBlockInfo(p) \/ PutOnResidualList(p)
           \/ AddBlobBlockStorage(p) \/ LinkBlob(p)
  <2>1. lock' = lock /\ freed' = freed /\ blk' = blk
    BY <1>5
       DEF FindBlobBlock, AddBlobBlock, StoreFile, UpdateStorageBlockInfo,
           PutOnResidualList, AddBlobBlockStorage, LinkBlob
  <2>2. \E l : pc' = [pc EXCEPT ![p] = l] /\ l \notin Acquiring
    BY <1>5
       DEF FindBlobBlock, AddBlobBlock, StoreFile, UpdateStorageBlockInfo,
           PutOnResidualList, AddBlobBlockStorage, LinkBlob, Acquiring
  <2> QED
    BY <2>1, <2>2, <1>a, FreeListFrame
<1>6. CASE AddBlockLocation(p) \/ QueryResidualBlockCount(p)
  <2>1. lock' = lock /\ freed' = freed /\ blk' = blk
    BY <1>6 DEF AddBlockLocation, QueryResidualBlockCount
  <2>2. \E l : pc' = [pc EXCEPT ![p] = l] /\ l \notin Acquiring
    BY <1>6 DEF AddBlockLocation, QueryResidualBlockCount, EndWrite, Acquiring
  <2> QED
    BY <2>1, <2>2, <1>a, FreeListFrame
<1> QED
  BY <1>1, <1>2, <1>3, <1>4, <1>5, <1>6 DEF Store

LEMMA FreeListWork ==
    ASSUME TypeInv, FreeListDiscipline, Work, ~Store(Worker)
    PROVE  FreeListDiscipline'
<1> USE DEF tables, catalog, table, stores, memory, locals, combine,
      results, outside, others, Goto, Fail, Return
<1>a. pc \in [Procs -> Labels] /\ blk \in [Procs -> StorageIds] /\ Worker \in Procs
  BY DEF TypeInv, TypeOK, ControlOK, LocalsOK, Procs
<1>1. lock' = lock /\ freed \subseteq freed'
  BY DEF Work, Deliver, QueryBlockLocations, CheckFreeList, FetchBlock, CopyFile,
         AddReplicaLocation, QueryResidualBlocks, ReadSource,
         QueryBlobBlocksInStorageBlock, MoveReference,
         RemoveReferencesToStorageBlockId, CollectBlobs, FindUnreferencedBlobBlocks,
         DeleteBlobBlockStorage, DeleteBlobBlock, FindUnreferencedStorageBlocks,
         FreeStorageBlock, DeleteFile, RemoveBlockLocation, DeleteResidual,
         InsertFreed, ResetInfo
<1>2. (\E l : pc' = [pc EXCEPT ![Worker] = l] /\ l \notin Acquiring) \/ pc' = pc
  <2>1. CASE Deliver \/ QueryBlockLocations \/ CheckFreeList \/ FetchBlock \/ CopyFile
             \/ AddReplicaLocation \/ QueryResidualBlocks
    BY <2>1, ZenonT(60)
       DEF Acquiring, Deliver, QueryBlockLocations, CheckFreeList, FetchBlock, CopyFile,
           AddReplicaLocation, QueryResidualBlocks
  <2>2. CASE ReadSource
    <3>1. \E l \in {"failed", "lock", "read"} : pc' = [pc EXCEPT ![Worker] = l]
      BY <2>2 DEF ReadSource
    <3> QED
      BY <3>1 DEF Acquiring
  <2>3. CASE QueryBlobBlocksInStorageBlock \/ MoveReference
             \/ RemoveReferencesToStorageBlockId
    BY <2>3
       DEF Acquiring, QueryBlobBlocksInStorageBlock, MoveReference,
           RemoveReferencesToStorageBlockId
  <2>4. CASE CollectBlobs \/ FindUnreferencedBlobBlocks \/ DeleteBlobBlockStorage
             \/ DeleteBlobBlock \/ FindUnreferencedStorageBlocks
    BY <2>4
       DEF Acquiring, CollectBlobs, FindUnreferencedBlobBlocks, DeleteBlobBlockStorage,
           DeleteBlobBlock, FindUnreferencedStorageBlocks
  <2>5. CASE FreeStorageBlock \/ DeleteFile \/ RemoveBlockLocation \/ DeleteResidual
             \/ InsertFreed \/ ResetInfo
    BY <2>5
       DEF Acquiring, FreeStorageBlock, DeleteFile, RemoveBlockLocation,
           DeleteResidual, InsertFreed, ResetInfo
  <2> QED
    BY <2>1, <2>2, <2>3, <2>4, <2>5 DEF Work
<1>3. (\E s : blk' = [blk EXCEPT ![Worker] = s] /\ pc'[Worker] \notin Acquiring) \/ blk' = blk
  BY <1>a
     DEF Acquiring, Work, Deliver, QueryBlockLocations, CheckFreeList, FetchBlock,
         CopyFile, AddReplicaLocation, QueryResidualBlocks, ReadSource,
         QueryBlobBlocksInStorageBlock, MoveReference,
         RemoveReferencesToStorageBlockId, CollectBlobs, FindUnreferencedBlobBlocks,
         DeleteBlobBlockStorage, DeleteBlobBlock, FindUnreferencedStorageBlocks,
         FreeStorageBlock, DeleteFile, RemoveBlockLocation, DeleteResidual,
         InsertFreed, ResetInfo
<1> QED
  BY <1>1, <1>2, <1>3, <1>a, FreeListFrame

LEMMA FreeListEnv ==
    ASSUME TypeInv, FreeListDiscipline,
           \/ \E p \in Revisers : StartRevision(p)
           \/ FinishUpload \/ ExpireFiles \/ Crash \/ UNCHANGED vars
    PROVE  FreeListDiscipline'
<1> USE DEF tables, catalog, table, stores, memory, locals, combine, results, outside,
      others, Goto
<1>a. pc \in [Procs -> Labels]
  BY DEF TypeInv, TypeOK, ControlOK
<1>1. ASSUME NEW p \in Revisers, StartRevision(p)
      PROVE  FreeListDiscipline'
  BY <1>1, <1>a, FreeListFrame DEF StartRevision, Acquiring
<1>2. CASE FinishUpload \/ ExpireFiles \/ UNCHANGED vars
  BY <1>2, FreeListFrame DEF FinishUpload, ExpireFiles, vars
<1>3. CASE Crash
  BY <1>3 DEF Crash, FreeListDiscipline
<1> QED
  BY <1>1, <1>2, <1>3

\* AcquireStorageBlock: the row SELECTed from the free list is still on it when it is
\* DELETEd, and only the lock's holder is between the two, for any number of requests
\* and crashes.
THEOREM FreeListSafe == Spec => []FreeListDiscipline
<1>1. Init => FreeListDiscipline
  BY DEF Init, FreeListDiscipline
<1>2. TypeInv /\ FreeListDiscipline /\ [Next]_vars => FreeListDiscipline'
  BY StepKinds, FreeListStore, FreeListWork, FreeListEnv
<1> QED
  BY TypeInvariant, <1>1, <1>2, PTL DEF Spec

(***************************************************************************)
(* What holds as long as no combination and no collection overlaps a        *)
(* request that stores (Apart): for any number of requests, and for crashes *)
(* and redeliveries of a job at every point.  If nothing but the job worker *)
(* stores, that is the case by itself; then, too, and without a crash, no   *)
(* job throws and a drained queue leaves every block replicated, referenced *)
(* once and collected.                                                      *)
(***************************************************************************)
\* What the worker is at tells its job.
Collecting == {"collect", "findBlobBlocks", "nextBlobBlock", "deleteBlobBlock",
               "nextStorageBlock", "deleteFile", "deleteLocation", "unresidual",
               "insertFreed", "reset"}
Replicating == {"locations", "checkFree", "fetch", "copy", "copied"}
JobLabels ==
    /\ pc[Worker] \in Collecting => job.type = "collect-garbage"
    /\ pc[Worker] \in Replicating => job.type = "replicate"
    /\ pc[Worker] \in {"refs", "move"} => job.type = "combine-residual-blocks"

\* A request only stores.
StoreLabels == AcquiringOrWriting \cup {"find", "add", "reference", "link"}
RequestLabels == \A p \in Revisers : pc[p] \in StoreLabels \cup {"idle", "done", "failed"}

\* The rows that can be acquired: on the free list, or not inserted yet.
Spare == freed \cup {s \in StorageIds : s > count}
FreedRows == \A s \in freed : s <= count

\* Nothing reads them or refers to them, and nobody is using one.
SpareRows == \A s \in Spare : RefsTo(s) = {} /\ locs[s] = {} /\ s \notin residual
UsesBlock == {"store", "info", "location", "residual", "count", "reference",
              "refs", "move", "fetch", "copy", "copied"}
HeldRows == \A p \in Procs : pc[p] \in UsesBlock => blk[p] \notin Spare

\* What FreeUnreferencedStorageBlock has established at each of its steps.
Freeing == {"deleteFile", "deleteLocation", "unresidual", "insertFreed"}
GarbageIsUnreferenced ==
    /\ pc[Worker] \in Freeing \cup {"nextStorageBlock", "reset"} =>
           \A s \in garbage : RefsTo(s) = {} /\ s <= count
    /\ pc[Worker] \in Freeing => RefsTo(blk[Worker]) = {} /\ blk[Worker] <= count
FreeingProgress ==
    /\ pc[Worker] \in {"deleteFile", "deleteLocation"} => locs[blk[Worker]] \subseteq targets
    /\ pc[Worker] \in {"unresidual", "insertFreed"} => locs[blk[Worker]] = {}
    /\ pc[Worker] = "insertFreed" => blk[Worker] \notin residual

HoldInv ==
    /\ JobLabels /\ RequestLabels /\ FreedRows /\ SpareRows /\ HeldRows
    /\ ExclusiveWriters /\ GarbageIsUnreferenced /\ FreeingProgress

LEMMA LocalTypes ==
    ASSUME TypeInv
    PROVE  /\ pc \in [Procs -> Labels] /\ blk \in [Procs -> StorageIds] /\ Worker \in Procs
           /\ buf \in [Procs -> Content] /\ bb \in [Procs -> BlobBlocks]
           /\ freed \subseteq StorageIds /\ residual \subseteq StorageIds /\ count \in Nat
           /\ info \in [StorageIds -> Content] /\ locs \in [StorageIds -> SUBSET Backends]
           /\ files \in [StorageIds -> [Backends -> Content]]
           /\ cache \in [StorageIds -> Content] /\ refs \subseteq Refs
           /\ rows \in Seq(StorageIds) /\ sources \subseteq DOMAIN rows /\ pos \in Nat
           /\ delta \in [StorageIds -> Nat] /\ targets \subseteq Backends
           /\ moving \subseteq Refs /\ garbage \subseteq StorageIds
  BY DEF TypeInv, TypeOK, ControlOK, LocalsOK, TableOK, StoresOK, MemoryOK, CatalogOK,
         CombineOK, ResultsOK, Procs

\* Storing moves its own process only, and ends where it is called from.
LEMMA StoreControl ==
    ASSUME TypeInv, NEW p \in Procs, Store(p)
    PROVE  /\ pc[p] \in StoreLabels
           /\ pc'[p] \in StoreLabels \cup {"refs", "idle", "done", "failed"}
           /\ p # Worker => pc'[p] # "idle"
           /\ pc'[p] = "refs" => p = Worker /\ job.type = "combine-residual-blocks"
           /\ \A q \in Procs : q # p => pc'[q] = pc[q] /\ blk'[q] = blk[q]
           /\ UNCHANGED <<buf, bb>>
           /\ job' = job \/ (p = Worker /\ pc'[p] = "idle")
<1> USE DEF tables, catalog, table, stores, memory, locals, combine, results, outside,
      others, Goto, Fail, Return, StoreLabels, AcquiringOrWriting
<1> USE LocalTypes
<1>1. CASE FindBlobBlock(p) \/ AddBlobBlock(p) \/ LockFreeList(p) \/ SelectFreed(p)
           \/ DeleteFreed(p) \/ CreateBlock(p)
  BY <1>1 DEF FindBlobBlock, AddBlobBlock, LockFreeList, SelectFreed, DeleteFreed, CreateBlock
<1>2. CASE StoreFile(p) \/ UpdateStorageBlockInfo(p) \/ PutOnResidualList(p)
           \/ AddBlobBlockStorage(p)
  BY <1>2 DEF StoreFile, UpdateStorageBlockInfo, PutOnResidualList, AddBlobBlockStorage
<1>3. CASE AddBlockLocation(p)
  BY <1>3 DEF AddBlockLocation, EndWrite
<1>4. CASE QueryResidualBlockCount(p)
  BY <1>4 DEF QueryResidualBlockCount, EndWrite
<1>5. CASE LinkBlob(p)
  BY <1>5 DEF LinkBlob
<1> QED
  BY <1>1, <1>2, <1>3, <1>4, <1>5 DEF Store

\* While a request stores, the worker is neither collecting nor combining.
LEMMA RequestsApart ==
    ASSUME TypeInv, JobLabels, Apart, NEW p \in Revisers, Storing(p)
    PROVE  /\ pc[Worker] \notin Collecting \cup {"combine", "read", "refs", "move"}
           /\ pc[Worker] \in AcquiringOrWriting => job.type = "upload-file"
<1>1. pc[Worker] = "failed" \/ job.type \notin {"combine-residual-blocks", "collect-garbage"}
  BY DEF Apart, Housekeeping
<1> QED
  BY <1>1 DEF TypeInv, CombineControl, JobLabels, Collecting, AcquiringOrWriting

\* So no step of storing is one of freeing, nor leads to one.
LEMMA StoreIsApart ==
    ASSUME TypeInv, JobLabels, Apart, NEW p \in Procs, Store(p)
    PROVE  /\ pc[Worker] \notin Collecting /\ pc'[Worker] \notin Collecting
           /\ p # Worker => pc[Worker] \notin {"combine", "read", "refs", "move"}
           /\ p # Worker => UNCHANGED <<pos, job>> /\ pc'[Worker] = pc[Worker]
<1>1. Storing(p)
  BY StoreControl DEF StoreLabels, AcquiringOrWriting, Storing, Writing
<1>2. CASE p = Worker
  BY <1>2, StoreControl DEF StoreLabels, AcquiringOrWriting, Collecting
<1>3. CASE p # Worker
  <2>1. p \in Revisers /\ Worker \in Procs
    BY <1>3 DEF Procs
  <2>2. pos' = pos
    <3>1. CASE AddBlockLocation(p) \/ QueryResidualBlockCount(p)
      BY <1>3, <3>1 DEF AddBlockLocation, QueryResidualBlockCount, EndWrite
    <3>2. CASE ~(AddBlockLocation(p) \/ QueryResidualBlockCount(p))
      BY <3>2 DEF Store, FindBlobBlock, AddBlobBlock, LockFreeList, SelectFreed, DeleteFreed,
                  CreateBlock, StoreFile, UpdateStorageBlockInfo, PutOnResidualList,
                  AddBlobBlockStorage, LinkBlob, others, combine
    <3> QED
      BY <3>1, <3>2
  <2> QED
    BY <1>1, <1>3, <2>1, <2>2, RequestsApart, StoreControl
<1> QED
  BY <1>2, <1>3

LEMMA NotFreeing ==
    ASSUME pc'[Worker] \notin Collecting
    PROVE  GarbageIsUnreferenced' /\ FreeingProgress'
  BY DEF GarbageIsUnreferenced, FreeingProgress, Freeing, Collecting

\* DELETE from the free list and INSERT of a row take the acquired row out of the spare ones.
LEMMA Acquired ==
    ASSUME TypeInv, FreeListDiscipline, FreedRows, NEW p \in Procs,
           DeleteFreed(p) \/ CreateBlock(p)
    PROVE  /\ blk'[p] \in Spare /\ Spare' = Spare \ {blk'[p]} /\ FreedRows'
           /\ count' \in Nat /\ count <= count'
           /\ pc[p] \in {"unfree", "create"} /\ pc'[p] = "store"
           /\ UNCHANGED <<refs, locs, residual, info, files, cache, buf, bb, job, moving>>
           /\ UNCHANGED <<rows, sources, pos, delta, targets, garbage, doomed, blobBlocks, link>>
<1> USE DEF tables, catalog, table, stores, memory, locals, combine, results, outside,
      others, Goto
<1> USE LocalTypes
<1>1. CASE DeleteFreed(p)
  <2>1. /\ blk' = blk /\ freed' = freed \ {blk[p]} /\ count' = count
        /\ pc[p] = "unfree" /\ blk[p] \in freed /\ pc'[p] = "store"
    BY <1>1 DEF DeleteFreed, FreeListDiscipline
  <2>2. ~(blk[p] > count)
    BY <2>1 DEF FreedRows, StorageIds
  <2>3. Spare' = Spare \ {blk[p]} /\ FreedRows'
    BY <2>1, <2>2 DEF Spare, FreedRows
  <2> QED
    BY <1>1, <2>1, <2>3 DEF DeleteFreed, Spare
<1>2. CASE CreateBlock(p)
  <2>1. /\ blk'[p] = count + 1 /\ freed' = freed /\ count' = count + 1
        /\ count < MaxStorageBlocks /\ pc[p] = "create" /\ pc'[p] = "store"
    BY <1>2 DEF CreateBlock
  <2>2. count + 1 \in StorageIds /\ count + 1 > count
    BY <2>1, BoundsAssumption DEF StorageIds
  <2>3. count + 1 \notin freed
    BY <2>2 DEF FreedRows, StorageIds
  <2>4. Spare' = Spare \ {count + 1}
    BY <2>1, <2>3 DEF Spare, StorageIds
  <2>5. FreedRows'
    BY <2>1 DEF FreedRows, StorageIds
  <2> QED
    BY <1>2, <2>1, <2>2, <2>4, <2>5 DEF CreateBlock, Spare
<1> QED
  BY <1>1, <1>2

LEMMA HoldStore ==
    ASSUME TypeInv, FreeListDiscipline, HoldInv, Apart, NEW p \in Procs, Store(p)
    PROVE  HoldInv'
<1> USE DEF tables, catalog, table, stores, memory, locals, combine, results, outside,
      others, Goto, Fail, Return
<1> USE LocalTypes
<1>a. FreedRows /\ SpareRows /\ HeldRows /\ ExclusiveWriters /\ JobLabels
  BY DEF HoldInv
<1>b. \A q \in Procs : q # p => pc'[q] = pc[q] /\ blk'[q] = blk[q]
  BY StoreControl
<1>c. GarbageIsUnreferenced' /\ FreeingProgress'
  BY <1>a, StoreIsApart, NotFreeing
<1>d. JobLabels'
  <2>1. CASE p = Worker
    BY <2>1, StoreControl
       DEF JobLabels, Collecting, Replicating, StoreLabels, AcquiringOrWriting
  <2>2. CASE p # Worker
    BY <1>a, <2>2, StoreIsApart DEF JobLabels
  <2> QED
    BY <2>1, <2>2
<1>e. RequestLabels'
  <2>1. RequestLabels /\ \A q \in Revisers : q \in Procs
    BY DEF HoldInv, Procs
  <2>2. p \in Revisers => p # Worker
    BY WorkerIsNoReviser
  <2> QED
    BY <1>b, <2>1, <2>2, StoreControl DEF RequestLabels
<1>1. CASE FindBlobBlock(p) \/ AddBlobBlock(p) \/ LockFreeList(p) \/ SelectFreed(p)
           \/ LinkBlob(p)
  <2>1. /\ UNCHANGED <<freed, count, refs, locs, residual>>
        /\ pc'[p] \notin UsesBlock
    BY <1>1 DEF FindBlobBlock, AddBlobBlock, LockFreeList, SelectFreed, LinkBlob, UsesBlock
  <2>2. FreedRows' /\ SpareRows'
    BY <1>a, <2>1 DEF FreedRows, SpareRows, Spare, RefsTo
  <2>3. HeldRows' /\ ExclusiveWriters'
    BY <1>a, <1>b, <2>1 DEF HeldRows, Spare, ExclusiveWriters, Writing, UsesBlock
  <2> QED
    BY <1>c, <1>d, <1>e, <2>2, <2>3 DEF HoldInv
<1>2. CASE DeleteFreed(p) \/ CreateBlock(p)
  <2>1. /\ blk'[p] \in Spare /\ Spare' = Spare \ {blk'[p]} /\ FreedRows'
        /\ pc'[p] = "store" /\ UNCHANGED <<refs, locs, residual>>
    BY <1>2, <1>a, Acquired
  <2>2. SpareRows'
    BY <1>a, <2>1 DEF SpareRows, RefsTo
  <2>3. HeldRows'
    BY <1>a, <1>b, <2>1 DEF HeldRows
  <2>4. ExclusiveWriters'
    BY <1>a, <1>b, <2>1 DEF ExclusiveWriters, HeldRows, Writing, UsesBlock
  <2> QED
    BY <1>c, <1>d, <1>e, <2>1, <2>2, <2>3, <2>4 DEF HoldInv
<1>3. CASE StoreFile(p) \/ UpdateStorageBlockInfo(p) \/ AddBlockLocation(p)
           \/ PutOnResidualList(p) \/ QueryResidualBlockCount(p) \/ AddBlobBlockStorage(p)
  <2> USE DEF StoreFile, UpdateStorageBlockInfo, AddBlockLocation, PutOnResidualList,
              QueryResidualBlockCount, AddBlobBlockStorage
  <2>1. pc[p] \in UsesBlock /\ Writing(p)
    BY <1>3 DEF UsesBlock, Writing
  <2>2. freed' = freed /\ count' = count /\ blk' = blk
    BY <1>3
  <2>3. blk[p] \notin Spare
    BY <1>a, <2>1 DEF HeldRows
  <2>4. \A s \in StorageIds : s # blk[p] => locs'[s] = locs[s]
    BY <1>3
  <2>5. \A s \in residual' : s \in residual \/ s = blk[p]
    BY <1>3
  <2>6. \A r \in refs' : r \in refs \/ r.storageBlock = blk[p]
    BY <1>3
  <2>7. Spare' = Spare /\ Spare \subseteq StorageIds /\ FreedRows'
    BY <1>a, <2>2 DEF Spare, FreedRows
  <2>8. SpareRows'
    BY <1>a, <2>3, <2>4, <2>5, <2>6, <2>7 DEF SpareRows, RefsTo
  <2>9. HeldRows'
    BY <1>a, <1>b, <2>2, <2>3, <2>7 DEF HeldRows
  <2>10. ExclusiveWriters'
    <3>1. \A q \in Procs : Writing(q)' => Writing(q)
      BY <1>b, <2>1 DEF Writing
    <3> QED
      BY <1>a, <2>2, <3>1 DEF ExclusiveWriters
  <2> QED
    BY <1>c, <1>d, <1>e, <2>7, <2>8, <2>9, <2>10 DEF HoldInv
<1> QED
  BY <1>1, <1>2, <1>3 DEF Store

\* A step of any other job moves the worker only, and not into writing.
LEMMA WorkControl ==
    ASSUME TypeInv, JobLabels, Work, ~Store(Worker)
    PROVE  /\ \A q \in Revisers : /\ pc'[q] = pc[q] /\ blk'[q] = blk[q]
                                  /\ buf'[q] = buf[q] /\ bb'[q] = bb[q]
           /\ pc[Worker] \in {"idle"} \cup Replicating \cup Collecting
                  \cup {"combine", "read", "refs", "move"}
           /\ ~Writing(Worker)'
           /\ JobLabels'
<1> USE WorkerIsNoReviser
        DEF tables, catalog, table, stores, memory, locals, combine, results, outside,
            others, Goto, Fail, Return, Writing, JobLabels, Replicating, Collecting, Procs
<1> USE LocalTypes
<1>1. CASE Deliver
  BY <1>1 DEF Deliver
<1>2. CASE QueryBlockLocations \/ CheckFreeList \/ FetchBlock \/ CopyFile \/ AddReplicaLocation
  BY <1>2 DEF QueryBlockLocations, CheckFreeList, FetchBlock, CopyFile, AddReplicaLocation
<1>3. CASE \/ QueryResidualBlocks \/ ReadSource \/ QueryBlobBlocksInStorageBlock
           \/ MoveReference \/ RemoveReferencesToStorageBlockId
  <2>1. pc[Worker] \in {"combine", "read"} => job.type = "combine-residual-blocks"
    BY DEF TypeInv, CombineControl
  <2> QED
    BY <1>3, <2>1
       DEF QueryResidualBlocks, ReadSource, QueryBlobBlocksInStorageBlock,
           MoveReference, RemoveReferencesToStorageBlockId
<1>4. CASE CollectBlobs \/ FindUnreferencedBlobBlocks \/ DeleteBlobBlockStorage
           \/ DeleteBlobBlock \/ FindUnreferencedStorageBlocks
  BY <1>4 DEF CollectBlobs, FindUnreferencedBlobBlocks, DeleteBlobBlockStorage,
              DeleteBlobBlock, FindUnreferencedStorageBlocks
<1>5. CASE FreeStorageBlock \/ DeleteFile \/ RemoveBlockLocation \/ DeleteResidual
           \/ InsertFreed \/ ResetInfo
  BY <1>5 DEF FreeStorageBlock, DeleteFile, RemoveBlockLocation, DeleteResidual,
              InsertFreed, ResetInfo
<1> QED
  BY <1>1, <1>2, <1>3, <1>4, <1>5 DEF Work

\* What that leaves to show of the other jobs.
LEMMA HoldWork ==
    ASSUME TypeInv, HoldInv, Work, ~Store(Worker),
           FreedRows', SpareRows', GarbageIsUnreferenced', FreeingProgress',
           pc'[Worker] \in UsesBlock => blk'[Worker] \notin Spare',
           \A s \in Spare' : s \in Spare \/ (s = blk[Worker] /\ pc[Worker] \in Collecting),
           Apart
    PROVE  HoldInv'
<1>a. /\ \A q \in Revisers : pc'[q] = pc[q] /\ blk'[q] = blk[q]
      /\ ~Writing(Worker)' /\ JobLabels'
  BY WorkControl DEF HoldInv
<1>1. RequestLabels'
  BY <1>a DEF HoldInv, RequestLabels
<1>2. ExclusiveWriters'
  BY <1>a DEF HoldInv, ExclusiveWriters, Procs, Writing
<1>3. ASSUME NEW q \in Revisers, pc'[q] \in UsesBlock
      PROVE  blk'[q] \notin Spare'
  <2>1. pc[q] = pc'[q] /\ blk'[q] = blk[q] /\ blk[q] \notin Spare
    BY <1>a, <1>3 DEF HoldInv, HeldRows, Procs
  <2>2. Storing(q)
    BY <1>3, <2>1 DEF HoldInv, RequestLabels, StoreLabels, AcquiringOrWriting, UsesBlock,
                      Storing, Writing
  <2>3. pc[Worker] \notin Collecting
    BY <2>2, RequestsApart DEF HoldInv
  <2> QED
    BY <2>1, <2>3
<1>4. HeldRows'
  BY <1>3 DEF HeldRows, Procs
<1> QED
  BY <1>a, <1>1, <1>2, <1>4 DEF HoldInv

LEMMA HoldJobs ==
    ASSUME TypeInv, HoldInv, Apart, Work, ~Store(Worker),
           \/ Deliver \/ QueryBlockLocations \/ CheckFreeList \/ FetchBlock \/ CopyFile
           \/ AddReplicaLocation \/ QueryResidualBlocks \/ ReadSource
           \/ QueryBlobBlocksInStorageBlock \/ MoveReference
           \/ RemoveReferencesToStorageBlockId
    PROVE  HoldInv'
<1> USE DEF tables, catalog, table, stores, memory, locals, combine, results, outside,
      others, Goto, Fail, Return
<1> USE LocalTypes
<1>a. FreedRows /\ SpareRows /\ HeldRows
  BY DEF HoldInv
<1>1. CASE Deliver \/ CheckFreeList \/ QueryResidualBlocks \/ ReadSource
  <2>1. UNCHANGED <<freed, count, refs, locs, residual>>
    BY <1>1 DEF Deliver, CheckFreeList, QueryResidualBlocks, ReadSource
  <2>2. pc'[Worker] \in {"find", "locations", "combine", "collect", "idle", "failed",
                         "read", "lock"}
    BY <1>1 DEF Deliver, CheckFreeList, QueryResidualBlocks, ReadSource
  <2>3. Spare' = Spare /\ FreedRows' /\ SpareRows'
    BY <1>a, <2>1 DEF FreedRows, SpareRows, Spare, RefsTo
  <2>4. GarbageIsUnreferenced' /\ FreeingProgress'
    BY <2>2 DEF GarbageIsUnreferenced, FreeingProgress, Freeing
  <2> QED
    BY <2>2, <2>3, <2>4, HoldWork DEF UsesBlock
<1>2. CASE QueryBlockLocations \/ FetchBlock \/ CopyFile \/ QueryBlobBlocksInStorageBlock
  <2>1. UNCHANGED <<freed, count, refs, locs, residual, blk>>
    BY <1>2 DEF QueryBlockLocations, FetchBlock, CopyFile, QueryBlobBlocksInStorageBlock
  <2>2. /\ pc'[Worker] \in {"idle", "checkFree", "fetch", "failed", "copy", "copied", "move"}
        /\ pc[Worker] \in {"locations", "fetch", "copy", "refs"}
        /\ pc[Worker] = "locations" /\ pc'[Worker] = "fetch" => locs[blk[Worker]] # {}
        /\ pc[Worker] = "locations" => pc'[Worker] \in {"idle", "checkFree", "fetch"}
    BY <1>2 DEF QueryBlockLocations, FetchBlock, CopyFile, QueryBlobBlocksInStorageBlock
  <2>3. Spare' = Spare /\ FreedRows' /\ SpareRows'
    BY <1>a, <2>1 DEF FreedRows, SpareRows, Spare, RefsTo
  <2>4. GarbageIsUnreferenced' /\ FreeingProgress'
    BY <2>2 DEF GarbageIsUnreferenced, FreeingProgress, Freeing
  <2>5. pc'[Worker] \in UsesBlock => blk[Worker] \notin Spare
    BY <1>a, <2>2 DEF SpareRows, HeldRows, UsesBlock
  <2> QED
    BY <2>1, <2>3, <2>4, <2>5, HoldWork
<1>3. CASE AddReplicaLocation \/ MoveReference \/ RemoveReferencesToStorageBlockId
  <2> USE DEF AddReplicaLocation, MoveReference, RemoveReferencesToStorageBlockId
  <2>1. blk[Worker] \notin Spare
    BY <1>3, <1>a DEF HeldRows, UsesBlock
  <2>2. UNCHANGED <<freed, count, residual, blk>>
    BY <1>3
  <2>3. \A s \in StorageIds : s # blk[Worker] => locs'[s] = locs[s]
    BY <1>3
  <2>4. \A r \in refs' : r \in refs \/ r.storageBlock = blk[Worker]
    BY <1>3
  <2>5. Spare' = Spare /\ Spare \subseteq StorageIds /\ FreedRows'
    BY <1>a, <2>2 DEF Spare, FreedRows
  <2>6. SpareRows'
    BY <2>1, <2>2, <2>3, <2>4, <2>5, <1>a DEF SpareRows, RefsTo
  <2>7. pc'[Worker] \in {"failed", "copy", "idle", "move", "refs"}
    BY <1>3
  <2>8. GarbageIsUnreferenced' /\ FreeingProgress'
    BY <2>7 DEF GarbageIsUnreferenced, FreeingProgress, Freeing
  <2> QED
    BY <2>1, <2>2, <2>5, <2>6, <2>8, HoldWork
<1> QED
  BY <1>1, <1>2, <1>3

LEMMA HoldCollect ==
    ASSUME TypeInv, HoldInv, Apart, Work, ~Store(Worker),
           \/ CollectBlobs \/ FindUnreferencedBlobBlocks \/ DeleteBlobBlockStorage
           \/ DeleteBlobBlock \/ FindUnreferencedStorageBlocks \/ FreeStorageBlock
           \/ DeleteFile \/ RemoveBlockLocation \/ DeleteResidual \/ InsertFreed
           \/ ResetInfo
    PROVE  HoldInv'
<1> USE DEF tables, catalog, table, stores, memory, locals, combine, results, outside,
      others, Goto, Fail, Return
<1> USE LocalTypes
<1>a. FreedRows /\ SpareRows /\ GarbageIsUnreferenced /\ FreeingProgress
  BY DEF HoldInv
<1>b. ASSUME UNCHANGED <<freed, count>>, refs' \subseteq refs, residual' \subseteq residual,
             \A s \in StorageIds : locs'[s] \subseteq locs[s]
      PROVE  Spare' = Spare /\ FreedRows' /\ SpareRows'
  <2>1. Spare' = Spare /\ Spare \subseteq StorageIds
    BY <1>b DEF Spare
  <2> QED
    BY <1>a, <1>b, <2>1 DEF FreedRows, SpareRows, RefsTo
<1>1. CASE CollectBlobs \/ FindUnreferencedBlobBlocks \/ DeleteBlobBlockStorage
           \/ DeleteBlobBlock
  <2> USE DEF CollectBlobs, FindUnreferencedBlobBlocks, DeleteBlobBlockStorage,
              DeleteBlobBlock
  <2>1. UNCHANGED <<freed, count, locs, residual>> /\ refs' \subseteq refs
    BY <1>1
  <2>2. pc'[Worker] \in {"findBlobBlocks", "nextBlobBlock", "deleteBlobBlock", "failed"}
    BY <1>1
  <2>3. GarbageIsUnreferenced' /\ FreeingProgress'
    BY <2>2 DEF GarbageIsUnreferenced, FreeingProgress, Freeing
  <2> QED
    BY <1>b, <2>1, <2>2, <2>3, HoldWork DEF UsesBlock
<1>2. CASE FindUnreferencedStorageBlocks
  <2>1. UNCHANGED <<freed, count, refs, locs, residual>>
    BY <1>2 DEF FindUnreferencedStorageBlocks
  <2>2. pc'[Worker] = "nextStorageBlock" /\ garbage' = Unreferenced
    BY <1>2 DEF FindUnreferencedStorageBlocks
  <2>3. \A s \in garbage' : RefsTo(s)' = {} /\ s <= count'
    BY <2>1, <2>2 DEF Unreferenced, RefsTo
  <2>4. GarbageIsUnreferenced' /\ FreeingProgress'
    BY <2>2, <2>3 DEF GarbageIsUnreferenced, FreeingProgress, Freeing
  <2> QED
    BY <1>b, <2>1, <2>2, <2>4, HoldWork DEF UsesBlock
<1>3. CASE FreeStorageBlock
  <2>1. UNCHANGED <<freed, count, refs, locs, residual>>
    BY <1>3 DEF FreeStorageBlock
  <2>2. \A s \in garbage : RefsTo(s) = {} /\ s <= count
    BY <1>3, <1>a DEF FreeStorageBlock, GarbageIsUnreferenced
  <2>3. CASE pc'[Worker] = "idle"
    <3>1. GarbageIsUnreferenced' /\ FreeingProgress'
      BY <2>3 DEF GarbageIsUnreferenced, FreeingProgress, Freeing
    <3> QED
      BY <1>b, <2>1, <2>3, <3>1, HoldWork DEF UsesBlock
  <2>4. CASE pc'[Worker] # "idle"
    <3>1. PICK s \in garbage : /\ blk' = [blk EXCEPT ![Worker] = s]
                               /\ garbage' = garbage \ {s}
                               /\ targets' = locs[s]
      BY <2>4, <1>3 DEF FreeStorageBlock
    <3>2. pc'[Worker] = "deleteFile" /\ blk'[Worker] = s
      BY <2>4, <1>3, <3>1 DEF FreeStorageBlock
    <3>3. GarbageIsUnreferenced' /\ FreeingProgress'
      BY <3>1, <3>2, <2>1, <2>2 DEF GarbageIsUnreferenced, FreeingProgress, RefsTo
    <3> QED
      BY <1>b, <2>1, <3>2, <3>3, HoldWork DEF UsesBlock
  <2> QED
    BY <2>3, <2>4
<1>4. CASE DeleteFile
  <2>1. UNCHANGED <<freed, count, refs, locs, residual, blk, garbage, targets>>
    BY <1>4 DEF DeleteFile
  <2>2. pc[Worker] = "deleteFile"
    BY <1>4 DEF DeleteFile
  <2>3. \/ pc'[Worker] = "unresidual" /\ targets = {}
        \/ pc'[Worker] \in {"deleteLocation", "failed"}
    BY <1>4 DEF DeleteFile
  <2>4. GarbageIsUnreferenced' /\ FreeingProgress'
    BY <2>1, <2>2, <2>3, <1>a DEF GarbageIsUnreferenced, FreeingProgress, RefsTo, Freeing
  <2> QED
    BY <1>b, <2>1, <2>3, <2>4, HoldWork DEF UsesBlock
<1>5. CASE RemoveBlockLocation
  <2>1. UNCHANGED <<freed, count, refs, residual, blk, garbage>>
    BY <1>5 DEF RemoveBlockLocation
  <2>2. pc[Worker] = "deleteLocation" /\ pc'[Worker] = "deleteFile"
    BY <1>5 DEF RemoveBlockLocation
  <2>3. PICK k \in targets : /\ locs' = [locs EXCEPT ![blk[Worker]] = @ \ {k}]
                             /\ targets' = targets \ {k}
    BY <1>5 DEF RemoveBlockLocation
  <2>4. \A s \in StorageIds : locs'[s] \subseteq locs[s]
    BY <2>3
  <2>5. GarbageIsUnreferenced'
    BY <2>1, <2>2, <1>a DEF GarbageIsUnreferenced, RefsTo, Freeing
  <2>6. FreeingProgress'
    BY <2>1, <2>2, <2>3, <1>a DEF FreeingProgress
  <2> QED
    BY <1>b, <2>1, <2>2, <2>4, <2>5, <2>6, HoldWork DEF UsesBlock
<1>6. CASE DeleteResidual
  <2>1. UNCHANGED <<freed, count, refs, locs, blk, garbage>>
        /\ residual' = residual \ {blk[Worker]}
    BY <1>6 DEF DeleteResidual
  <2>2. pc[Worker] = "unresidual" /\ pc'[Worker] = "insertFreed"
    BY <1>6 DEF DeleteResidual
  <2>3. GarbageIsUnreferenced' /\ FreeingProgress'
    BY <2>1, <2>2, <1>a DEF GarbageIsUnreferenced, FreeingProgress, RefsTo, Freeing
  <2> QED
    BY <1>b, <2>1, <2>2, <2>3, HoldWork DEF UsesBlock
<1>7. CASE InsertFreed
  <2>1. UNCHANGED <<count, refs, locs, residual, blk, garbage>>
    BY <1>7 DEF InsertFreed
  <2>2. freed' \subseteq freed \cup {blk[Worker]}
    BY <1>7 DEF InsertFreed
  <2>3. pc[Worker] = "insertFreed" /\ pc'[Worker] \in {"reset", "failed"}
    BY <1>7 DEF InsertFreed
  <2>4. /\ RefsTo(blk[Worker]) = {} /\ blk[Worker] <= count
        /\ locs[blk[Worker]] = {} /\ blk[Worker] \notin residual
    BY <2>3, <1>a DEF GarbageIsUnreferenced, FreeingProgress, Freeing
  <2>5. Spare' \subseteq Spare \cup {blk[Worker]}
    BY <2>1, <2>2 DEF Spare
  <2>6. FreedRows' /\ SpareRows'
    BY <2>1, <2>2, <2>4, <2>5, <1>a DEF FreedRows, SpareRows, RefsTo
  <2>7. GarbageIsUnreferenced' /\ FreeingProgress'
    BY <2>1, <2>3, <1>a DEF GarbageIsUnreferenced, FreeingProgress, RefsTo, Freeing
  <2> QED
    BY <2>3, <2>5, <2>6, <2>7, HoldWork DEF UsesBlock, Collecting
<1>8. CASE ResetInfo
  <2>1. UNCHANGED <<freed, count, refs, locs, residual, garbage>>
    BY <1>8 DEF ResetInfo
  <2>2. pc[Worker] = "reset" /\ pc'[Worker] = "nextStorageBlock"
    BY <1>8 DEF ResetInfo
  <2>3. GarbageIsUnreferenced' /\ FreeingProgress'
    BY <2>1, <2>2, <1>a DEF GarbageIsUnreferenced, FreeingProgress, RefsTo, Freeing
  <2> QED
    BY <1>b, <2>1, <2>2, <2>3, HoldWork DEF UsesBlock
<1> QED
  BY <1>1, <1>2, <1>3, <1>4, <1>5, <1>6, <1>7, <1>8

\* A request begins; an upload is complete; files expire; the process crashes.
LEMMA HoldEnv ==
    ASSUME TypeInv, HoldInv,
           \/ \E p \in Revisers : StartRevision(p)
           \/ FinishUpload \/ ExpireFiles \/ Crash \/ UNCHANGED vars
    PROVE  HoldInv'
<1> USE DEF tables, catalog, table, stores, memory, locals, combine, results, outside,
      others, Goto
<1> USE LocalTypes
<1>1. UNCHANGED <<freed, count, refs, locs, residual, blk, garbage, targets>>
  BY DEF StartRevision, FinishUpload, ExpireFiles, Crash, vars
<1>2. Spare' = Spare /\ FreedRows' /\ SpareRows'
  BY <1>1 DEF HoldInv, FreedRows, SpareRows, Spare, RefsTo
<1>3. \/ pc'[Worker] = pc[Worker] /\ job' = job
      \/ pc'[Worker] = "idle"
  BY WorkerIsNoReviser DEF StartRevision, FinishUpload, ExpireFiles, Crash, vars
<1>4. JobLabels' /\ GarbageIsUnreferenced' /\ FreeingProgress'
  BY <1>1, <1>3
     DEF HoldInv, JobLabels, Collecting, Replicating, GarbageIsUnreferenced,
         FreeingProgress, Freeing, RefsTo
<1>5. \A p \in Procs : pc'[p] = pc[p] \/ pc'[p] \in {"idle", "done", "find"}
  BY DEF StartRevision, FinishUpload, ExpireFiles, Crash, vars
<1>6. RequestLabels'
  BY <1>5 DEF HoldInv, RequestLabels, StoreLabels, Procs
<1>7. HeldRows' /\ ExclusiveWriters'
  BY <1>1, <1>2, <1>5 DEF HoldInv, HeldRows, UsesBlock, ExclusiveWriters, Writing
<1> QED
  BY <1>2, <1>4, <1>6, <1>7 DEF HoldInv

LEMMA HoldInvariant == Spec /\ []Apart => [](TypeInv /\ FreeListDiscipline /\ HoldInv)
<1>1. Init => HoldInv
  <2> SUFFICES ASSUME Init PROVE HoldInv
    OBVIOUS
  <2>1. /\ \A p \in Procs : pc[p] = "idle"
        /\ refs = {} /\ residual = {} /\ locs = [s \in StorageIds |-> {}]
    BY DEF Init
  <2>2. JobLabels /\ GarbageIsUnreferenced /\ FreeingProgress
    BY <2>1 DEF JobLabels, Collecting, Replicating, GarbageIsUnreferenced,
                FreeingProgress, Freeing, Procs
  <2>3. FreedRows
    BY BoundsAssumption DEF Init, FreedRows
  <2>4. SpareRows
    BY <2>1, BoundsAssumption DEF Init, SpareRows, Spare, RefsTo, StorageIds
  <2>5. RequestLabels /\ HeldRows /\ ExclusiveWriters
    BY <2>1 DEF RequestLabels, HeldRows, ExclusiveWriters, Writing, UsesBlock, Procs
  <2> QED
    BY <2>2, <2>3, <2>4, <2>5 DEF HoldInv
<1>2. TypeInv /\ FreeListDiscipline /\ HoldInv /\ Apart /\ [Next]_vars => HoldInv'
  <2> SUFFICES ASSUME TypeInv, FreeListDiscipline, HoldInv, Apart, [Next]_vars
               PROVE  HoldInv'
    OBVIOUS
  <2>1. ASSUME NEW p \in Procs, Store(p) PROVE HoldInv'
    BY <2>1, HoldStore
  <2>2. CASE Work /\ ~Store(Worker)
    BY <2>2, HoldJobs, HoldCollect DEF Work
  <2>3. CASE \/ \E p \in Revisers : StartRevision(p)
             \/ FinishUpload \/ ExpireFiles \/ Crash \/ UNCHANGED vars
    BY <2>3, HoldEnv
  <2> QED
    BY <2>1, <2>2, <2>3, StepKinds
<1> QED
  BY TypeInvariant, FreeListSafe, <1>1, <1>2, PTL DEF Spec

\* Without requests that store, nothing overlaps them.
LEMMA SerialIsApart ==
    ASSUME Revisers = {}
    PROVE  Spec => []Apart
<1>1. Apart
  BY DEF Apart
<1> QED
  BY <1>1, PTL

\* As long as no combination and no collection overlaps a request that stores, a row of
\* the free list is referenced by nothing, held by no backend, on no residual list and in
\* no writer's hands: for any requests, uploads, expiries and combinations, and for a
\* crash after any statement of any job.
THEOREM FreeBlocksStayUnused == Spec /\ []Apart => []FreeBlocksAreUnused
<1>1. HoldInv => FreeBlocksAreUnused
  BY DEF HoldInv, SpareRows, Spare, HeldRows, FreeBlocksAreUnused, Writing, UsesBlock
<1> QED
  BY HoldInvariant, <1>1, PTL

\* AcquireStorageBlock: under the same condition two requests, or a request and the job
\* worker, never write the same storage block.
THEOREM WritersAreExclusive == Spec /\ []Apart => []ExclusiveWriters
<1>1. HoldInv => ExclusiveWriters
  BY DEF HoldInv
<1> QED
  BY HoldInvariant, <1>1, PTL

(***************************************************************************)
(* What is written stays readable.                                         *)
(***************************************************************************)
\* A located file is what the row belongs to, or has been deleted by a collector that
\* a crash cut short.
LocatedSealed == \A s \in StorageIds : \A k \in locs[s] : files[s][k] \in {info[s], Blank}

Sealed(s) == locs[s] # {} /\ \A k \in locs[s] : files[s][k] = info[s]
ReferencedSealed ==
    \A r \in refs :
        /\ Sealed(r.storageBlock)
        /\ HoldsAt(info[r.storageBlock], r.blobBlock, r.offset)

\* The cache may be behind for a block that is being written.
Rewriting == {"store", "info", "location", "residual", "count"}
CacheFollows ==
    \A s \in StorageIds \ freed :
        \/ cache[s] \in {Blank, info[s]}
        \/ \E p \in Procs : s = blk[p] /\ pc[p] \in Rewriting

\* How far a process is in writing its block, and that what it stores for an upload is
\* the blob block.
Wrote(p) ==
    /\ pc[p] \in {"store", "info", "location"} => locs[blk[p]] = {}
    /\ pc[p] \in {"store", "info", "location", "residual"} => blk[p] \notin residual
    /\ Writing(p) => RefsTo(blk[p]) = {}
    /\ pc[p] \in {"info", "location"} => files[blk[p]][Fastest] = buf[p]
    /\ pc[p] \in {"location", "residual", "count", "reference", "refs", "move"} =>
           info[blk[p]] = buf[p]
    /\ pc[p] \in {"residual", "count", "reference", "refs", "move"} => Sealed(blk[p])
UploadsStored(p) ==
    pc[p] \in StoreLabels /\ (p = Worker => job.type = "upload-file") =>
        buf[p] = Plain(bb[p])
WritersProgress == \A p \in Procs : Wrote(p) /\ UploadsStored(p)

\* How far the worker is in copying its block.
CopyingProgress ==
    /\ pc[Worker] \in {"fetch", "copy", "copied"} => locs[blk[Worker]] # {}
    /\ pc[Worker] \in {"copy", "copied"} => buf[Worker] = info[blk[Worker]]
    /\ pc[Worker] = "copied" =>
           \A k \in targets : IsLeast(k, targets) => files[blk[Worker]][k] = info[blk[Worker]]

\* What a combination has read stays in its sources until the references have moved.
Combining ==
    \/ pc[Worker] \in {"read", "refs", "move"}
    \/ pc[Worker] \in AcquiringOrWriting /\ job.type = "combine-residual-blocks"
SourcesKept ==
    /\ Combining => \A i \in sources :
           /\ rows[i] \notin Spare
           /\ pc[Worker] # "read" \/ i <= pos =>
                  Shifted(info[rows[i]], delta[rows[i]]) \subseteq buf[Worker].data
           /\ pc[Worker] \in UsesBlock => rows[i] # blk[Worker]
    /\ pc[Worker] = "read" => \A i, j \in sources : i # j => rows[i] # rows[j]
    /\ pc[Worker] = "move" => \A r \in moving : r \in refs /\ r.storageBlock = rows[pos]

FreeingEnds == pc[Worker] = "reset" => blk[Worker] \in freed

ReadInv ==
    /\ LocatedSealed /\ ReferencedSealed /\ CacheFollows /\ WritersProgress
    /\ CopyingProgress /\ SourcesKept /\ FreeingEnds

LEMMA SourceIds ==
    ASSUME TypeInv
    PROVE  \A i \in sources : rows[i] \in StorageIds /\ rows[i] \in Nat /\ i \in Nat
<1>1. rows \in Seq(StorageIds) /\ sources \subseteq DOMAIN rows
  BY LocalTypes
<1>2. \A i \in DOMAIN rows : rows[i] \in StorageIds /\ i \in Nat
  BY <1>1
<1> QED
  BY <1>1, <1>2 DEF StorageIds

\* A reference is to a row that is in use.
LEMMA ReferencedRows ==
    ASSUME TypeInv, HoldInv, NEW r \in refs
    PROVE  r.storageBlock \in StorageIds /\ r.storageBlock \notin Spare
  BY LocalTypes DEF HoldInv, SpareRows, RefsTo, Refs

\* A step that only takes references away leaves what there is to read readable.
LEMMA TablesStay ==
    ASSUME LocatedSealed, ReferencedSealed, UNCHANGED <<locs, info, files>>, refs' \subseteq refs
    PROVE  LocatedSealed' /\ ReferencedSealed'
<1>1. LocatedSealed'
  BY DEF LocatedSealed
<1>2. ReferencedSealed'
  BY DEF ReferencedSealed, Sealed, HoldsAt
<1> QED
  BY <1>1, <1>2

\* Nor does one that touches a block to which nothing refers.
LEMMA UnreferencedChanges ==
    ASSUME TypeInv, LocatedSealed, ReferencedSealed, refs' = refs,
           NEW s \in StorageIds, RefsTo(s) = {},
           \A t \in StorageIds : t # s =>
               locs'[t] = locs[t] /\ info'[t] = info[t] /\ files'[t] = files[t],
           \A k \in locs'[s] : files'[s][k] \in {info'[s], Blank}
    PROVE  LocatedSealed' /\ ReferencedSealed'
<1>1. LocatedSealed'
  BY DEF LocatedSealed
<1>2. ReferencedSealed'
  <2> SUFFICES ASSUME NEW r \in refs
               PROVE  Sealed(r.storageBlock)'
                      /\ HoldsAt(info'[r.storageBlock], r.blobBlock, r.offset)
    BY DEF ReferencedSealed, HoldsAt
  <2>1. r.storageBlock \in StorageIds /\ r.storageBlock # s
    BY LocalTypes DEF Refs, RefsTo
  <2> QED
    BY <2>1 DEF ReferencedSealed, Sealed
<1> QED
  BY <1>1, <1>2

LEMMA CacheStays ==
    ASSUME CacheFollows, UNCHANGED <<cache, info>>, freed \subseteq freed',
           \A p \in Procs : pc[p] \in Rewriting => pc'[p] \in Rewriting /\ blk'[p] = blk[p]
    PROVE  CacheFollows'
  BY DEF CacheFollows

\* A process that is overtaken by another one's storing.
LEMMA ReadStore ==
    ASSUME TypeInv, HoldInv, ReadInv, Apart, NEW p \in Procs, Store(p),
           LocatedSealed', ReferencedSealed', CacheFollows', Wrote(p)',
           p = Worker => SourcesKept',
           \/ UNCHANGED <<info, files, locs, refs, residual>>
           \/ /\ Writing(p)
              /\ \A s \in StorageIds : s # blk[p] =>
                     /\ info'[s] = info[s] /\ files'[s] = files[s] /\ locs'[s] = locs[s]
                     /\ s \in residual' => s \in residual
                     /\ RefsTo(s)' = RefsTo(s)
              /\ locs[blk[p]] \subseteq locs'[blk[p]]
              /\ locs[blk[p]] # {} => info' = info /\ files' = files
    PROVE  ReadInv'
<1> USE LocalTypes
<1>a. /\ WritersProgress /\ CopyingProgress /\ JobLabels /\ RequestLabels /\ ExclusiveWriters
  BY DEF HoldInv, ReadInv
<1>b. \A q \in Procs : q # p => /\ pc'[q] = pc[q] /\ blk'[q] = blk[q]
                                /\ buf'[q] = buf[q] /\ bb'[q] = bb[q]
  BY StoreControl
<1>1. ASSUME NEW q \in Procs, q # p
      PROVE  Wrote(q)' /\ UploadsStored(q)'
  <2>1. Wrote(q) /\ UploadsStored(q)
    BY <1>a DEF WritersProgress
  <2>2. pc[q] \notin {"refs", "move"}
    <3>1. CASE q = Worker
      BY <1>a, <1>1, <3>1, StoreIsApart
    <3>2. CASE q # Worker
      BY <1>a, <3>2 DEF Procs, RequestLabels, StoreLabels, AcquiringOrWriting
    <3> QED
      BY <3>1, <3>2
  <2>3. q = Worker => job' = job
    BY <1>a, <1>1, StoreIsApart
  <2>4. UploadsStored(q)'
    BY <1>b, <1>1, <2>1, <2>3 DEF UploadsStored, Plain
  <2>5. ASSUME Writing(q)
        PROVE  /\ info'[blk[q]] = info[blk[q]] /\ files'[blk[q]] = files[blk[q]]
               /\ locs'[blk[q]] = locs[blk[q]] /\ RefsTo(blk[q])' = RefsTo(blk[q])
               /\ blk[q] \in residual' => blk[q] \in residual
    <3> blk'[q] = blk[q]
      BY <1>b, <1>1
    <3>1. CASE UNCHANGED <<info, files, locs, refs, residual>>
      BY <3>1 DEF RefsTo
    <3>2. CASE Writing(p)
      <4>1. blk[q] # blk[p] /\ blk[q] \in StorageIds
        BY <1>a, <1>1, <2>5, <3>2 DEF ExclusiveWriters
      <4>2. \/ UNCHANGED <<info, files, locs, refs, residual>>
            \/ \A s \in StorageIds : s # blk[p] =>
                   /\ info'[s] = info[s] /\ files'[s] = files[s] /\ locs'[s] = locs[s]
                   /\ s \in residual' => s \in residual
                   /\ RefsTo(s)' = RefsTo(s)
        OBVIOUS
      <4> QED
        BY <3>1, <4>1, <4>2 DEF RefsTo
    <3> QED
      BY <3>1, <3>2
  <2>6. Wrote(q)'
    BY <1>b, <1>1, <2>1, <2>2, <2>5 DEF Wrote, Writing, Sealed
  <2> QED
    BY <2>4, <2>6
<1>2. WritersProgress'
  <2>1. UploadsStored(p)'
    BY <1>a, StoreControl DEF WritersProgress, UploadsStored, Plain, StoreLabels, AcquiringOrWriting
  <2> QED
    BY <1>1, <2>1 DEF WritersProgress
<1>3. CopyingProgress'
  <2>1. CASE p = Worker
    BY <2>1, StoreControl DEF CopyingProgress, StoreLabels, AcquiringOrWriting
  <2>2. CASE p # Worker
    <3>1. /\ pc'[Worker] = pc[Worker] /\ blk'[Worker] = blk[Worker]
          /\ buf'[Worker] = buf[Worker]
      BY <1>b, <2>2
    <3>2. targets' = targets
      BY DEF Store, FindBlobBlock, AddBlobBlock, LockFreeList, SelectFreed, DeleteFreed,
             CreateBlock, StoreFile, UpdateStorageBlockInfo, AddBlockLocation,
             PutOnResidualList, QueryResidualBlockCount, AddBlobBlockStorage, LinkBlob,
             others, results
    <3>3. locs[blk[Worker]] # {} =>
              /\ locs'[blk[Worker]] # {} /\ info'[blk[Worker]] = info[blk[Worker]]
              /\ files'[blk[Worker]] = files[blk[Worker]]
      OBVIOUS
    <3> QED
      BY <1>a, <3>1, <3>2, <3>3 DEF CopyingProgress
  <2> QED
    BY <2>1, <2>2
<1>4. SourcesKept'
  <2>1. CASE p # Worker
    <3>1. /\ pc'[Worker] \notin {"combine", "read", "refs", "move"}
          /\ pc'[Worker] = pc[Worker] /\ job' = job
      BY <1>a, <2>1, StoreIsApart
    <3>2. Storing(p) /\ p \in Revisers
      BY <2>1, StoreControl DEF StoreLabels, AcquiringOrWriting, Storing, Writing, Procs
    <3>3. ~Combining'
      BY <1>a, <3>1, <3>2, RequestsApart DEF Combining
    <3> QED
      BY <3>1, <3>3 DEF SourcesKept
  <2> QED
    BY <2>1
<1>5. FreeingEnds'
  BY <1>a, StoreIsApart DEF FreeingEnds, Collecting
<1> QED
  BY <1>2, <1>3, <1>4, <1>5 DEF ReadInv

\* On its way from one write to the next a combination keeps what it has read.
LEMMA SourcesStay ==
    ASSUME TypeInv, SourcesKept, Store(Worker), Spare' \subseteq Spare,
           UNCHANGED <<rows, sources, delta>>,
           job.type = "combine-residual-blocks" =>
               \A i \in sources : rows[i] \notin Spare =>
                   /\ info'[rows[i]] = info[rows[i]]
                   /\ pc'[Worker] \in UsesBlock =>
                          \/ rows[i] # blk'[Worker]
                          \/ pc[Worker] \in UsesBlock /\ blk'[Worker] = blk[Worker]
    PROVE  SourcesKept'
<1> USE DEF AcquiringOrWriting
<1>1. /\ pc[Worker] \in StoreLabels /\ UNCHANGED buf
      /\ pc'[Worker] \in StoreLabels \cup {"refs", "idle", "done", "failed"}
      /\ pc'[Worker] = "refs" => job.type = "combine-residual-blocks"
      /\ job' = job \/ pc'[Worker] = "idle"
  BY StoreControl, LocalTypes
<1>2. Combining' => Combining /\ job.type = "combine-residual-blocks"
  BY <1>1 DEF Combining, StoreLabels, TypeInv, CombineControl
<1>3. ASSUME Combining', NEW i \in sources'
      PROVE  /\ rows'[i] \notin Spare'
             /\ Shifted(info[rows[i]], delta[rows[i]])' \subseteq buf'[Worker].data
             /\ pc'[Worker] \in UsesBlock => rows'[i] # blk'[Worker]
  <2>1. /\ rows[i] \notin Spare
        /\ pc[Worker] \in UsesBlock => rows[i] # blk[Worker]
        /\ Shifted(info[rows[i]], delta[rows[i]]) \subseteq buf[Worker].data
    BY <1>1, <1>2, <1>3 DEF SourcesKept, StoreLabels
  <2>2. /\ info'[rows[i]] = info[rows[i]]
        /\ pc'[Worker] \in UsesBlock => rows[i] # blk'[Worker]
    BY <1>2, <1>3, <2>1
  <2> QED
    BY <1>1, <2>1, <2>2 DEF Shifted
<1>4. pc'[Worker] \notin {"read", "move"}
  BY <1>1 DEF StoreLabels
<1> QED
  BY <1>3, <1>4 DEF SourcesKept

\* Finding or inserting the row of the blob block, and acquiring a storage block.
LEMMA ReadAcquire ==
    ASSUME TypeInv, FreeListDiscipline, HoldInv, ReadInv, Apart, NEW p \in Procs, Store(p),
           \/ FindBlobBlock(p) \/ AddBlobBlock(p) \/ LockFreeList(p)
           \/ SelectFreed(p) \/ DeleteFreed(p) \/ CreateBlock(p)
    PROVE  ReadInv'
<1> USE DEF tables, catalog, table, stores, memory, locals, combine, results, outside,
      others, Goto, Fail, Return
<1> USE LocalTypes
<1>a. /\ LocatedSealed /\ ReferencedSealed /\ CacheFollows /\ SourcesKept
      /\ FreedRows /\ SpareRows
  BY DEF ReadInv, HoldInv
<1>b. \A q \in Procs : q # p => pc'[q] = pc[q] /\ blk'[q] = blk[q]
  BY StoreControl
<1>1. CASE FindBlobBlock(p) \/ AddBlobBlock(p) \/ LockFreeList(p) \/ SelectFreed(p)
  <2>1. /\ UNCHANGED <<count, locs, residual, info, files, refs, cache, freed>>
        /\ UNCHANGED <<rows, sources, delta>>
        /\ pc[p] \in {"find", "add", "lock", "select"}
        /\ pc'[p] \notin UsesBlock
    BY <1>1 DEF FindBlobBlock, AddBlobBlock, LockFreeList, SelectFreed, UsesBlock
  <2>2. LocatedSealed' /\ ReferencedSealed'
    BY <1>a, <2>1, TablesStay
  <2>3. CacheFollows'
    BY <1>a, <1>b, <2>1, CacheStays DEF Rewriting
  <2>4. Wrote(p)'
    BY <2>1 DEF Wrote, Writing, UsesBlock
  <2>5. Spare' = Spare
    BY <2>1 DEF Spare
  <2>6. p = Worker => SourcesKept'
    BY <1>a, <2>1, <2>5, SourcesStay
  <2> QED
    BY <2>1, <2>2, <2>3, <2>4, <2>6, ReadStore
<1>2. CASE DeleteFreed(p) \/ CreateBlock(p)
  <2>1. /\ blk'[p] \in Spare /\ Spare' = Spare \ {blk'[p]} /\ FreedRows'
        /\ count' \in Nat /\ count <= count'
        /\ pc[p] \in {"unfree", "create"} /\ pc'[p] = "store"
        /\ UNCHANGED <<refs, locs, residual, info, files, cache>>
        /\ UNCHANGED <<rows, sources, delta>>
    BY <1>2, <1>a, Acquired
  <2>2. LocatedSealed' /\ ReferencedSealed'
    BY <1>a, <2>1, TablesStay
  <2>3. CacheFollows'
    <3> SUFFICES ASSUME NEW s \in StorageIds \ freed'
                 PROVE  \/ cache[s] \in {Blank, info[s]}
                        \/ \E q \in Procs : s = blk'[q] /\ pc'[q] \in Rewriting
      BY <2>1 DEF CacheFollows
    <3>1. CASE s \in freed
      <4>1. s \in Nat /\ s <= count /\ s \in Spare
        BY <1>a, <3>1 DEF FreedRows, StorageIds, Spare
      <4>2. ~(s > count')
        BY <2>1, <4>1
      <4>3. s = blk'[p]
        BY <2>1, <4>1, <4>2 DEF Spare
      <4> QED
        BY <2>1, <4>3 DEF Rewriting
    <3>2. CASE s \notin freed
      <4>1. \/ cache[s] \in {Blank, info[s]}
            \/ \E q \in Procs : s = blk[q] /\ pc[q] \in Rewriting
        BY <1>a, <3>2 DEF CacheFollows
      <4>2. \A q \in Procs : pc[q] \in Rewriting => pc'[q] \in Rewriting /\ blk'[q] = blk[q]
        BY <1>b, <2>1 DEF Rewriting
      <4> QED
        BY <4>1, <4>2
    <3> QED
      BY <3>1, <3>2
  <2>4. Wrote(p)'
    BY <1>a, <2>1 DEF Wrote, SpareRows, RefsTo
  <2>5. p = Worker => SourcesKept'
    BY <1>a, <2>1, SourcesStay
  <2> QED
    BY <2>1, <2>2, <2>3, <2>4, <2>5, ReadStore
<1> QED
  BY <1>1, <1>2

\* Writing the storage block: its file, iv and authTag, location, and place on the
\* residual list.
LEMMA ReadWrite ==
    ASSUME TypeInv, HoldInv, ReadInv, Apart, NEW p \in Procs, Store(p),
           \/ StoreFile(p) \/ UpdateStorageBlockInfo(p) \/ AddBlockLocation(p)
           \/ PutOnResidualList(p) \/ QueryResidualBlockCount(p)
    PROVE  ReadInv'
<1> USE DEF tables, catalog, table, stores, memory, locals, combine, results, outside,
      others, Goto, Fail, Return
<1> USE LocalTypes
<1> DEFINE s == blk[p]
<1>a. LocatedSealed /\ ReferencedSealed /\ CacheFollows /\ Wrote(p) /\ SourcesKept
  BY DEF ReadInv, WritersProgress
<1>b. s \in StorageIds /\ Fastest \in Backends
  BY BoundsAssumption DEF Fastest, Backends
<1>c. /\ UNCHANGED <<count, refs, freed, blk, buf, rows, sources, delta>>
      /\ pc[p] \in Rewriting
  BY DEF StoreFile, UpdateStorageBlockInfo, AddBlockLocation, PutOnResidualList,
         QueryResidualBlockCount, Rewriting
<1>d. Writing(p) /\ pc[p] \in UsesBlock /\ RefsTo(s) = {}
  BY <1>a, <1>c DEF Wrote, Writing, Rewriting, UsesBlock
<1>e. \A q \in Procs : q # p => pc'[q] = pc[q] /\ blk'[q] = blk[q]
  BY StoreControl
<1>f. \A t \in StorageIds : RefsTo(t)' = RefsTo(t)
  BY <1>c DEF RefsTo
<1>g. ASSUME \A t \in StorageIds : t # s =>
                 info'[t] = info[t] /\ files'[t] = files[t] /\ locs'[t] = locs[t],
             \A t \in residual' : t \in residual \/ t = s,
             locs[s] \subseteq locs'[s],
             \A k \in locs'[s] : files'[s][k] = info'[s],
             locs[s] # {} => info' = info /\ files' = files,
             CacheFollows', Wrote(p)'
      PROVE  ReadInv'
  <2>1. LocatedSealed' /\ ReferencedSealed'
    BY <1>a, <1>b, <1>c, <1>d, <1>g, UnreferencedChanges
  <2>2. p = Worker => SourcesKept'
    <3> SUFFICES ASSUME p = Worker PROVE SourcesKept'
      OBVIOUS
    <3>1. Spare' = Spare
      BY <1>c DEF Spare
    <3>2. ASSUME job.type = "combine-residual-blocks", NEW i \in sources
          PROVE  rows[i] # s /\ info'[rows[i]] = info[rows[i]]
      <4>1. Combining
        BY <1>c, <3>2 DEF Combining, Rewriting, AcquiringOrWriting
      <4>2. rows[i] # s
        BY <1>a, <1>d, <4>1 DEF SourcesKept
      <4> QED
        BY <1>g, <4>2, SourceIds
    <3> QED
      BY <1>a, <1>c, <3>1, <3>2, SourcesStay
  <2> QED
    BY <1>d, <1>f, <1>g, <2>1, <2>2, ReadStore
<1>1. CASE StoreFile(p)
  <2>1. /\ UNCHANGED <<locs, residual, info, cache>>
        /\ files' = [files EXCEPT ![s][Fastest] = buf[p]]
        /\ pc[p] = "store" /\ pc'[p] = "info"
    BY <1>1 DEF StoreFile
  <2>2. locs[s] = {} /\ s \notin residual
    BY <1>a, <2>1 DEF Wrote
  <2>3. /\ \A t \in StorageIds : t # s => files'[t] = files[t]
        /\ files'[s][Fastest] = buf[p]
    BY <1>b, <2>1
  <2>4. CacheFollows'
    BY <1>a, <1>c, <1>e, <2>1, CacheStays DEF Rewriting
  <2>5. Wrote(p)'
    BY <1>c, <1>d, <2>1, <2>2, <2>3 DEF Wrote, RefsTo
  <2> QED
    BY <1>g, <2>1, <2>2, <2>3, <2>4, <2>5
<1>2. CASE UpdateStorageBlockInfo(p)
  <2>1. /\ UNCHANGED <<locs, residual, files, cache>>
        /\ info' = [info EXCEPT ![s] = buf[p]]
        /\ pc[p] = "info" /\ pc'[p] = "location"
    BY <1>2 DEF UpdateStorageBlockInfo
  <2>2. locs[s] = {} /\ s \notin residual /\ files[s][Fastest] = buf[p]
    BY <1>a, <2>1 DEF Wrote
  <2>3. info'[s] = buf[p] /\ \A t \in StorageIds : t # s => info'[t] = info[t]
    BY <1>b, <2>1
  <2>4. \A q \in Procs : pc[q] \in Rewriting => pc'[q] \in Rewriting /\ blk'[q] = blk[q]
    BY <1>c, <1>e, <2>1 DEF Rewriting
  <2>5. CacheFollows'
    <3>1. pc'[p] \in Rewriting /\ blk'[p] = s
      BY <1>c, <2>1 DEF Rewriting
    <3> QED
      BY <1>a, <1>c, <2>1, <2>3, <2>4, <3>1 DEF CacheFollows
  <2>6. Wrote(p)'
    BY <1>c, <1>d, <2>1, <2>2, <2>3 DEF Wrote, RefsTo
  <2> QED
    BY <1>g, <2>1, <2>2, <2>3, <2>5, <2>6
<1>h. ASSUME UNCHANGED <<files, info>>, pc[p] \in {"location", "residual", "count"},
             pc'[p] \in {"residual", "count", "reference", "refs"},
             pc'[p] = "residual" => s \notin residual',
             \A t \in residual' : t \in residual \/ t = s,
             \A t \in StorageIds : t # s => locs'[t] = locs[t],
             \/ pc[p] = "location" /\ locs'[s] = {Fastest}
             \/ pc[p] # "location" /\ locs'[s] = locs[s],
             pc'[p] \in {"reference", "refs"} => cache' = [cache EXCEPT ![s] = Blank],
             pc'[p] \notin {"reference", "refs"} => cache' = cache
      PROVE  ReadInv'
  <2>1. info[s] = buf[p]
    BY <1>a, <1>h DEF Wrote
  <2>2. pc[p] = "location" => files[s][Fastest] = info[s] /\ locs[s] = {}
    BY <1>a, <2>1 DEF Wrote
  <2>3. pc[p] # "location" => Sealed(s)
    BY <1>a, <1>h DEF Wrote
  <2>4. locs'[s] # {} /\ \A k \in locs'[s] : files'[s][k] = info'[s]
    BY <1>h, <2>2, <2>3 DEF Sealed
  <2>5. CacheFollows'
    <3>1. CASE pc'[p] \in {"reference", "refs"}
      <4> SUFFICES ASSUME NEW t \in StorageIds \ freed
                   PROVE  \/ cache'[t] \in {Blank, info[t]}
                          \/ \E q \in Procs : t = blk'[q] /\ pc'[q] \in Rewriting
        BY <1>c, <1>h DEF CacheFollows
      <4>1. cache' = [cache EXCEPT ![s] = Blank]
        BY <1>h, <3>1
      <4>2. CASE t = s
        BY <1>b, <4>1, <4>2
      <4>3. CASE t # s
        <5>1. \/ cache[t] \in {Blank, info[t]}
              \/ \E q \in Procs : t = blk[q] /\ pc[q] \in Rewriting
          BY <1>a DEF CacheFollows
        <5>2. cache'[t] = cache[t]
          BY <4>1, <4>3
        <5> QED
          BY <1>e, <4>3, <5>1, <5>2
      <4> QED
        BY <4>2, <4>3
    <3>2. CASE pc'[p] \in Rewriting
      <4>1. cache' = cache
        BY <1>h, <3>2 DEF Rewriting
      <4> QED
        BY <1>a, <1>c, <1>e, <1>h, <3>2, <4>1, CacheStays
    <3> QED
      BY <1>h, <3>1, <3>2 DEF Rewriting
  <2>6. Wrote(p)'
    BY <1>c, <1>d, <1>h, <2>1, <2>4 DEF Wrote, RefsTo, Sealed
  <2>7. locs[s] \subseteq locs'[s]
    BY <1>h, <2>2
  <2> QED
    BY <1>g, <1>h, <2>4, <2>5, <2>6, <2>7
<1>3. CASE AddBlockLocation(p)
  <2>1. /\ UNCHANGED <<files, info, residual>> /\ pc[p] = "location"
        /\ locs[s] = {} /\ s \notin residual
    BY <1>3, <1>a DEF AddBlockLocation, Wrote
  <2>2. locs' = [locs EXCEPT ![s] = {Fastest}]
    BY <1>3, <2>1 DEF AddBlockLocation
  <2>3. \/ pc'[p] = "residual" /\ cache' = cache
        \/ EndWrite(p, <<>>)
    BY <1>3, <2>1 DEF AddBlockLocation
  <2>4. /\ pc'[p] \in {"residual", "reference", "refs"}
        /\ pc'[p] \in {"reference", "refs"} => cache' = [cache EXCEPT ![s] = Blank]
        /\ pc'[p] \notin {"reference", "refs"} => cache' = cache
    BY <2>3 DEF EndWrite
  <2>5. locs'[s] = {Fastest} /\ \A t \in StorageIds : t # s => locs'[t] = locs[t]
    BY <1>b, <2>2
  <2> QED
    BY <1>h, <2>1, <2>4, <2>5
<1>4. CASE PutOnResidualList(p)
  <2>1. s \notin residual
    BY <1>4, <1>a DEF PutOnResidualList, Wrote
  <2>2. /\ UNCHANGED <<files, info, locs, cache>> /\ pc[p] = "residual"
        /\ pc'[p] = "count" /\ residual' = residual \cup {s}
    BY <1>4, <2>1 DEF PutOnResidualList
  <2> QED
    BY <1>h, <2>2
<1>5. CASE QueryResidualBlockCount(p)
  <2>1. /\ UNCHANGED <<files, info, locs, residual>> /\ pc[p] = "count"
        /\ \E jobs : EndWrite(p, jobs)
    BY <1>5 DEF QueryResidualBlockCount
  <2>2. /\ pc'[p] \in {"reference", "refs"}
        /\ cache' = [cache EXCEPT ![s] = Blank]
    BY <2>1 DEF EndWrite
  <2> QED
    BY <1>h, <2>1, <2>2
<1> QED
  BY <1>1, <1>2, <1>3, <1>4, <1>5

\* The end of an upload: the block is referenced, and the blob linked.
LEMMA ReadLink ==
    ASSUME TypeInv, HoldInv, ReadInv, Apart, NEW p \in Procs, Store(p),
           AddBlobBlockStorage(p) \/ LinkBlob(p)
    PROVE  ReadInv'
<1> USE DEF tables, catalog, table, stores, memory, locals, combine, results, outside,
      others, Goto, Fail, Return
<1> USE LocalTypes
<1> DEFINE s == blk[p]
           r0 == [blobBlock |-> bb[p], storageBlock |-> s, offset |-> 0]
<1>a. /\ LocatedSealed /\ ReferencedSealed /\ CacheFollows /\ Wrote(p) /\ UploadsStored(p)
      /\ SourcesKept /\ CombineControl
  BY DEF ReadInv, WritersProgress, TypeInv
<1>b. /\ UNCHANGED <<count, locs, residual, info, files, cache, freed, blk>>
      /\ UNCHANGED <<rows, sources, delta>>
      /\ pc[p] \in {"reference", "link"} /\ pc'[p] \in {"link", "failed", "idle", "done"}
  BY DEF AddBlobBlockStorage, LinkBlob
<1>c. \A q \in Procs : q # p => pc'[q] = pc[q] /\ blk'[q] = blk[q]
  BY StoreControl
<1>1. LocatedSealed' /\ CacheFollows' /\ Wrote(p)' /\ Spare' = Spare
  <2>1. LocatedSealed' /\ Spare' = Spare
    BY <1>a, <1>b DEF LocatedSealed, Spare
  <2>2. CacheFollows'
    BY <1>a, <1>b, <1>c, CacheStays DEF Rewriting
  <2>3. Wrote(p)'
    BY <1>b DEF Wrote, Writing
  <2> QED
    BY <2>1, <2>2, <2>3
<1>2. p = Worker => SourcesKept'
  BY <1>a, <1>b, <1>1, SourcesStay DEF UsesBlock
<1>3. CASE refs' = refs
  BY <1>a, <1>b, <1>1, <1>2, <1>3, TablesStay, ReadStore
<1>4. CASE refs' # refs
  <2>1. pc[p] = "reference" /\ refs' = refs \cup {r0}
    BY <1>4 DEF AddBlobBlockStorage, LinkBlob
  <2>2. Sealed(s) /\ info[s] = buf[p]
    BY <1>a, <2>1 DEF Wrote
  <2>3. buf[p] = Plain(bb[p])
    BY <1>a, <2>1 DEF UploadsStored, CombineControl, StoreLabels
  <2>4. HoldsAt(info[s], bb[p], 0)
    BY <2>2, <2>3 DEF HoldsAt, Plain
  <2>5. ReferencedSealed'
    <3> SUFFICES ASSUME NEW r \in refs'
                 PROVE  Sealed(r.storageBlock) /\ HoldsAt(info[r.storageBlock], r.blobBlock, r.offset)
      BY <1>b DEF ReferencedSealed, HoldsAt, Sealed
    <3>1. CASE r \in refs
      BY <1>a, <3>1 DEF ReferencedSealed
    <3>2. CASE r = r0
      BY <2>2, <2>4, <3>2
    <3> QED
      BY <2>1, <3>1, <3>2
  <2>6. Writing(p) /\ \A t \in StorageIds : t # s => RefsTo(t)' = RefsTo(t)
    BY <2>1 DEF Writing, RefsTo
  <2> QED
    BY <1>b, <1>1, <1>2, <2>5, <2>6, ReadStore
<1> QED
  BY <1>3, <1>4

\* Outside of storing, copying and combining nothing is claimed of the worker's locals.
Working == StoreLabels \cup {"refs", "move", "fetch", "copy", "copied", "read", "reset"}
LEMMA Elsewhere ==
    ASSUME pc'[Worker] \notin Working
    PROVE  /\ Wrote(Worker)' /\ UploadsStored(Worker)'
           /\ CopyingProgress' /\ SourcesKept' /\ FreeingEnds'
<1> USE DEF Working, StoreLabels, AcquiringOrWriting
<1>1. Wrote(Worker)' /\ FreeingEnds'
  BY DEF Wrote, Writing, FreeingEnds
<1>2. UploadsStored(Worker)' /\ CopyingProgress'
  BY DEF UploadsStored, CopyingProgress
<1>3. SourcesKept'
  BY DEF SourcesKept, Combining
<1> QED
  BY <1>1, <1>2, <1>3

\* No request stores while the worker combines or collects.
LEMMA NoRequestWrites ==
    ASSUME TypeInv, HoldInv, Apart,
           pc[Worker] \in Collecting \cup {"combine", "read", "refs", "move"},
           NEW q \in Revisers
    PROVE  ~Writing(q) /\ pc[q] \notin Rewriting
  BY RequestsApart DEF HoldInv, Storing, Writing, Rewriting

\* What a step of any other job leaves to show: while it combines or collects, no
\* request writes, and otherwise it must leave the block of a writing request alone.
LEMMA ReadWork ==
    ASSUME TypeInv, HoldInv, ReadInv, Apart, Work, ~Store(Worker),
           LocatedSealed', ReferencedSealed', CacheFollows', Wrote(Worker)',
           UploadsStored(Worker)', CopyingProgress', SourcesKept', FreeingEnds',
           \/ pc[Worker] \in Collecting \cup {"combine", "read", "refs", "move"}
           \/ /\ UNCHANGED <<info, refs, residual>>
              /\ \A s \in StorageIds :
                     /\ locs[s] = {} => locs'[s] = {} /\ files'[s] = files[s]
                     /\ Sealed(s) => Sealed(s)'
    PROVE  ReadInv'
<1> USE LocalTypes
<1>a. \A q \in Revisers : /\ pc'[q] = pc[q] /\ blk'[q] = blk[q]
                          /\ buf'[q] = buf[q] /\ bb'[q] = bb[q]
  BY WorkControl DEF HoldInv
<1>1. ASSUME NEW q \in Revisers
      PROVE  Wrote(q)' /\ UploadsStored(q)'
  <2>1. Wrote(q) /\ UploadsStored(q) /\ q # Worker /\ q \in Procs
    BY WorkerIsNoReviser DEF ReadInv, WritersProgress, Procs
  <2>2. UploadsStored(q)'
    BY <1>a, <2>1 DEF UploadsStored, Plain
  <2>3. pc[q] \notin {"refs", "move"}
    BY DEF HoldInv, RequestLabels, StoreLabels, AcquiringOrWriting
  <2>4. CASE ~Writing(q)
    <3>1. ~Writing(q)' /\ pc'[q] \notin {"refs", "move"}
      BY <1>a, <2>3, <2>4 DEF Writing
    <3> QED
      BY <2>2, <3>1 DEF Wrote, Writing
  <2>5. CASE Writing(q)
    <3>1. pc[Worker] \notin Collecting \cup {"combine", "read", "refs", "move"}
      BY <2>5, NoRequestWrites
    <3>2. UNCHANGED <<info, refs, residual>>
      BY <3>1
    <3>3. \A s \in StorageIds : /\ locs[s] = {} => locs'[s] = {} /\ files'[s] = files[s]
                                /\ Sealed(s) => Sealed(s)'
      BY <3>1
    <3>4. blk[q] \in StorageIds /\ blk'[q] = blk[q]
      BY <1>a, <2>1
    <3>5. locs[blk[q]] = {} => locs'[blk[q]] = {} /\ files'[blk[q]] = files[blk[q]]
      BY <3>3, <3>4
    <3>6. Sealed(blk[q]) => Sealed(blk[q])'
      <4>1. ASSUME NEW s \in StorageIds, Sealed(s)
            PROVE  locs'[s] # {} /\ \A k \in locs'[s] : files'[s][k] = info'[s]
        BY <3>3, <4>1 DEF Sealed
      <4>2. Sealed(blk[q]) => /\ locs'[blk[q]] # {}
                              /\ \A k \in locs'[blk[q]] : files'[blk[q]][k] = info'[blk[q]]
        BY <3>4, <4>1
      <4> QED
        BY <3>4, <4>2 DEF Sealed
    <3>7. Wrote(q)'
      BY <1>a, <2>1, <2>3, <3>2, <3>4, <3>5, <3>6 DEF Wrote, Writing, RefsTo
    <3> QED
      BY <2>2, <3>7
  <2> QED
    BY <2>2, <2>4, <2>5
<1>2. WritersProgress'
  BY <1>1 DEF WritersProgress, Procs
<1> QED
  BY <1>2 DEF ReadInv

\* Replication copies what belongs to the row.
LEMMA ReadReplicate ==
    ASSUME TypeInv, HoldInv, ReadInv, Apart, Work, ~Store(Worker),
           Deliver \/ QueryBlockLocations \/ CheckFreeList \/ FetchBlock \/ CopyFile
           \/ AddReplicaLocation
    PROVE  ReadInv'
<1> USE DEF tables, catalog, table, stores, memory, locals, combine, results, outside,
      others, Goto, Fail, Return
<1> USE LocalTypes
<1> DEFINE s == blk[Worker]
<1>a. LocatedSealed /\ ReferencedSealed /\ CacheFollows /\ CopyingProgress
  BY DEF ReadInv
<1>b. s \in StorageIds
  OBVIOUS
<1>c. ASSUME UNCHANGED <<locs, residual, info, files, refs>>
      PROVE  /\ UNCHANGED <<info, refs, residual>>
             /\ \A t \in StorageIds :
                    /\ locs[t] = {} => locs'[t] = {} /\ files'[t] = files[t]
                    /\ Sealed(t) => Sealed(t)'
  BY <1>c DEF Sealed
<1>d. ASSUME UNCHANGED <<cache, info, freed>>, pc[Worker] \notin Rewriting
      PROVE  CacheFollows'
  <2>1. \A q \in Procs : pc[q] \in Rewriting => pc'[q] \in Rewriting /\ blk'[q] = blk[q]
    BY <1>d, WorkControl DEF HoldInv, Procs
  <2> QED
    BY <1>a, <1>d, <2>1, CacheStays
<1>e. ASSUME pc'[Worker] \in {"fetch", "copy", "copied"}
      PROVE  Wrote(Worker)' /\ UploadsStored(Worker)' /\ SourcesKept' /\ FreeingEnds'
  BY <1>e DEF Wrote, Writing, UploadsStored, StoreLabels, SourcesKept, Combining,
              FreeingEnds, AcquiringOrWriting
<1>1. CASE Deliver
  <2>1. /\ UNCHANGED <<locs, residual, info, files, refs, cache, freed>>
        /\ pc[Worker] = "idle"
        /\ pc'[Worker] \in {"find", "locations", "combine", "collect"}
    BY <1>1 DEF Deliver
  <2>2. LocatedSealed' /\ ReferencedSealed' /\ CacheFollows'
    BY <1>a, <1>d, <2>1, TablesStay DEF Rewriting
  <2>3. CASE pc'[Worker] = "find"
    <3>1. buf'[Worker] = Plain(bb'[Worker])
      BY <1>1, <2>3 DEF Deliver
    <3>2. UploadsStored(Worker)'
      BY <3>1 DEF UploadsStored, Plain
    <3>3. Wrote(Worker)' /\ CopyingProgress' /\ SourcesKept' /\ FreeingEnds'
      BY <2>3 DEF Wrote, Writing, CopyingProgress, SourcesKept, Combining, FreeingEnds,
                  AcquiringOrWriting
    <3> QED
      BY <1>c, <2>1, <2>2, <3>2, <3>3, ReadWork
  <2>4. CASE pc'[Worker] # "find"
    <3>1. pc'[Worker] \notin Working
      BY <2>1, <2>4 DEF Working, StoreLabels, AcquiringOrWriting
    <3> QED
      BY <1>c, <2>1, <2>2, <3>1, Elsewhere, ReadWork
  <2> QED
    BY <2>3, <2>4
<1>2. CASE QueryBlockLocations \/ CheckFreeList
  <2>1. /\ UNCHANGED <<locs, residual, info, files, refs, cache, freed, blk>>
        /\ pc[Worker] \in {"locations", "checkFree"}
        /\ \/ pc'[Worker] \in {"idle", "checkFree", "failed"}
           \/ pc'[Worker] = "fetch" /\ locs[s] # {}
    BY <1>2 DEF QueryBlockLocations, CheckFreeList
  <2>2. LocatedSealed' /\ ReferencedSealed' /\ CacheFollows'
    BY <1>a, <1>d, <2>1, TablesStay DEF Rewriting
  <2>3. CASE pc'[Worker] = "fetch"
    <3>1. CopyingProgress'
      BY <2>1, <2>3 DEF CopyingProgress
    <3> QED
      BY <1>c, <1>e, <2>1, <2>2, <2>3, <3>1, ReadWork
  <2>4. CASE pc'[Worker] # "fetch"
    <3>1. pc'[Worker] \notin Working
      BY <2>1, <2>4 DEF Working, StoreLabels, AcquiringOrWriting
    <3> QED
      BY <1>c, <2>1, <2>2, <3>1, Elsewhere, ReadWork
  <2> QED
    BY <2>3, <2>4
<1>3. CASE FetchBlock
  <2>1. /\ UNCHANGED <<locs, residual, info, files, refs, cache, freed, blk, targets>>
        /\ pc[Worker] = "fetch" /\ pc'[Worker] \in {"failed", "copy"}
    BY <1>3 DEF FetchBlock
  <2>2. LocatedSealed' /\ ReferencedSealed' /\ CacheFollows'
    BY <1>a, <1>d, <2>1, TablesStay DEF Rewriting
  <2>3. CASE pc'[Worker] = "copy"
    <3>1. buf'[Worker] \in Stored(s)
      BY <1>3, <2>1, <2>3 DEF FetchBlock
    <3>2. buf'[Worker] = info[s]
      BY <1>a, <1>b, <3>1 DEF Stored, LocatedSealed
    <3>3. CopyingProgress'
      BY <1>a, <2>1, <2>3, <3>2 DEF CopyingProgress
    <3> QED
      BY <1>c, <1>e, <2>1, <2>2, <2>3, <3>3, ReadWork
  <2>4. CASE pc'[Worker] # "copy"
    <3>1. pc'[Worker] \notin Working
      BY <2>1, <2>4 DEF Working, StoreLabels, AcquiringOrWriting
    <3> QED
      BY <1>c, <2>1, <2>2, <3>1, Elsewhere, ReadWork
  <2> QED
    BY <2>1, <2>3, <2>4
<1>4. CASE CopyFile
  <2>1. /\ UNCHANGED <<locs, residual, info, refs, cache, freed, blk, buf, targets>>
        /\ pc[Worker] = "copy" /\ pc'[Worker] = "copied"
    BY <1>4 DEF CopyFile
  <2>2. PICK k \in targets : /\ IsLeast(k, targets)
                             /\ files' = [files EXCEPT ![s][k] = buf[Worker]]
    BY <1>4 DEF CopyFile
  <2>3. buf[Worker] = info[s] /\ locs[s] # {}
    BY <1>a, <2>1 DEF CopyingProgress
  <2>4. \A t \in StorageIds : \A l \in Backends :
            files'[t][l] = files[t][l] \/ files'[t][l] = info[t]
    BY <2>2, <2>3
  <2>5. files'[s][k] = info[s]
    BY <2>2, <2>3
  <2>6. LocatedSealed'
    BY <1>a, <2>1, <2>4 DEF LocatedSealed
  <2>7. \A t \in StorageIds : /\ locs[t] = {} => locs'[t] = {} /\ files'[t] = files[t]
                              /\ Sealed(t) => Sealed(t)'
    <3> TAKE t \in StorageIds
    <3>1. locs[t] = {} => t # s
      BY <2>3
    <3>2. t # s => files'[t] = files[t]
      BY <2>2
    <3>3. Sealed(t) => Sealed(t)'
      BY <2>1, <2>4 DEF Sealed
    <3> QED
      BY <2>1, <3>1, <3>2, <3>3
  <2>8. ReferencedSealed'
    <3> SUFFICES ASSUME NEW r \in refs PROVE Sealed(r.storageBlock)'
      BY <1>a, <2>1 DEF ReferencedSealed, HoldsAt
    <3>1. r.storageBlock \in StorageIds /\ Sealed(r.storageBlock)
      BY <1>a DEF Refs, ReferencedSealed
    <3> QED
      BY <2>7, <3>1
  <2>9. \A l \in targets : IsLeast(l, targets) => l = k
    BY <2>2 DEF IsLeast, Backends
  <2>10. CopyingProgress'
    BY <2>1, <2>3, <2>5, <2>9 DEF CopyingProgress
  <2> QED
    BY <1>d, <1>e, <2>1, <2>6, <2>7, <2>8, <2>10, ReadWork DEF Rewriting
<1>5. CASE AddReplicaLocation
  <2>1. /\ UNCHANGED <<files, residual, info, refs, cache, freed, blk, buf>>
        /\ pc[Worker] = "copied" /\ pc'[Worker] \in {"copy", "idle", "failed"}
    BY <1>5 DEF AddReplicaLocation
  <2>2. PICK k \in targets : /\ IsLeast(k, targets)
                             /\ locs' = locs \/ locs' = [locs EXCEPT ![s] = @ \cup {k}]
    BY <1>5 DEF AddReplicaLocation
  <2>3. files[s][k] = info[s] /\ locs[s] # {} /\ buf[Worker] = info[s]
    BY <1>a, <2>1, <2>2 DEF CopyingProgress
  <2>4. \A t \in StorageIds : /\ locs[t] \subseteq locs'[t]
                              /\ locs[t] = {} => locs'[t] = {}
                              /\ \A l \in locs'[t] : l \in locs[t] \/ files[t][l] = info[t]
    <3> SUFFICES ASSUME NEW t \in StorageIds
                 PROVE  \/ locs'[t] = locs[t]
                        \/ /\ locs'[t] = locs[t] \cup {k} /\ files[t][k] = info[t]
                           /\ locs[t] # {}
      OBVIOUS
    <3>1. CASE t = s
      BY <1>b, <2>2, <2>3, <3>1
    <3>2. CASE t # s
      BY <2>2, <3>2
    <3> QED
      BY <3>1, <3>2
  <2>5. LocatedSealed'
    BY <1>a, <2>1, <2>4 DEF LocatedSealed
  <2>6. \A t \in StorageIds : Sealed(t) => Sealed(t)'
    BY <2>1, <2>4 DEF Sealed
  <2>7. ReferencedSealed'
    <3> SUFFICES ASSUME NEW r \in refs PROVE Sealed(r.storageBlock)'
      BY <1>a, <2>1 DEF ReferencedSealed, HoldsAt
    <3>1. r.storageBlock \in StorageIds /\ Sealed(r.storageBlock)
      BY <1>a DEF Refs, ReferencedSealed
    <3> QED
      BY <2>6, <3>1
  <2>8. /\ UNCHANGED <<info, refs, residual>>
        /\ \A t \in StorageIds : /\ locs[t] = {} => locs'[t] = {} /\ files'[t] = files[t]
                                 /\ Sealed(t) => Sealed(t)'
    BY <2>1, <2>4, <2>6
  <2>9. CASE pc'[Worker] = "copy"
    <3>1. CopyingProgress'
      BY <2>1, <2>3, <2>4, <2>9 DEF CopyingProgress
    <3> QED
      BY <1>d, <1>e, <2>1, <2>5, <2>7, <2>8, <2>9, <3>1, ReadWork DEF Rewriting
  <2>10. CASE pc'[Worker] # "copy"
    <3>1. pc'[Worker] \notin Working
      BY <2>1, <2>10 DEF Working, StoreLabels, AcquiringOrWriting
    <3> QED
      BY <1>d, <2>1, <2>5, <2>7, <2>8, <3>1, Elsewhere, ReadWork DEF Rewriting
  <2> QED
    BY <2>9, <2>10
<1> QED
  BY <1>1, <1>2, <1>3, <1>4, <1>5

\* While it combines or collects, only the worker itself may be behind in the cache.
LEMMA CacheOfHousekeeping ==
    ASSUME TypeInv, HoldInv, ReadInv, Apart, Work, ~Store(Worker),
           pc[Worker] \in Collecting \cup {"combine", "read", "refs", "move"}
    PROVE  /\ \A s \in StorageIds \ freed : cache[s] \in {Blank, info[s]}
           /\ UNCHANGED <<cache, info>> /\ freed \subseteq freed' => CacheFollows'
<1>1. \A q \in Procs : pc[q] \notin Rewriting
  BY NoRequestWrites DEF Procs, Rewriting, Collecting
<1>2. \A s \in StorageIds \ freed : cache[s] \in {Blank, info[s]}
  BY <1>1 DEF ReadInv, CacheFollows
<1> QED
  BY <1>2 DEF CacheFollows

\* A shifted content has its blob blocks further on.
LEMMA ShiftedHas ==
    ASSUME NEW c, NEW b, NEW offset, NEW d, <<b, offset>> \in c.data
    PROVE  <<b, offset + d>> \in Shifted(c, d)
<1> DEFINE x == <<b, offset>>
<1>1. <<b, offset + d>> = <<x[1], x[2] + d>>
  OBVIOUS
<1> QED
  BY <1>1 DEF Shifted

\* What has been downloaded is what the row belongs to, where the cache follows.
LEMMA DownloadedIsCurrent ==
    ASSUME LocatedSealed, NEW s \in StorageIds, cache[s] \in {Blank, info[s]},
           NEW c \in Downloaded(s)
    PROVE  c = info[s]
  BY DEF Downloaded, Stored, LocatedSealed

\* A combination reads what belongs to its sources ...
LEMMA ReadSources ==
    ASSUME TypeInv, HoldInv, ReadInv, Apart, Work, ~Store(Worker),
           QueryResidualBlocks \/ ReadSource
    PROVE  ReadInv'
<1> USE DEF tables, catalog, table, stores, memory, locals, combine, results, outside,
      others, Goto, Fail, Return
<1> USE LocalTypes
<1>a. /\ LocatedSealed /\ ReferencedSealed /\ SourcesKept /\ CombineControl /\ SpareRows
  BY DEF ReadInv, TypeInv, HoldInv
<1>b. ASSUME pc'[Worker] \in {"read", "lock"}, job'.type = "combine-residual-blocks"
      PROVE  Wrote(Worker)' /\ UploadsStored(Worker)' /\ CopyingProgress' /\ FreeingEnds'
  BY <1>b DEF Wrote, Writing, UploadsStored, CopyingProgress, FreeingEnds
<1>1. CASE QueryResidualBlocks
  <2>1. /\ UNCHANGED <<count, locs, residual, info, files, refs, cache, freed>>
        /\ pc[Worker] = "combine" /\ pc'[Worker] \in {"idle", "read"} /\ pos' = 0
    BY <1>1 DEF QueryResidualBlocks
  <2>2. LocatedSealed' /\ ReferencedSealed'
    BY <1>a, <2>1, TablesStay
  <2>3. CacheFollows'
    BY <2>1, CacheOfHousekeeping
  <2>4. CASE pc'[Worker] = "idle"
    <3>1. pc'[Worker] \notin Working
      BY <2>4 DEF Working, StoreLabels, AcquiringOrWriting
    <3> QED
      BY <2>1, <2>2, <2>3, <3>1, Elsewhere, ReadWork
  <2>5. CASE pc'[Worker] = "read"
    <3>1. PICK q \in ResidualRows : rows' = q /\ sources' \subseteq 1..Len(q) /\ job' = job
      BY <1>1, <2>1, <2>5 DEF QueryResidualBlocks
    <3>2. q \in Seq(StorageIds) /\ DOMAIN q = 1..Len(q) /\ Len(q) \in Nat
      BY <3>1, ResidualRowsAreSequences DEF TypeInv, TypeOK
    <3>3. \A i \in 1..Len(q) : q[i] \in residual
      BY <3>1, <3>2 DEF ResidualRows
    <3>4. \A i, j \in 1..Len(q) : i # j => q[i] # q[j]
      <4>1. \A i, j \in 1..Len(q) : i < j => q[i] # q[j]
        BY <3>1, <3>2 DEF ResidualRows
      <4>2. \A i, j \in 1..Len(q) : i # j => i < j \/ j < i
        BY <3>2
      <4> QED
        BY <4>1, <4>2
    <3>5. Spare' = Spare /\ \A s \in residual : s \notin Spare
      BY <1>a, <2>1 DEF SpareRows, Spare
    <3>6. \A i \in sources' : rows'[i] \notin Spare' /\ ~(i <= pos')
      <4> SUFFICES ASSUME NEW i \in sources' PROVE rows'[i] \notin Spare' /\ ~(i <= pos')
        OBVIOUS
      <4>1. i \in 1..Len(q) /\ rows'[i] = q[i]
        BY <3>1
      <4>2. i \in Nat /\ 1 <= i
        BY <3>2, <4>1
      <4>3. q[i] \in residual
        BY <3>3, <4>1
      <4> QED
        BY <2>1, <3>5, <4>1, <4>2, <4>3
    <3>7. \A i, j \in sources' : i # j => rows'[i] # rows'[j]
      BY <3>1, <3>4
    <3>8. SourcesKept'
      BY <2>5, <3>6, <3>7 DEF SourcesKept, UsesBlock
    <3>9. job'.type = "combine-residual-blocks"
      BY <1>a, <2>1, <3>1 DEF CombineControl
    <3> QED
      BY <1>b, <2>1, <2>2, <2>3, <2>5, <3>8, <3>9, ReadWork
  <2> QED
    BY <2>1, <2>4, <2>5
<1>2. CASE ReadSource
  <2>1. /\ UNCHANGED <<count, locs, residual, info, files, refs, freed, job, rows, sources>>
        /\ UNCHANGED blk /\ pc[Worker] = "read"
        /\ job.type = "combine-residual-blocks"
    BY <1>2, <1>a DEF ReadSource, CombineControl
  <2>2. LocatedSealed' /\ ReferencedSealed'
    BY <1>a, <2>1, TablesStay
  <2>3. CASE pc'[Worker] = "failed" /\ cache' = cache
    <3>1. pc'[Worker] \notin Working /\ CacheFollows'
      BY <2>1, <2>3, CacheOfHousekeeping DEF Working, StoreLabels, AcquiringOrWriting
    <3> QED
      BY <2>1, <2>2, <3>1, Elsewhere, ReadWork
  <2>4. CASE \E i \in sources :
               /\ IsNextSource(i)
               /\ \E c \in Downloaded(rows[i]) :
                    /\ cache' = [cache EXCEPT ![rows[i]] = c]
                    /\ buf' = [buf EXCEPT ![Worker] = Concat(@, c)]
               /\ delta' = [delta EXCEPT ![rows[i]] = buf[Worker].size]
               /\ pos' = i
               /\ Goto(Worker, IF IsLastSource(i) THEN "lock" ELSE "read")
    <3>1. PICK i \in sources :
               /\ IsNextSource(i)
               /\ \E c \in Downloaded(rows[i]) :
                    /\ cache' = [cache EXCEPT ![rows[i]] = c]
                    /\ buf' = [buf EXCEPT ![Worker] = Concat(@, c)]
               /\ delta' = [delta EXCEPT ![rows[i]] = buf[Worker].size]
               /\ pos' = i
               /\ Goto(Worker, IF IsLastSource(i) THEN "lock" ELSE "read")
      BY <2>4
    <3>2. PICK c \in Downloaded(rows[i]) :
                    /\ cache' = [cache EXCEPT ![rows[i]] = c]
                    /\ buf' = [buf EXCEPT ![Worker] = Concat(@, c)]
      BY <3>1
    <3>3. rows[i] \in StorageIds /\ rows[i] \notin Spare
      BY <1>a, <2>1, SourceIds DEF SourcesKept, Combining
    <3>4. \A t \in StorageIds \ freed : cache[t] \in {Blank, info[t]}
      BY <2>1, CacheOfHousekeeping
    <3>5. c = info[rows[i]]
      BY <1>a, <3>3, <3>4, DownloadedIsCurrent DEF Spare
    <3>6. CacheFollows'
      BY <2>1, <3>2, <3>3, <3>4, <3>5 DEF CacheFollows
    <3>7. pc'[Worker] \in {"read", "lock"} /\ (pc'[Worker] # "read" => IsLastSource(i))
      BY <3>1
    <3>8. buf'[Worker].data = buf[Worker].data \cup Shifted(info[rows[i]], delta'[rows[i]])
      BY <3>1, <3>2, <3>3, <3>5 DEF Concat
    <3>9. ASSUME NEW j \in sources, pc'[Worker] # "read" \/ j <= pos'
          PROVE  Shifted(info[rows[j]], delta'[rows[j]]) \subseteq buf'[Worker].data
      <4>1. CASE j = i
        BY <3>8, <4>1
      <4>2. CASE j # i
        <5>1. j <= i
          BY <3>1, <3>7, <3>9, SourceIds DEF IsLastSource
        <5>2. j <= pos
          <6>1. ~(j > pos) \/ i <= j
            BY <3>1 DEF IsNextSource, IsLeast
          <6>2. i \in Nat /\ j \in Nat /\ pos \in Nat
            BY <3>1, SourceIds
          <6> QED
            BY <4>2, <5>1, <6>1, <6>2
        <5>3. Shifted(info[rows[j]], delta[rows[j]]) \subseteq buf[Worker].data
          BY <1>a, <2>1, <5>2 DEF SourcesKept, Combining
        <5>4. rows[j] # rows[i]
          BY <1>a, <2>1, <4>2 DEF SourcesKept
        <5>5. delta'[rows[j]] = delta[rows[j]]
          BY <3>1, <5>4, SourceIds
        <5> QED
          BY <3>8, <5>3, <5>5
      <4> QED
        BY <4>1, <4>2
    <3>10. /\ \A j \in sources : rows[j] \notin Spare
           /\ \A j, k \in sources : j # k => rows[j] # rows[k]
      BY <1>a, <2>1 DEF SourcesKept, Combining
    <3>11. Spare' = Spare
      BY <2>1 DEF Spare
    <3>12. SourcesKept'
      BY <2>1, <3>7, <3>9, <3>10, <3>11 DEF SourcesKept, UsesBlock, Shifted
    <3> QED
      BY <1>b, <2>1, <2>2, <3>6, <3>7, <3>12, ReadWork
  <2> QED
    BY <1>2, <2>3, <2>4 DEF ReadSource
<1> QED
  BY <1>1, <1>2

\* ... and moves the references to where it has put that.
LEMMA ReadMove ==
    ASSUME TypeInv, HoldInv, ReadInv, Apart, Work, ~Store(Worker),
           QueryBlobBlocksInStorageBlock \/ MoveReference \/ RemoveReferencesToStorageBlockId
    PROVE  ReadInv'
<1> USE DEF tables, catalog, table, stores, memory, locals, combine, results, outside,
      others, Goto, Fail, Return
<1> USE LocalTypes
<1> DEFINE s == blk[Worker]
<1>a. /\ LocatedSealed /\ ReferencedSealed /\ SourcesKept /\ Wrote(Worker) /\ CombineControl
  BY DEF ReadInv, TypeInv, WritersProgress
<1>1. /\ UNCHANGED <<count, locs, residual, info, files, cache, freed, blk, buf, bb, rows,
                     sources, delta>>
      /\ pc[Worker] \in {"refs", "move"} /\ pc'[Worker] \in {"refs", "move", "idle", "failed"}
  BY DEF QueryBlobBlocksInStorageBlock, MoveReference, RemoveReferencesToStorageBlockId
<1>2. info[s] = buf[Worker] /\ Sealed(s)
  BY <1>a, <1>1 DEF Wrote
<1>3. \A i \in sources : /\ rows[i] \notin Spare /\ rows[i] # s
                         /\ Shifted(info[rows[i]], delta[rows[i]]) \subseteq buf[Worker].data
  BY <1>a, <1>1 DEF SourcesKept, Combining, UsesBlock
<1>4. CacheFollows' /\ Spare' = Spare
  BY <1>1, CacheOfHousekeeping DEF Spare
<1>5. ASSUME LocatedSealed', ReferencedSealed',
             pc'[Worker] = "move" => \A r \in moving' : r \in refs' /\ r.storageBlock = rows[pos']
      PROVE  ReadInv'
  <2>1. CASE pc'[Worker] \in {"refs", "move"}
    <3>1. Wrote(Worker)'
      BY <1>1, <1>2, <2>1 DEF Wrote, Writing, Sealed
    <3>2. UploadsStored(Worker)' /\ CopyingProgress' /\ FreeingEnds'
      BY <2>1 DEF UploadsStored, CopyingProgress, FreeingEnds, StoreLabels, AcquiringOrWriting
    <3>3. SourcesKept'
      BY <1>1, <1>3, <1>4, <1>5, <2>1 DEF SourcesKept, Shifted
    <3> QED
      BY <1>1, <1>4, <1>5, <3>1, <3>2, <3>3, ReadWork
  <2>2. CASE pc'[Worker] \in {"idle", "failed"}
    <3>1. pc'[Worker] \notin Working
      BY <2>2 DEF Working, StoreLabels, AcquiringOrWriting
    <3> QED
      BY <1>1, <1>4, <1>5, <3>1, Elsewhere, ReadWork
  <2> QED
    BY <1>1, <2>1, <2>2
<1>6. CASE QueryBlobBlocksInStorageBlock
  <2>1. PICK i \in sources : pos' = i /\ moving' = RefsTo(rows[i])
    BY <1>6 DEF QueryBlobBlocksInStorageBlock
  <2>2. refs' = refs
    BY <1>6 DEF QueryBlobBlocksInStorageBlock
  <2> QED
    BY <1>a, <1>1, <1>5, <2>1, <2>2, TablesStay DEF RefsTo
<1>7. CASE RemoveReferencesToStorageBlockId
  <2>1. refs' \subseteq refs /\ pc'[Worker] \in {"refs", "idle"}
    BY <1>7 DEF RemoveReferencesToStorageBlockId
  <2> QED
    BY <1>a, <1>1, <1>5, <2>1, TablesStay
<1>8. CASE MoveReference
  <2>1. pc[Worker] = "move" /\ pos' = pos
    BY <1>8 DEF MoveReference
  <2>2. PICK r \in moving :
            /\ moving' = moving \ {r}
            /\ \/ refs' = refs /\ pc'[Worker] = "failed"
               \/ /\ refs' = refs \cup {[blobBlock |-> r.blobBlock, storageBlock |-> s,
                                         offset |-> MovedOffset(r)]}
                  /\ pc'[Worker] = "move"
    BY <1>8 DEF MoveReference
  <2>3. CASE refs' = refs /\ pc'[Worker] = "failed"
    BY <1>a, <1>1, <1>5, <2>3, TablesStay
  <2>4. CASE /\ refs' = refs \cup {[blobBlock |-> r.blobBlock, storageBlock |-> s,
                                    offset |-> MovedOffset(r)]}
             /\ pc'[Worker] = "move"
    <3>1. /\ \A m \in moving : m \in refs /\ m.storageBlock = rows[pos]
          /\ pos \in sources
      BY <1>a, <2>1 DEF SourcesKept, CombineControl
    <3>2. HoldsAt(info[rows[pos]], r.blobBlock, r.offset)
      BY <1>a, <3>1 DEF ReferencedSealed
    <3>3. <<r.blobBlock, MovedOffset(r)>> \in Shifted(info[rows[pos]], delta[rows[pos]])
      <4>1. <<r.blobBlock, r.offset>> \in info[rows[pos]].data
        BY <3>2 DEF HoldsAt
      <4> QED
        BY <4>1, ShiftedHas DEF MovedOffset
    <3>4. HoldsAt(info[s], r.blobBlock, MovedOffset(r))
      BY <1>2, <1>3, <3>1, <3>3 DEF HoldsAt
    <3>5. ReferencedSealed'
      <4> SUFFICES ASSUME NEW m \in refs'
                   PROVE  /\ Sealed(m.storageBlock)
                          /\ HoldsAt(info[m.storageBlock], m.blobBlock, m.offset)
        BY <1>1 DEF ReferencedSealed, HoldsAt, Sealed
      <4>1. CASE m \in refs
        BY <1>a, <4>1 DEF ReferencedSealed
      <4>2. CASE m = [blobBlock |-> r.blobBlock, storageBlock |-> s, offset |-> MovedOffset(r)]
        BY <1>2, <3>4, <4>2
      <4> QED
        BY <2>4, <4>1, <4>2
    <3>6. LocatedSealed'
      BY <1>a, <1>1 DEF LocatedSealed
    <3>7. \A m \in moving' : m \in refs' /\ m.storageBlock = rows[pos']
      BY <2>1, <2>2, <2>4, <3>1
    <3> QED
      BY <1>1, <1>5, <3>5, <3>6, <3>7
  <2> QED
    BY <2>2, <2>3, <2>4
<1> QED
  BY <1>6, <1>7, <1>8

\* Collecting garbage touches only what nothing refers to.
LEMMA ReadCollect ==
    ASSUME TypeInv, HoldInv, ReadInv, Apart, Work, ~Store(Worker),
           \/ CollectBlobs \/ FindUnreferencedBlobBlocks \/ DeleteBlobBlockStorage
           \/ DeleteBlobBlock \/ FindUnreferencedStorageBlocks \/ FreeStorageBlock
           \/ DeleteFile \/ RemoveBlockLocation \/ DeleteResidual \/ InsertFreed
           \/ ResetInfo
    PROVE  ReadInv'
<1> USE DEF tables, catalog, table, stores, memory, locals, combine, results, outside,
      others, Goto, Fail, Return
<1> USE LocalTypes
<1> DEFINE s == blk[Worker]
<1>a. /\ LocatedSealed /\ ReferencedSealed /\ FreeingEnds /\ SpareRows
      /\ GarbageIsUnreferenced
  BY DEF ReadInv, HoldInv
<1>b. s \in StorageIds
  OBVIOUS
<1>c. ASSUME pc[Worker] \in Collecting, LocatedSealed', ReferencedSealed', CacheFollows',
             pc'[Worker] \in Collecting \cup {"idle", "failed"}, FreeingEnds'
      PROVE  ReadInv'
  <2>1. /\ Wrote(Worker)' /\ UploadsStored(Worker)' /\ CopyingProgress' /\ SourcesKept'
    BY <1>c DEF Wrote, Writing, UploadsStored, StoreLabels, AcquiringOrWriting,
                CopyingProgress, SourcesKept, Combining, Collecting
  <2> QED
    BY <1>c, <2>1, ReadWork
<1>1. CASE \/ CollectBlobs \/ FindUnreferencedBlobBlocks \/ DeleteBlobBlockStorage
           \/ DeleteBlobBlock \/ FindUnreferencedStorageBlocks \/ FreeStorageBlock
  <2>1. /\ UNCHANGED <<count, locs, residual, info, files, cache, freed>>
        /\ refs' \subseteq refs
    BY <1>1 DEF CollectBlobs, FindUnreferencedBlobBlocks, DeleteBlobBlockStorage,
                DeleteBlobBlock, FindUnreferencedStorageBlocks, FreeStorageBlock
  <2>2. /\ pc[Worker] \in {"collect", "findBlobBlocks", "nextBlobBlock", "deleteBlobBlock",
                           "nextStorageBlock"}
        /\ pc'[Worker] \in {"findBlobBlocks", "nextBlobBlock", "deleteBlobBlock", "failed",
                            "nextStorageBlock", "idle", "deleteFile"}
    BY <1>1 DEF CollectBlobs, FindUnreferencedBlobBlocks, DeleteBlobBlockStorage,
                DeleteBlobBlock, FindUnreferencedStorageBlocks, FreeStorageBlock
  <2>3. LocatedSealed' /\ ReferencedSealed'
    BY <1>a, <2>1, TablesStay
  <2>4. CacheFollows' /\ FreeingEnds'
    BY <2>1, <2>2, CacheOfHousekeeping DEF Collecting, FreeingEnds
  <2> QED
    BY <1>c, <2>2, <2>3, <2>4 DEF Collecting
<1>2. CASE DeleteFile \/ RemoveBlockLocation
  <2>1. /\ UNCHANGED <<count, residual, info, refs, cache, freed>>
        /\ pc[Worker] \in {"deleteFile", "deleteLocation"}
        /\ pc'[Worker] \in {"unresidual", "deleteFile", "deleteLocation", "failed"}
    BY <1>2 DEF DeleteFile, RemoveBlockLocation
  <2>2. \/ locs' = locs /\ (files' = files
               \/ \E k \in targets : files' = [files EXCEPT ![s][k] = Blank])
        \/ files' = files /\ \E k \in targets : locs' = [locs EXCEPT ![s] = @ \ {k}]
    BY <1>2 DEF DeleteFile, RemoveBlockLocation
  <2>3. RefsTo(s) = {}
    BY <1>a, <2>1 DEF GarbageIsUnreferenced, Freeing
  <2>4. \A t \in StorageIds : t # s => locs'[t] = locs[t] /\ files'[t] = files[t]
    BY <1>b, <2>2
  <2>5. \A k \in locs'[s] : files'[s][k] \in {info[s], Blank}
    <3>1. locs'[s] \subseteq locs[s] /\ locs[s] \subseteq Backends
      BY <1>b, <2>2
    <3>2. \A k \in Backends : files'[s][k] \in {files[s][k], Blank}
      BY <1>b, <2>2
    <3> QED
      BY <1>a, <1>b, <3>1, <3>2 DEF LocatedSealed
  <2>6. LocatedSealed' /\ ReferencedSealed'
    BY <1>a, <1>b, <2>1, <2>3, <2>4, <2>5, UnreferencedChanges
  <2>7. CacheFollows' /\ FreeingEnds'
    BY <2>1, CacheOfHousekeeping DEF Collecting, FreeingEnds
  <2> QED
    BY <1>c, <2>1, <2>6, <2>7 DEF Collecting
<1>3. CASE DeleteResidual \/ InsertFreed
  <2>1. /\ UNCHANGED <<locs, files, info, refs, cache, blk>> /\ freed \subseteq freed'
    BY <1>3 DEF DeleteResidual, InsertFreed
  <2>2. /\ pc[Worker] \in {"unresidual", "insertFreed"}
        /\ \/ pc'[Worker] \in {"insertFreed", "failed"}
           \/ pc'[Worker] = "reset" /\ s \in freed'
    BY <1>3 DEF DeleteResidual, InsertFreed
  <2>3. LocatedSealed' /\ ReferencedSealed'
    BY <1>a, <2>1, TablesStay
  <2>4. CacheFollows'
    BY <2>1, <2>2, CacheOfHousekeeping DEF Collecting
  <2>5. FreeingEnds'
    BY <2>1, <2>2 DEF FreeingEnds
  <2> QED
    BY <1>c, <2>2, <2>3, <2>4, <2>5 DEF Collecting
<1>4. CASE ResetInfo
  <2>1. /\ UNCHANGED <<count, locs, files, residual, refs, cache, freed>>
        /\ info' = [info EXCEPT ![s] = Blank]
        /\ pc[Worker] = "reset" /\ pc'[Worker] = "nextStorageBlock"
    BY <1>4 DEF ResetInfo
  <2>2. s \in freed /\ RefsTo(s) = {} /\ locs[s] = {}
    BY <1>a, <2>1 DEF FreeingEnds, SpareRows, Spare
  <2>3. \A t \in StorageIds : t # s => info'[t] = info[t]
    BY <2>1
  <2>4. LocatedSealed' /\ ReferencedSealed'
    BY <1>a, <1>b, <2>1, <2>2, <2>3, UnreferencedChanges
  <2>5. CacheFollows'
    <3>1. \A t \in StorageIds \ freed : cache[t] \in {Blank, info[t]} /\ t # s
      BY <2>1, <2>2, CacheOfHousekeeping DEF Collecting
    <3> QED
      BY <2>1, <2>3, <3>1 DEF CacheFollows
  <2>6. FreeingEnds'
    BY <2>1 DEF FreeingEnds
  <2> QED
    BY <1>c, <2>1, <2>4, <2>5, <2>6 DEF Collecting
<1> QED
  BY <1>1, <1>2, <1>3, <1>4

\* The environment: a crash forgets the cache and where every process was.
LEMMA ReadEnv ==
    ASSUME TypeInv, HoldInv, ReadInv,
           \/ \E p \in Revisers : StartRevision(p)
           \/ FinishUpload \/ ExpireFiles \/ Crash \/ UNCHANGED vars
    PROVE  ReadInv'
<1> USE DEF tables, catalog, table, stores, memory, locals, combine, results, outside,
      others, Goto
<1> USE LocalTypes
<1>a. LocatedSealed /\ ReferencedSealed /\ CacheFollows /\ WritersProgress
  BY DEF ReadInv
<1>b. /\ UNCHANGED <<locs, residual, info, files, refs, freed, count>>
      /\ LocatedSealed' /\ ReferencedSealed' /\ Spare' = Spare
  <2>1. UNCHANGED <<locs, residual, info, files, refs, freed, count>>
    BY DEF StartRevision, FinishUpload, ExpireFiles, Crash, vars
  <2> QED
    BY <1>a, <2>1, TablesStay DEF Spare
<1>1. CASE FinishUpload \/ ExpireFiles \/ UNCHANGED vars
  <2>1. UNCHANGED <<pc, blk, buf, bb, job, rows, sources, pos, delta, moving, targets, cache>>
    BY <1>1 DEF FinishUpload, ExpireFiles, vars
  <2>2. CacheFollows'
    BY <1>a, <1>b, <2>1, CacheStays
  <2>3. WritersProgress' /\ CopyingProgress' /\ FreeingEnds'
    BY <1>b, <2>1 DEF ReadInv, WritersProgress, Wrote, Writing, UploadsStored, CopyingProgress,
                      FreeingEnds, RefsTo, Sealed, Plain
  <2>4. SourcesKept'
    BY <1>b, <2>1 DEF ReadInv, SourcesKept, Combining, Shifted
  <2> QED
    BY <1>b, <2>2, <2>3, <2>4 DEF ReadInv
<1>2. CASE Crash
  <2>1. /\ cache' = [t \in StorageIds |-> Blank] /\ pc'[Worker] = "idle"
        /\ \A p \in Procs : pc'[p] \in {"idle", "done"}
    BY <1>2 DEF Crash
  <2>2. CacheFollows'
    BY <2>1 DEF CacheFollows
  <2>3. WritersProgress'
    BY <2>1 DEF WritersProgress, Wrote, Writing, UploadsStored, StoreLabels, AcquiringOrWriting
  <2>4. pc'[Worker] \notin Working
    BY <2>1 DEF Working, StoreLabels, AcquiringOrWriting
  <2> QED
    BY <1>b, <2>2, <2>3, <2>4, Elsewhere DEF ReadInv
<1>3. CASE \E p \in Revisers : StartRevision(p)
  <2>1. PICK p \in Revisers : StartRevision(p)
    BY <1>3
  <2>2. p \in Procs /\ p # Worker
    BY WorkerIsNoReviser DEF Procs
  <2>3. /\ UNCHANGED <<blk, job, rows, sources, pos, delta, moving, targets, cache>>
        /\ pc[p] = "idle" /\ pc'[p] = "find" /\ buf'[p] = Plain(bb'[p])
        /\ \A q \in Procs : q # p => pc'[q] = pc[q] /\ bb'[q] = bb[q] /\ buf'[q] = buf[q]
    BY <2>1, <2>2 DEF StartRevision
  <2>4. CacheFollows'
    BY <1>a, <1>b, <2>3, CacheStays DEF Rewriting
  <2>5. ASSUME NEW q \in Procs
        PROVE  Wrote(q)' /\ UploadsStored(q)'
    <3>1. CASE q = p
      BY <2>3, <3>1 DEF Wrote, Writing, UploadsStored, Plain
    <3>2. CASE q # p
      <4>1. Wrote(q) /\ UploadsStored(q)
        BY <1>a DEF WritersProgress
      <4> QED
        BY <1>b, <2>3, <3>2, <4>1 DEF Wrote, Writing, UploadsStored, RefsTo, Sealed, Plain
    <3> QED
      BY <3>1, <3>2
  <2>6. CopyingProgress' /\ FreeingEnds'
    BY <1>b, <2>2, <2>3 DEF ReadInv, CopyingProgress, FreeingEnds
  <2>7. SourcesKept'
    BY <1>b, <2>2, <2>3 DEF ReadInv, SourcesKept, Combining, Shifted
  <2> QED
    BY <1>b, <2>4, <2>5, <2>6, <2>7 DEF ReadInv, WritersProgress
<1> QED
  BY <1>1, <1>2, <1>3

LEMMA ReadInvariant ==
    Spec /\ []Apart => [](TypeInv /\ FreeListDiscipline /\ HoldInv /\ ReadInv)
<1>1. Init => ReadInv
  <2> SUFFICES ASSUME Init PROVE ReadInv
    OBVIOUS
  <2>1. /\ refs = {} /\ residual = {} /\ \A p \in Procs : pc[p] = "idle"
        /\ locs = [s \in StorageIds |-> {}] /\ cache = [s \in StorageIds |-> Blank]
    BY DEF Init
  <2>2. LocatedSealed /\ ReferencedSealed /\ CacheFollows
    BY <2>1 DEF LocatedSealed, ReferencedSealed, CacheFollows
  <2>3. WritersProgress
    BY <2>1 DEF WritersProgress, Wrote, Writing, UploadsStored, StoreLabels, AcquiringOrWriting
  <2>4. CopyingProgress /\ SourcesKept /\ FreeingEnds
    BY <2>1 DEF CopyingProgress, SourcesKept, FreeingEnds, Combining, AcquiringOrWriting, Procs
  <2> QED
    BY <2>2, <2>3, <2>4 DEF ReadInv
<1>2. TypeInv /\ FreeListDiscipline /\ HoldInv /\ ReadInv /\ Apart /\ [Next]_vars => ReadInv'
  <2> SUFFICES ASSUME TypeInv, FreeListDiscipline, HoldInv, ReadInv, Apart, [Next]_vars
               PROVE  ReadInv'
    OBVIOUS
  <2>1. ASSUME NEW p \in Procs, Store(p) PROVE ReadInv'
    BY <2>1, ReadAcquire, ReadWrite, ReadLink DEF Store
  <2>2. CASE Work /\ ~Store(Worker)
    BY <2>2, ReadReplicate, ReadSources, ReadMove, ReadCollect DEF Work
  <2>3. CASE \/ \E p \in Revisers : StartRevision(p)
             \/ FinishUpload \/ ExpireFiles \/ Crash \/ UNCHANGED vars
    BY <2>3, ReadEnv
  <2> QED
    BY <2>1, <2>2, <2>3, StepKinds
<1> QED
  BY TypeInvariant, FreeListSafe, HoldInvariant, <1>1, <1>2, PTL DEF Spec

\* What a reference of the catalogue promises can be read, at every moment: some backend
\* holds the storage block, every backend that does has the bytes its iv and authTag
\* belong to, and they hold the blob block at the offset, while blocks are written by
\* any number of requests, replicated, combined and freed around it and the process
\* crashes anywhere in between, as long as no combination and no collection overlaps a
\* request that stores.
THEOREM ReferencedStaysReadable == Spec /\ []Apart => []ReferencesAreReadable
<1>1. TypeInv /\ HoldInv /\ ReadInv => ReferencesAreReadable
  BY ReferencedRows DEF ReadInv, ReferencedSealed, Sealed, ReferencesAreReadable, Spare
<1> QED
  BY ReadInvariant, <1>1, PTL

\* The decrypted copy in the cache is, under the same condition, never an old version of a
\* block that something refers to, although a block is freed, acquired again and
\* overwritten under its cache entry.
THEOREM CacheStaysCurrent == Spec /\ []Apart => []CacheIsCurrent
<1>1. TypeInv /\ HoldInv /\ ReadInv => CacheIsCurrent
  <2> SUFFICES ASSUME TypeInv, HoldInv, ReadInv, NEW r \in refs
               PROVE  cache[r.storageBlock] \in {Blank, info[r.storageBlock]}
    BY DEF CacheIsCurrent
  <2> DEFINE s == r.storageBlock
  <2>1. s \in StorageIds \ freed
    BY ReferencedRows DEF Spare
  <2>2. ASSUME NEW p \in Procs, pc[p] \in Rewriting PROVE s # blk[p]
    BY <2>2 DEF ReadInv, WritersProgress, Wrote, Writing, Rewriting, RefsTo
  <2> QED
    BY <2>1, <2>2 DEF ReadInv, CacheFollows
<1> QED
  BY ReadInvariant, <1>1, PTL

(***************************************************************************)
(* What is linked is stored.  Only without crashes: FindBlobBlock takes the *)
(* row of a blob block for its bytes, and a crash between AddBlobBlock and   *)
(* AddBlobBlockStorage leaves a row without them.                            *)
(***************************************************************************)
\* p has inserted the row of bb[p], and has not referenced its bytes yet.
StoresBytes(p) ==
    pc[p] \in AcquiringOrWriting \cup {"reference"} /\ (p = Worker => job.type = "upload-file")
StoringRow == \A p \in Procs : StoresBytes(p) \/ pc[p] = "link" => bb[p] \in blobBlocks

\* A row has its bytes, or somebody is storing them, or it is being deleted.
Deleting(b) == pc[Worker] = "deleteBlobBlock" /\ bb[Worker] = b
RowsStored ==
    \A b \in blobBlocks : \/ RefsOf(b) # {}
                          \/ \E p \in Procs : StoresBytes(p) /\ bb[p] = b
                          \/ Deleting(b)
LinkedHasRow == \A b \in BlobBlocks : link[b] # "none" => b \in blobBlocks

\* What the collector deletes is not linked again, ...
DoomedUnlinked ==
    /\ pc[Worker] \in {"nextBlobBlock", "deleteBlobBlock"} => \A b \in doomed : link[b] = "none"
    /\ pc[Worker] = "deleteBlobBlock" => bb[Worker] \in doomed /\ RefsOf(bb[Worker]) = {}

\* ... and a combination removes no reference it has not moved.
MovingKept ==
    pc[Worker] = "move" =>
        \A r \in RefsTo(rows[pos]) : r \in moving \/ RefsOf(r.blobBlock) \cap RefsTo(blk[Worker]) # {}

LinkInv == StoringRow /\ RowsStored /\ LinkedHasRow /\ DoomedUnlinked /\ MovingKept

\* Nothing stops a process between the free list and the reference.
LEMMA WritingSucceeds ==
    ASSUME TypeInv, ReadInv, NEW p \in Procs,
           \/ LockFreeList(p) \/ SelectFreed(p) \/ DeleteFreed(p) \/ CreateBlock(p)
           \/ StoreFile(p) \/ UpdateStorageBlockInfo(p) \/ AddBlockLocation(p)
           \/ PutOnResidualList(p) \/ QueryResidualBlockCount(p)
    PROVE  /\ UNCHANGED <<blobBlocks, link, refs>> /\ pc[p] \in AcquiringOrWriting
           /\ pc'[p] \in AcquiringOrWriting \cup {"reference", "refs"}
<1> USE DEF tables, catalog, table, Goto, Fail, AcquiringOrWriting
<1> USE LocalTypes
<1>1. Wrote(p)
  BY DEF ReadInv, WritersProgress
<1>2. CASE LockFreeList(p) \/ SelectFreed(p) \/ DeleteFreed(p) \/ CreateBlock(p)
  BY <1>2 DEF LockFreeList, SelectFreed, DeleteFreed, CreateBlock
<1>3. CASE StoreFile(p) \/ UpdateStorageBlockInfo(p) \/ PutOnResidualList(p)
  BY <1>1, <1>3 DEF StoreFile, UpdateStorageBlockInfo, PutOnResidualList, Wrote
<1>4. CASE AddBlockLocation(p) \/ QueryResidualBlockCount(p)
  BY <1>1, <1>4 DEF AddBlockLocation, QueryResidualBlockCount, EndWrite, Wrote
<1> QED
  BY <1>2, <1>3, <1>4

LEMMA LinkStore ==
    ASSUME TypeInv, HoldInv, ReadInv, LinkInv, Apart, NEW p \in Procs, Store(p)
    PROVE  LinkInv'
<1> USE DEF tables, catalog, table, stores, memory, locals, combine, results, outside,
      others, Goto, Fail, Return
<1> USE LocalTypes
<1>a. /\ StoringRow /\ RowsStored /\ LinkedHasRow /\ Wrote(p) /\ JobLabels /\ CombineControl
  BY DEF LinkInv, ReadInv, WritersProgress, HoldInv, TypeInv
<1>b. bb' = bb /\ \A q \in Procs : q # p => pc'[q] = pc[q] /\ (q = Worker => job' = job)
  BY <1>a, StoreControl, StoreIsApart
<1>c. pc[Worker] \notin Collecting /\ pc'[Worker] \notin Collecting \cup {"move"}
  BY <1>a, StoreIsApart, StoreControl DEF StoreLabels, AcquiringOrWriting
<1>d. DoomedUnlinked' /\ MovingKept' /\ \A b : ~Deleting(b)
  BY <1>c DEF DoomedUnlinked, MovingKept, Deleting, Collecting
<1>e. \A q \in Procs : q # p => StoresBytes(q)' = StoresBytes(q)
  BY <1>b DEF StoresBytes
<1>f. pc'[p] \notin {"idle", "done"} => job' = job
  BY StoreControl
<1>1. CASE FindBlobBlock(p) \/ AddBlobBlock(p)
  <2>1. /\ UNCHANGED <<link, refs>> /\ pc[p] \in {"find", "add"}
        /\ \/ blobBlocks' = blobBlocks /\ pc'[p] \in {"add", "find"}
           \/ blobBlocks' = blobBlocks /\ pc'[p] = "link" /\ bb[p] \in blobBlocks
           \/ blobBlocks' = blobBlocks \cup {bb[p]} /\ pc'[p] = "lock"
    BY <1>1 DEF FindBlobBlock, AddBlobBlock
  <2>2. p = Worker => job.type = "upload-file" /\ job' = job
    BY <1>a, <1>f, <2>1 DEF CombineControl
  <2>3. StoringRow'
    BY <1>a, <1>b, <1>e, <2>1 DEF StoringRow, StoresBytes, AcquiringOrWriting
  <2>4. ~StoresBytes(p) /\ (pc'[p] = "lock" => StoresBytes(p)')
    BY <2>1, <2>2 DEF StoresBytes, AcquiringOrWriting
  <2>5. RowsStored'
    <3> SUFFICES ASSUME NEW b \in blobBlocks'
                 PROVE  RefsOf(b)' # {} \/ \E q \in Procs : StoresBytes(q)' /\ bb'[q] = b
      BY DEF RowsStored
    <3>1. CASE b \in blobBlocks
      BY <1>a, <1>b, <1>d, <1>e, <2>1, <2>4, <3>1 DEF RowsStored, RefsOf
    <3>2. CASE b \notin blobBlocks
      BY <1>b, <2>1, <2>4, <3>2
    <3> QED
      BY <3>1, <3>2
  <2>6. LinkedHasRow'
    BY <1>a, <2>1 DEF LinkedHasRow
  <2> QED
    BY <1>d, <2>3, <2>5, <2>6 DEF LinkInv
<1>2. CASE \/ LockFreeList(p) \/ SelectFreed(p) \/ DeleteFreed(p) \/ CreateBlock(p)
           \/ StoreFile(p) \/ UpdateStorageBlockInfo(p) \/ AddBlockLocation(p)
           \/ PutOnResidualList(p) \/ QueryResidualBlockCount(p)
  <2>1. /\ UNCHANGED <<blobBlocks, link, refs>> /\ pc[p] \in AcquiringOrWriting
        /\ pc'[p] \in AcquiringOrWriting \cup {"reference", "refs"}
    BY <1>2, WritingSucceeds
  <2>2. job' = job /\ (pc'[p] = "refs" => p = Worker /\ job.type = "combine-residual-blocks")
    BY <1>f, <2>1, StoreControl DEF AcquiringOrWriting
  <2>3. StoresBytes(p)' = StoresBytes(p)
    BY <2>1, <2>2 DEF StoresBytes, AcquiringOrWriting
  <2>4. StoringRow'
    BY <1>a, <1>b, <1>e, <2>1, <2>3 DEF StoringRow, AcquiringOrWriting
  <2>5. RowsStored'
    <3>1. \A q \in Procs : StoresBytes(q)' = StoresBytes(q)
      BY <1>e, <2>3
    <3> QED
      BY <1>a, <1>b, <1>d, <2>1, <3>1 DEF RowsStored, RefsOf
  <2>6. LinkedHasRow'
    BY <1>a, <2>1 DEF LinkedHasRow
  <2> QED
    BY <1>d, <2>4, <2>5, <2>6 DEF LinkInv
<1>3. CASE AddBlobBlockStorage(p) \/ LinkBlob(p)
  <2>1. /\ blobBlocks' = blobBlocks /\ pc[p] \in {"reference", "link"}
        /\ pc'[p] \in {"link", "failed", "idle", "done"} /\ refs \subseteq refs'
    BY <1>3 DEF AddBlobBlockStorage, LinkBlob
  <2>2. ~StoresBytes(p)'
    BY <2>1 DEF StoresBytes, AcquiringOrWriting
  <2>3. p = Worker => job.type = "upload-file"
    BY <1>a, <2>1 DEF CombineControl
  <2>4. bb[p] \in blobBlocks
    BY <1>a, <2>1, <2>3 DEF StoringRow, StoresBytes
  <2>5. StoringRow'
    BY <1>a, <1>b, <1>e, <2>1, <2>2, <2>4 DEF StoringRow
  <2>6. pc[p] = "reference" => RefsOf(bb[p])' # {}
    <3> SUFFICES ASSUME pc[p] = "reference" PROVE RefsOf(bb[p])' # {}
      OBVIOUS
    <3> DEFINE r0 == [blobBlock |-> bb[p], storageBlock |-> blk[p], offset |-> 0]
    <3>1. RefsTo(blk[p]) = {}
      BY <1>a DEF Wrote, Writing
    <3>2. refs' = refs \cup {r0}
      BY <1>3, <2>4, <3>1 DEF AddBlobBlockStorage, LinkBlob
    <3>3. r0 \in refs' /\ r0.blobBlock = bb'[p]
      BY <1>b, <3>2
    <3> QED
      BY <3>3 DEF RefsOf
  <2>7. RowsStored'
    <3> SUFFICES ASSUME NEW b \in blobBlocks
                 PROVE  RefsOf(b)' # {} \/ \E q \in Procs : StoresBytes(q)' /\ bb'[q] = b
      BY <2>1 DEF RowsStored
    <3>1. \/ RefsOf(b) # {}
          \/ \E q \in Procs : StoresBytes(q) /\ bb[q] = b
      BY <1>a, <1>d DEF RowsStored
    <3>2. CASE RefsOf(b) # {}
      BY <2>1, <3>2 DEF RefsOf
    <3>3. ASSUME NEW q \in Procs, StoresBytes(q), bb[q] = b
          PROVE  RefsOf(b)' # {} \/ (StoresBytes(q)' /\ bb'[q] = b)
      <4>1. CASE q = p
        <5>1. pc[p] = "reference"
          BY <2>1, <3>3, <4>1 DEF StoresBytes, AcquiringOrWriting
        <5> QED
          BY <1>b, <2>6, <3>3, <4>1, <5>1 DEF RefsOf
      <4>2. CASE q # p
        BY <1>b, <1>e, <3>3, <4>2
      <4> QED
        BY <4>1, <4>2
    <3> QED
      BY <3>1, <3>2, <3>3
  <2>8. LinkedHasRow'
    <3>1. link' = link \/ link' = [link EXCEPT ![bb[p]] = "wanted"]
      BY <1>3 DEF AddBlobBlockStorage, LinkBlob
    <3> QED
      BY <1>a, <2>1, <2>4, <3>1 DEF LinkedHasRow, TypeInv, TypeOK, CatalogOK
  <2> QED
    BY <1>d, <2>5, <2>7, <2>8 DEF LinkInv
<1> QED
  BY <1>1, <1>2, <1>3 DEF Store

\* No other job leads into storing an upload.
LEMMA NoStoring ==
    ASSUME TypeInv, Work, ~Store(Worker), pc'[Worker] # "lock" \/ job'.type # "upload-file"
    PROVE  ~StoresBytes(Worker)' /\ pc'[Worker] # "link"
<1> USE LocalTypes
<1>1. pc'[Worker] \in {"idle", "failed", "find", "lock", "refs", "combine", "read", "move"}
          \cup Replicating \cup Collecting
  <2> USE DEF Goto, Fail, Return, Replicating, Collecting
  <2>1. CASE Deliver \/ QueryBlockLocations \/ CheckFreeList \/ FetchBlock \/ CopyFile
             \/ AddReplicaLocation
    BY <2>1 DEF Deliver, QueryBlockLocations, CheckFreeList, FetchBlock, CopyFile,
                AddReplicaLocation
  <2>2. CASE \/ QueryResidualBlocks \/ ReadSource \/ QueryBlobBlocksInStorageBlock
             \/ MoveReference \/ RemoveReferencesToStorageBlockId
    BY <2>2 DEF QueryResidualBlocks, ReadSource, QueryBlobBlocksInStorageBlock,
                MoveReference, RemoveReferencesToStorageBlockId
  <2>3. CASE \/ CollectBlobs \/ FindUnreferencedBlobBlocks \/ DeleteBlobBlockStorage
             \/ DeleteBlobBlock \/ FindUnreferencedStorageBlocks \/ FreeStorageBlock
             \/ DeleteFile \/ RemoveBlockLocation \/ DeleteResidual \/ InsertFreed
             \/ ResetInfo
    BY <2>3 DEF CollectBlobs, FindUnreferencedBlobBlocks, DeleteBlobBlockStorage,
                DeleteBlobBlock, FindUnreferencedStorageBlocks, FreeStorageBlock,
                DeleteFile, RemoveBlockLocation, DeleteResidual, InsertFreed, ResetInfo
  <2> QED
    BY <2>1, <2>2, <2>3 DEF Work
<1> QED
  BY <1>1 DEF StoresBytes, AcquiringOrWriting, Replicating, Collecting

\* What any other job leaves to show.
LEMMA LinkWork ==
    ASSUME TypeInv, HoldInv, LinkInv, Apart, Work, ~Store(Worker),
           pc'[Worker] # "lock" \/ job'.type # "upload-file",
           \/ blobBlocks' = blobBlocks
           \/ pc[Worker] \in Collecting /\ blobBlocks' \subseteq blobBlocks,
           \A b \in blobBlocks' : RefsOf(b) # {} \/ Deleting(b) => RefsOf(b)' # {} \/ Deleting(b)',
           LinkedHasRow', DoomedUnlinked', MovingKept'
    PROVE  LinkInv'
<1> USE LocalTypes
<1>a. /\ \A q \in Revisers : pc'[q] = pc[q] /\ bb'[q] = bb[q]
      /\ pc[Worker] \in {"idle"} \cup Replicating \cup Collecting
             \cup {"combine", "read", "refs", "move"}
  BY WorkControl DEF HoldInv
<1>b. \A q \in Revisers : q # Worker /\ q \in Procs /\ StoresBytes(q)' = StoresBytes(q)
  BY <1>a, WorkerIsNoReviser DEF StoresBytes, Procs
<1>c. ~StoresBytes(Worker)
  BY <1>a DEF StoresBytes, AcquiringOrWriting, Replicating, Collecting
<1>d. ~StoresBytes(Worker)' /\ pc'[Worker] # "link"
  BY NoStoring
<1>1. StoringRow'
  <2> SUFFICES ASSUME NEW q \in Revisers, StoresBytes(q)' \/ pc'[q] = "link"
               PROVE  bb'[q] \in blobBlocks'
    BY <1>d DEF StoringRow, Procs
  <2>1. bb[q] \in blobBlocks /\ bb'[q] = bb[q]
    BY <1>a, <1>b DEF LinkInv, StoringRow
  <2>2. Storing(q)
    BY <1>a, <1>b DEF Storing, Writing, StoresBytes, AcquiringOrWriting
  <2>3. pc[Worker] \notin Collecting
    BY <2>2, RequestsApart DEF HoldInv
  <2> QED
    BY <2>1, <2>3
<1>2. RowsStored'
  <2> SUFFICES ASSUME NEW b \in blobBlocks'
               PROVE  \/ RefsOf(b)' # {} \/ Deleting(b)'
                      \/ \E q \in Revisers : StoresBytes(q)' /\ bb'[q] = b
    BY <1>b DEF RowsStored
  <2>1. b \in blobBlocks
    OBVIOUS
  <2>2. \/ RefsOf(b) # {} \/ Deleting(b)
        \/ \E q \in Revisers : StoresBytes(q) /\ bb[q] = b
    BY <1>c, <2>1 DEF LinkInv, RowsStored, Procs
  <2> QED
    BY <1>a, <1>b, <2>2
<1> QED
  BY <1>1, <1>2 DEF LinkInv

LEMMA LinkJobs ==
    ASSUME TypeInv, HoldInv, ReadInv, LinkInv, Apart, Work, ~Store(Worker),
           \/ Deliver \/ QueryBlockLocations \/ CheckFreeList \/ FetchBlock \/ CopyFile
           \/ AddReplicaLocation \/ QueryResidualBlocks \/ ReadSource
           \/ QueryBlobBlocksInStorageBlock \/ MoveReference
           \/ RemoveReferencesToStorageBlockId
    PROVE  LinkInv'
<1> USE DEF tables, catalog, table, stores, memory, locals, combine, results, outside,
      others, Goto, Fail, Return
<1> USE LocalTypes
<1>a. LinkedHasRow /\ MovingKept /\ SourcesKept /\ CombineControl
  BY DEF LinkInv, ReadInv, TypeInv
<1>b. ASSUME UNCHANGED <<link, blobBlocks>>,
             pc[Worker] \notin Collecting, pc'[Worker] \notin Collecting \ {"collect"}
      PROVE  LinkedHasRow' /\ DoomedUnlinked' /\ \A b : ~Deleting(b)
  BY <1>a, <1>b DEF LinkedHasRow, DoomedUnlinked, Deleting, Collecting
<1>1. CASE Deliver \/ QueryBlockLocations \/ CheckFreeList \/ FetchBlock \/ CopyFile
           \/ AddReplicaLocation \/ QueryResidualBlocks \/ ReadSource
  <2>1. /\ UNCHANGED <<link, blobBlocks, refs>>
        /\ pc[Worker] \in {"idle", "locations", "checkFree", "fetch", "copy", "copied",
                           "combine", "read"}
        /\ pc'[Worker] \in {"find", "locations", "combine", "collect", "idle", "checkFree",
                            "fetch", "failed", "copy", "copied", "read", "lock"}
        /\ pc'[Worker] = "lock" => pc[Worker] = "read" /\ job' = job
    BY <1>1 DEF Deliver, QueryBlockLocations, CheckFreeList, FetchBlock, CopyFile,
                AddReplicaLocation, QueryResidualBlocks, ReadSource
  <2>2. pc'[Worker] # "lock" \/ job'.type # "upload-file"
    BY <1>a, <2>1 DEF CombineControl
  <2>3. LinkedHasRow' /\ DoomedUnlinked' /\ \A b : ~Deleting(b)
    BY <1>b, <2>1 DEF Collecting
  <2>4. MovingKept'
    BY <2>1 DEF MovingKept
  <2>5. \A b \in blobBlocks' : RefsOf(b) # {} => RefsOf(b)' # {}
    BY <2>1 DEF RefsOf
  <2> QED
    BY <2>1, <2>2, <2>3, <2>4, <2>5, LinkWork
<1>2. CASE QueryBlobBlocksInStorageBlock \/ MoveReference \/ RemoveReferencesToStorageBlockId
  <2>1. /\ UNCHANGED <<link, blobBlocks, rows, blk, sources>>
        /\ pc[Worker] \in {"refs", "move"}
        /\ pc'[Worker] \in {"refs", "move", "failed", "idle"}
    BY <1>2 DEF QueryBlobBlocksInStorageBlock, MoveReference, RemoveReferencesToStorageBlockId
  <2>2. LinkedHasRow' /\ DoomedUnlinked' /\ \A b : ~Deleting(b)
    BY <1>b, <2>1 DEF Collecting
  <2>3. pc[Worker] = "move" => rows[pos] # blk[Worker]
    BY <1>a DEF SourcesKept, Combining, UsesBlock, CombineControl
  <2>4. CASE QueryBlobBlocksInStorageBlock
    <3>1. refs' = refs /\ moving' = RefsTo(rows[pos'])
      BY <2>4 DEF QueryBlobBlocksInStorageBlock
    <3>2. MovingKept'
      BY <2>1, <3>1 DEF MovingKept, RefsTo
    <3>3. \A b \in blobBlocks' : RefsOf(b) # {} => RefsOf(b)' # {}
      BY <3>1 DEF RefsOf
    <3> QED
      BY <2>1, <2>2, <3>2, <3>3, LinkWork
  <2>5. CASE MoveReference
    <3>1. pos' = pos /\ pc[Worker] = "move"
      BY <2>5 DEF MoveReference
    <3>2. PICK r \in moving :
              /\ moving' = moving \ {r}
              /\ \/ pc'[Worker] = "failed" /\ refs' = refs
                 \/ refs' = refs \cup {[blobBlock |-> r.blobBlock, storageBlock |-> blk[Worker],
                                        offset |-> MovedOffset(r)]}
      BY <2>5 DEF MoveReference
    <3>3. MovingKept'
      <4> SUFFICES ASSUME pc'[Worker] = "move", NEW m \in refs', m.storageBlock = rows[pos]
                   PROVE  m \in moving' \/ \E n \in refs' : /\ n.blobBlock = m.blobBlock
                                                            /\ n.storageBlock = blk[Worker]
        BY <2>1, <3>1 DEF MovingKept, RefsTo, RefsOf
      <4> DEFINE r0 == [blobBlock |-> r.blobBlock, storageBlock |-> blk[Worker],
                        offset |-> MovedOffset(r)]
      <4>1. refs' = refs \cup {r0} /\ r0.blobBlock = r.blobBlock /\ r0.storageBlock = blk[Worker]
        BY <3>2
      <4>2. m \in refs
        BY <2>3, <3>1, <4>1
      <4>3. \/ m \in moving
            \/ \E n \in refs : n.blobBlock = m.blobBlock /\ n.storageBlock = blk[Worker]
        BY <1>a, <3>1, <4>2 DEF MovingKept, RefsTo, RefsOf
      <4> QED
        BY <3>2, <4>1, <4>3
    <3>4. \A b \in blobBlocks' : RefsOf(b) # {} => RefsOf(b)' # {}
      BY <3>2 DEF RefsOf
    <3> QED
      BY <2>1, <2>2, <3>3, <3>4, LinkWork
  <2>6. CASE RemoveReferencesToStorageBlockId
    <3>1. /\ refs' = refs \ RefsTo(rows[pos]) /\ pc[Worker] = "move" /\ moving = {}
          /\ pc'[Worker] \in {"refs", "idle"}
      BY <2>6 DEF RemoveReferencesToStorageBlockId
    <3>2. MovingKept'
      BY <3>1 DEF MovingKept
    <3>3. ASSUME NEW b \in blobBlocks', NEW r \in RefsOf(b)
          PROVE  RefsOf(b)' # {}
      <4>1. CASE r \in RefsTo(rows[pos])
        <5>1. PICK n \in refs : n.blobBlock = b /\ n.storageBlock = blk[Worker]
          BY <1>a, <3>1, <4>1 DEF MovingKept, RefsTo, RefsOf
        <5>2. n \in refs'
          BY <2>3, <3>1, <5>1 DEF RefsTo
        <5> QED
          BY <5>1, <5>2 DEF RefsOf
      <4>2. CASE r \notin RefsTo(rows[pos])
        BY <3>1, <4>2 DEF RefsOf
      <4> QED
        BY <4>1, <4>2
    <3>4. \A b \in blobBlocks' : RefsOf(b) # {} => RefsOf(b)' # {}
      BY <3>3
    <3> QED
      BY <2>1, <2>2, <3>2, <3>4, LinkWork
  <2> QED
    BY <1>2, <2>4, <2>5, <2>6
<1> QED
  BY <1>1, <1>2

LEMMA LinkCollect ==
    ASSUME TypeInv, HoldInv, LinkInv, Apart, Work, ~Store(Worker),
           \/ CollectBlobs \/ FindUnreferencedBlobBlocks \/ DeleteBlobBlockStorage
           \/ DeleteBlobBlock \/ FindUnreferencedStorageBlocks \/ FreeStorageBlock
           \/ DeleteFile \/ RemoveBlockLocation \/ DeleteResidual \/ InsertFreed
           \/ ResetInfo
    PROVE  LinkInv'
<1> USE DEF tables, catalog, table, stores, memory, locals, combine, results, outside,
      others, Goto, Fail, Return
<1> USE LocalTypes
<1>a. LinkedHasRow /\ DoomedUnlinked
  BY DEF LinkInv
<1>b. link \in [BlobBlocks -> {"none", "wanted", "expired"}]
  BY DEF TypeInv, TypeOK, CatalogOK
<1>c. ASSUME pc'[Worker] \in Collecting \cup {"idle", "failed"}
      PROVE  MovingKept' /\ pc'[Worker] # "lock"
  BY <1>c DEF MovingKept, Collecting
<1>1. CASE CollectBlobs \/ FindUnreferencedBlobBlocks
  <2>1. /\ UNCHANGED <<blobBlocks, refs>> /\ pc[Worker] \in {"collect", "findBlobBlocks"}
        /\ \/ pc'[Worker] = "findBlobBlocks"
              /\ link' = [b \in BlobBlocks |-> IF link[b] = "expired" THEN "none" ELSE link[b]]
           \/ pc'[Worker] = "nextBlobBlock" /\ link' = link
              /\ doomed' = {b \in blobBlocks : link[b] = "none"}
    BY <1>1 DEF CollectBlobs, FindUnreferencedBlobBlocks
  <2>2. LinkedHasRow'
    BY <1>a, <1>b, <2>1 DEF LinkedHasRow
  <2>3. DoomedUnlinked'
    BY <2>1 DEF DoomedUnlinked
  <2>4. \A b \in blobBlocks' : RefsOf(b) # {} \/ Deleting(b) => RefsOf(b)' # {}
    BY <2>1 DEF RefsOf, Deleting
  <2> QED
    BY <1>c, <2>1, <2>2, <2>3, <2>4, LinkWork DEF Collecting
<1>2. CASE DeleteBlobBlockStorage
  <2>1. PICK d \in doomed : bb' = [bb EXCEPT ![Worker] = d] /\ refs' = refs \ RefsOf(d)
    BY <1>2 DEF DeleteBlobBlockStorage
  <2>2. /\ UNCHANGED <<blobBlocks, link, doomed>> /\ bb'[Worker] = d
        /\ pc[Worker] = "nextBlobBlock" /\ pc'[Worker] = "deleteBlobBlock"
    BY <1>2, <2>1 DEF DeleteBlobBlockStorage
  <2>3. LinkedHasRow'
    BY <1>a, <2>2 DEF LinkedHasRow
  <2>4. DoomedUnlinked'
    <3>1. RefsOf(bb[Worker])' = {}
      BY <2>1, <2>2 DEF RefsOf
    <3> QED
      BY <1>a, <2>1, <2>2, <3>1 DEF DoomedUnlinked
  <2>5. \A b \in blobBlocks' : RefsOf(b) # {} \/ Deleting(b) => RefsOf(b)' # {} \/ Deleting(b)'
    <3>1. \A b : Deleting(b)' <=> b = d
      BY <2>2 DEF Deleting
    <3>2. \A b : b # d => RefsOf(b) \subseteq refs'
      BY <2>1 DEF RefsOf
    <3>3. \A b : b # d /\ RefsOf(b) # {} => RefsOf(b)' # {}
      BY <3>2 DEF RefsOf
    <3> QED
      BY <2>2, <3>1, <3>3 DEF Deleting
  <2> QED
    BY <1>c, <2>2, <2>3, <2>4, <2>5, LinkWork DEF Collecting
<1>3. CASE DeleteBlobBlock
  <2>1. /\ pc[Worker] = "deleteBlobBlock" /\ bb[Worker] \in doomed
        /\ link[bb[Worker]] = "none" /\ RefsOf(bb[Worker]) = {}
        /\ \A b \in doomed : link[b] = "none"
    BY <1>3, <1>a DEF DeleteBlobBlock, DoomedUnlinked
  <2>2. /\ blobBlocks' = blobBlocks \ {bb[Worker]} /\ doomed' = doomed \ {bb[Worker]}
        /\ pc'[Worker] = "nextBlobBlock" /\ UNCHANGED <<link, refs>>
    BY <1>3, <2>1 DEF DeleteBlobBlock
  <2>3. LinkedHasRow' /\ DoomedUnlinked'
    BY <1>a, <2>1, <2>2 DEF LinkedHasRow, DoomedUnlinked
  <2>4. \A b \in blobBlocks' : RefsOf(b) # {} \/ Deleting(b) => RefsOf(b)' # {}
    BY <2>2 DEF RefsOf, Deleting
  <2> QED
    BY <1>c, <2>1, <2>2, <2>3, <2>4, LinkWork DEF Collecting
<1>4. CASE \/ FindUnreferencedStorageBlocks \/ FreeStorageBlock \/ DeleteFile
           \/ RemoveBlockLocation \/ DeleteResidual \/ InsertFreed \/ ResetInfo
  <2> USE DEF FindUnreferencedStorageBlocks, FreeStorageBlock, DeleteFile,
              RemoveBlockLocation, DeleteResidual, InsertFreed, ResetInfo
  <2>1. UNCHANGED <<blobBlocks, link, refs>>
    BY <1>4
  <2>2. /\ pc[Worker] \in Collecting \ {"deleteBlobBlock"}
        /\ pc'[Worker] \in (Collecting \cup {"idle", "failed"}) \ {"nextBlobBlock", "deleteBlobBlock"}
    BY <1>4 DEF Collecting
  <2>3. LinkedHasRow' /\ DoomedUnlinked'
    BY <1>a, <2>1, <2>2 DEF LinkedHasRow, DoomedUnlinked
  <2>4. \A b \in blobBlocks' : RefsOf(b) # {} \/ Deleting(b) => RefsOf(b)' # {}
    BY <2>1, <2>2 DEF RefsOf, Deleting
  <2> QED
    BY <1>c, <2>1, <2>2, <2>3, <2>4, LinkWork
<1> QED
  BY <1>1, <1>2, <1>3, <1>4

\* A request begins; an upload is complete; files expire.
LEMMA LinkEnv ==
    ASSUME TypeInv, LinkInv,
           \/ \E p \in Revisers : StartRevision(p)
           \/ FinishUpload \/ ExpireFiles \/ UNCHANGED vars
    PROVE  LinkInv'
<1> USE DEF tables, catalog, table, stores, memory, locals, combine, results, outside,
      others, Goto
<1> USE LocalTypes
<1>1. /\ UNCHANGED <<blobBlocks, refs, doomed, moving, rows, pos, blk, job>>
      /\ pc'[Worker] = pc[Worker] /\ bb'[Worker] = bb[Worker]
  BY WorkerIsNoReviser DEF StartRevision, FinishUpload, ExpireFiles, vars, Procs
<1>2. \A p \in Procs : \/ pc'[p] = pc[p] /\ bb'[p] = bb[p]
                       \/ pc[p] = "idle" /\ pc'[p] = "find"
  BY DEF StartRevision, FinishUpload, ExpireFiles, vars
<1>3. /\ \A p \in Procs : StoresBytes(p)' \/ pc'[p] = "link" =>
             bb'[p] = bb[p] /\ pc'[p] = pc[p] /\ (StoresBytes(p)' => StoresBytes(p))
      /\ \A p \in Procs : StoresBytes(p) => StoresBytes(p)' /\ bb'[p] = bb[p]
  BY <1>1, <1>2 DEF StoresBytes, AcquiringOrWriting
<1>4. StoringRow' /\ RowsStored'
  <2>1. StoringRow'
    BY <1>1, <1>3 DEF LinkInv, StoringRow
  <2>2. RowsStored'
    BY <1>1, <1>3 DEF LinkInv, RowsStored, RefsOf, Deleting
  <2> QED
    BY <2>1, <2>2
<1>5. MovingKept'
  BY <1>1 DEF LinkInv, MovingKept, RefsTo, RefsOf
<1>6. LinkedHasRow' /\ DoomedUnlinked'
  <2>1. \A b \in BlobBlocks : link'[b] = link[b] \/ (link[b] = "wanted" /\ link'[b] = "expired")
    BY DEF StartRevision, FinishUpload, ExpireFiles, vars, TypeInv, TypeOK, CatalogOK
  <2>2. LinkedHasRow'
    BY <1>1, <2>1 DEF LinkInv, LinkedHasRow
  <2>3. DoomedUnlinked'
    BY <1>1, <2>1 DEF LinkInv, DoomedUnlinked, RefsOf, TypeInv, TypeOK, ResultsOK
  <2> QED
    BY <2>2, <2>3
<1> QED
  BY <1>4, <1>5, <1>6 DEF LinkInv

LEMMA LinkInvariant ==
    ASSUME MaxCrashes = 0
    PROVE  Spec /\ []Apart => [](TypeInv /\ FreeListDiscipline /\ HoldInv /\ ReadInv /\ LinkInv)
<1>1. Init => LinkInv
  <2> SUFFICES ASSUME Init PROVE LinkInv
    OBVIOUS
  <2>1. /\ \A p \in Procs : pc[p] = "idle"
        /\ blobBlocks = {} /\ link = [b \in BlobBlocks |-> "none"]
    BY DEF Init
  <2>2. StoringRow /\ RowsStored /\ LinkedHasRow
    BY <2>1 DEF StoringRow, StoresBytes, AcquiringOrWriting, RowsStored, LinkedHasRow
  <2>3. DoomedUnlinked /\ MovingKept
    BY <2>1 DEF DoomedUnlinked, MovingKept, Procs
  <2> QED
    BY <2>2, <2>3 DEF LinkInv
<1>2. TypeInv /\ HoldInv /\ ReadInv /\ LinkInv /\ Apart /\ [Next]_vars => LinkInv'
  <2> SUFFICES ASSUME TypeInv, HoldInv, ReadInv, LinkInv, Apart, [Next]_vars
               PROVE  LinkInv'
    OBVIOUS
  <2>1. ASSUME NEW p \in Procs, Store(p) PROVE LinkInv'
    BY <2>1, LinkStore
  <2>2. CASE Work /\ ~Store(Worker)
    BY <2>2, LinkJobs, LinkCollect DEF Work
  <2>3. CASE \/ \E p \in Revisers : StartRevision(p)
             \/ FinishUpload \/ ExpireFiles \/ UNCHANGED vars
    BY <2>3, LinkEnv
  <2>4. ~Crash
    BY DEF Crash, TypeInv, TypeOK, OutsideOK
  <2> QED
    BY <2>1, <2>2, <2>3, <2>4, StepKinds
<1> QED
  BY ReadInvariant, <1>1, <1>2, PTL DEF Spec

\* Without crashes, and as long as no combination and no collection overlaps a request
\* that stores, a blob block that a file wants has its bytes in some storage block, or
\* they are being stored: the collector deletes no reference of it, a combination removes
\* none it has not moved, and no writer gives up half way.
THEOREM WantedIsStored ==
    ASSUME MaxCrashes = 0
    PROVE  Spec /\ []Apart => []LinkedIsStoredOrComing
<1>1. TypeInv /\ LinkInv => LinkedIsStoredOrComing
  <2> SUFFICES ASSUME TypeInv, LinkInv, NEW b \in BlobBlocks,
                      link[b] = "wanted", RefsOf(b) = {}
               PROVE  \E p \in Procs : bb[p] = b /\ (Writing(p) \/ pc[p] \in
                                            {"lock", "select", "unfree", "create"})
    BY DEF LinkedIsStoredOrComing
  <2>1. b \in blobBlocks
    BY DEF LinkInv, LinkedHasRow
  <2>2. ~Deleting(b)
    BY DEF LinkInv, DoomedUnlinked, Deleting
  <2>3. PICK p \in Procs : StoresBytes(p) /\ bb[p] = b
    BY <2>1, <2>2 DEF LinkInv, RowsStored
  <2> QED
    BY <2>3 DEF StoresBytes, AcquiringOrWriting, Writing
<1> QED
  BY LinkInvariant, <1>1, PTL

(***************************************************************************)
(* The job worker alone (Revisers = {}), and without crashes: no job throws, *)
(* and what a job leaves to be done is queued.                              *)
(***************************************************************************)
\* A row that is not spare has its bytes, outside of writing and of freeing it.
Filled(s) == Sealed(s) /\ info[s].data # {}
Emptied == {"store", "info", "location"} \cup Freeing
RowsFilled ==
    \A s \in StorageIds \ Spare : Filled(s) \/ (s = blk[Worker] /\ pc[Worker] \in Emptied)

\* Replicate jobs are about rows there are, and copy to backends without the block.
Queued(j) == \E i \in 1..Len(queue) : queue[i] = j
ReplicatedRows ==
    /\ \A s \in StorageIds : Queued(ReplicateJob(s)) => s <= count
    /\ pc[Worker] \in Replicating => blk[Worker] <= count
    /\ pc[Worker] \in {"fetch", "copy", "copied"} => targets \cap locs[blk[Worker]] = {}
    /\ pc[Worker] = "checkFree" => locs[blk[Worker]] = {}

\* A blob block lies in one storage block, except for the one whose reference a
\* combination has just moved.
OneReference ==
    /\ \A r \in refs : r.blobBlock \in blobBlocks
    /\ \A q, r \in refs : q.blobBlock = r.blobBlock =>
           \/ q = r
           \/ /\ pc[Worker] = "move" /\ q \notin moving /\ r \notin moving
              /\ \/ q.storageBlock = blk[Worker] /\ r.storageBlock = rows[pos]
                 \/ r.storageBlock = blk[Worker] /\ q.storageBlock = rows[pos]
    /\ StoresBytes(Worker) => RefsOf(bb[Worker]) = {}

\* What is freed is neither free nor gone already.
GarbageHeld ==
    /\ pc[Worker] \in Freeing \cup {"nextStorageBlock", "reset"} => garbage \cap freed = {}
    /\ pc[Worker] \in Freeing => blk[Worker] \notin freed \cup garbage
    /\ pc[Worker] \in {"deleteFile", "deleteLocation"} =>
           \A k \in targets : \/ files[blk[Worker]][k] # Blank
                              \/ pc[Worker] = "deleteLocation" /\ IsLeast(k, targets)

FineInv ==
    /\ RowsFilled /\ ReplicatedRows /\ OneReference /\ GarbageHeld /\ WorkerNeverFails

\* What remains to be done is queued, or the worker is at it.
Enough(ks) == Cardinality(ks) >= MAX_REPLICATION \/ ks = Backends
ReplicasComing ==
    /\ \A s \in StorageIds \ Spare :
           \/ Enough(locs[s]) \/ Queued(ReplicateJob(s))
           \/ s = blk[Worker] /\ pc[Worker] \in Replicating \cup Rewriting \cup Freeing
    /\ pc[Worker] \in {"fetch", "copy", "copied"} => Enough(locs[blk[Worker]] \cup targets)

CollectionComing ==
    \A s \in StorageIds \ Spare :
        \/ RefsTo(s) # {} \/ Queued(CollectJob)
        \/ pc[Worker] \in {"refs", "move", "collect", "findBlobBlocks", "nextBlobBlock",
                           "deleteBlobBlock"}
        \/ s = blk[Worker] /\ (Writing(Worker) \/ pc[Worker] \in Freeing)
        \/ s \in garbage /\ pc[Worker] \in Freeing \cup {"nextStorageBlock", "reset"}

TidyInv == ReplicasComing /\ CollectionComing

LEMMA Alone ==
    ASSUME Revisers = {}
    PROVE  Procs = {Worker} /\ Apart
  BY DEF Procs, Apart

\* Sending appends to the queue, delivering takes its first job.
LEMMA Sent ==
    ASSUME TypeInv, NEW jobs \in Seq(Jobs), queue' = queue \o jobs
    PROVE  \A j : Queued(j)' <=> Queued(j) \/ \E i \in 1..Len(jobs) : jobs[i] = j
<1>1. queue \in Seq(Jobs)
  BY DEF TypeInv, TypeOK, ControlOK
<1>2. Len(queue') = Len(queue) + Len(jobs) /\ Len(queue) \in Nat /\ Len(jobs) \in Nat
  BY <1>1
<1>3. \A i \in 1..Len(queue) : i \in 1..Len(queue') /\ queue'[i] = queue[i]
  BY <1>1, <1>2
<1>4. \A i \in 1..Len(jobs) :
          Len(queue) + i \in 1..Len(queue') /\ queue'[Len(queue) + i] = jobs[i]
  BY <1>1, <1>2
<1>5. ASSUME NEW i \in 1..Len(queue')
      PROVE  \/ i \in 1..Len(queue) /\ queue'[i] = queue[i]
             \/ i - Len(queue) \in 1..Len(jobs) /\ queue'[i] = jobs[i - Len(queue)]
  BY <1>1, <1>2
<1> QED
  BY <1>3, <1>4, <1>5 DEF Queued

LEMMA SentOne ==
    ASSUME TypeInv, NEW k \in Jobs, Send(<<k>>)
    PROVE  \A j : Queued(j)' <=> Queued(j) \/ j = k
<1>1. <<k>> \in Seq(Jobs) /\ Len(<<k>>) = 1 /\ <<k>>[1] = k
  OBVIOUS
<1>2. \A j : Queued(j)' <=> Queued(j) \/ \E i \in 1..1 : <<k>>[i] = j
  BY <1>1, Sent DEF Send
<1> QED
  BY <1>1, <1>2

LEMMA Delivered ==
    ASSUME TypeInv, Deliver
    PROVE  /\ \A j : Queued(j)' => Queued(j)
           /\ \A j : Queued(j) => Queued(j)' \/ j = job'
           /\ Queued(job')
<1>1. queue \in Seq(Jobs) /\ queue # <<>> /\ job' = Head(queue) /\ queue' = Tail(queue)
  BY DEF Deliver, TypeInv, TypeOK, ControlOK
<1>2. Len(queue) \in Nat \ {0} /\ job' = queue[1] /\ Len(queue') = Len(queue) - 1
  BY <1>1
<1>3. \A i \in 1..Len(queue') : i + 1 \in 1..Len(queue) /\ queue'[i] = queue[i + 1]
  BY <1>1, <1>2
<1>4. ASSUME NEW i \in 1..Len(queue)
      PROVE  queue[i] = job' \/ (i - 1 \in 1..Len(queue') /\ queue'[i - 1] = queue[i])
  BY <1>1, <1>2
<1>5. \A j : Queued(j)' => Queued(j)
  BY <1>3 DEF Queued
<1>6. \A j : Queued(j) => Queued(j)' \/ j = job'
  BY <1>4 DEF Queued
<1>7. Queued(job')
  BY <1>2 DEF Queued
<1> QED
  BY <1>5, <1>6, <1>7

LEMMA WrittenQueue ==
    ASSUME TypeInv, NEW p \in Procs, NEW jobs \in {<<>>, <<CombineJob>>}, EndWrite(p, jobs)
    PROVE  /\ \A j : Queued(j) => Queued(j)'
           /\ \A s : Queued(ReplicateJob(s))' => Queued(ReplicateJob(s)) \/ s = blk[p]
           /\ \A s : s = blk[p] => Queued(ReplicateJob(s))'
<1> SUFFICES ASSUME NEW k, k = ReplicateJob(blk[p])
             PROVE  /\ \A j : Queued(j) => Queued(j)'
                    /\ \A s : Queued(ReplicateJob(s))' => Queued(ReplicateJob(s)) \/ s = blk[p]
                    /\ \A s : s = blk[p] => Queued(ReplicateJob(s))'
  OBVIOUS
<1>1. k \in Jobs /\ CombineJob \in Jobs
  BY LocalTypes, JobsAreJobs
<1>2. queue' = queue \o Append(jobs, k)
  BY DEF EndWrite, Send
<1>3. \A s : ReplicateJob(s) # CombineJob /\ (ReplicateJob(s) = k => s = blk[p])
  <2>1. \A s : ReplicateJob(s).type = "replicate" /\ ReplicateJob(s).storageBlock = s
    BY DEF ReplicateJob
  <2>2. CombineJob.type = "combine-residual-blocks"
    BY DEF CombineJob
  <2> QED
    BY <2>1, <2>2
<1>4. CASE jobs = <<>>
  <2>1. queue' = queue \o <<k>>
    BY <1>2, <1>4
  <2>2. \A j : Queued(j)' <=> Queued(j) \/ j = k
    BY <1>1, <2>1, SentOne DEF Send
  <2> QED
    BY <1>3, <2>2
<1>5. CASE jobs = <<CombineJob>>
  <2> DEFINE sent == Append(jobs, k)
  <2>1. sent \in Seq(Jobs) /\ Len(sent) = 2 /\ sent[1] = CombineJob /\ sent[2] = k
    BY <1>1, <1>5
  <2>2. queue' = queue \o sent
    BY <1>2
  <2> HIDE DEF sent
  <2>3. \A j : Queued(j)' <=> Queued(j) \/ \E i \in 1..Len(sent) : sent[i] = j
    BY <2>1, <2>2, Sent
  <2>4. \A j : Queued(j)' <=> Queued(j) \/ j = CombineJob \/ j = k
    <3>1. ASSUME NEW j PROVE (\E i \in 1..Len(sent) : sent[i] = j) <=> (j = CombineJob \/ j = k)
      BY <2>1
    <3> QED
      BY <2>3, <3>1
  <2> QED
    BY <1>3, <2>4
<1> QED
  BY <1>4, <1>5

\* What a step that does not write leaves as it was.
LEMMA RowsStay ==
    ASSUME RowsFilled, UNCHANGED <<locs, info, files>>, Spare \subseteq Spare',
           pc[Worker] \in Emptied => pc'[Worker] \in Emptied /\ blk'[Worker] = blk[Worker]
    PROVE  RowsFilled'
  BY DEF RowsFilled, Filled, Sealed

LEMMA OneStays ==
    ASSUME OneReference, refs' = refs, blobBlocks \subseteq blobBlocks', pc[Worker] # "move",
           StoresBytes(Worker)' => RefsOf(bb'[Worker]) = {}
    PROVE  OneReference'
  BY DEF OneReference, RefsOf

\* The worker never writes an empty content.
LEMMA WrittenIsFilled ==
    ASSUME TypeInv, ReadInv, RowsFilled, pc[Worker] = "location"
    PROVE  buf[Worker].data # {}
<1> USE LocalTypes
<1>a. CombineControl /\ SourcesKept /\ UploadsStored(Worker)
  BY DEF TypeInv, ReadInv, WritersProgress
<1>1. CASE job.type = "upload-file"
  <2>1. buf[Worker] = Plain(bb[Worker])
    BY <1>a, <1>1 DEF UploadsStored, StoreLabels, AcquiringOrWriting
  <2>2. <<bb[Worker], 0>> \in Plain(bb[Worker]).data
    BY DEF Plain
  <2> QED
    BY <2>1, <2>2
<1>2. CASE job.type # "upload-file"
  <2>1. PICK i \in sources : TRUE
    BY <1>a, <1>2 DEF CombineControl, AcquiringOrWriting
  <2>2. Combining
    BY <1>a, <1>2 DEF CombineControl, AcquiringOrWriting, Combining
  <2>3. /\ rows[i] \notin Spare /\ rows[i] # blk[Worker] /\ rows[i] \in StorageIds
        /\ Shifted(info[rows[i]], delta[rows[i]]) \subseteq buf[Worker].data
    BY <1>a, <2>2, SourceIds DEF SourcesKept, UsesBlock
  <2>4. info[rows[i]].data # {}
    BY <2>3 DEF RowsFilled, Filled
  <2>5. PICK x \in info[rows[i]].data : TRUE
    BY <2>4
  <2>6. <<x[1], x[2] + delta[rows[i]]>> \in Shifted(info[rows[i]], delta[rows[i]])
    BY DEF Shifted
  <2> QED
    BY <2>3, <2>6
<1> QED
  BY <1>1, <1>2

LEMMA FineStore ==
    ASSUME TypeInv, FreeListDiscipline, HoldInv, ReadInv, LinkInv, FineInv, Apart,
           ReadInv', Store(Worker)
    PROVE  FineInv'
<1> USE DEF tables, catalog, table, stores, memory, locals, combine, results, outside,
      others, Goto, Fail, Return
<1> USE LocalTypes
<1>a. /\ RowsFilled /\ ReplicatedRows /\ OneReference /\ Wrote(Worker) /\ Wrote(Worker)'
      /\ CombineControl /\ StoringRow
  BY DEF FineInv, ReadInv, WritersProgress, TypeInv, LinkInv
<1>b. /\ pc[Worker] \in StoreLabels /\ bb' = bb /\ buf' = buf
      /\ pc'[Worker] \in StoreLabels \cup {"refs", "idle", "done", "failed"}
      /\ pc'[Worker] \notin Collecting
      /\ pc'[Worker] \notin {"idle", "done"} => job' = job
  BY StoreControl, StoreIsApart DEF HoldInv
<1>c. GarbageHeld' /\ pc[Worker] # "move" /\ pc'[Worker] \notin {"move"} \cup Replicating
  BY <1>b DEF GarbageHeld, Freeing, Collecting, StoreLabels, AcquiringOrWriting, Replicating
<1>d. ASSUME \A s \in StorageIds : Queued(ReplicateJob(s))' => s <= count'
      PROVE  ReplicatedRows'
  BY <1>c, <1>d DEF ReplicatedRows, Replicating
<1>e. ASSUME queue' = queue, count' \in Nat, count <= count' PROVE ReplicatedRows'
  <2>1. ASSUME NEW s \in StorageIds, Queued(ReplicateJob(s))' PROVE s <= count'
    <3>1. s <= count /\ s \in Nat
      BY <1>a, <1>e, <2>1 DEF ReplicatedRows, Queued, StorageIds
    <3> QED
      BY <1>e, <3>1
  <2> QED
    BY <1>d, <2>1
<1>1. CASE FindBlobBlock(Worker) \/ AddBlobBlock(Worker)
  <2>1. /\ UNCHANGED <<refs, locs, info, files, freed, count, queue, job>>
        /\ pc[Worker] \in {"find", "add"}
        /\ \/ blobBlocks' = blobBlocks /\ pc'[Worker] \in {"add", "find", "link"}
           \/ /\ blobBlocks' = blobBlocks \cup {bb[Worker]} /\ pc'[Worker] = "lock"
              /\ bb[Worker] \notin blobBlocks
    BY <1>1 DEF FindBlobBlock, AddBlobBlock
  <2>2. RowsFilled'
    BY <1>a, <2>1, RowsStay DEF Emptied, Freeing, Spare
  <2>3. OneReference'
    <3>1. bb[Worker] \notin blobBlocks => RefsOf(bb[Worker]) = {}
      BY <1>a DEF OneReference, RefsOf
    <3>2. StoresBytes(Worker)' => RefsOf(bb'[Worker]) = {}
      BY <1>b, <2>1, <3>1 DEF StoresBytes, AcquiringOrWriting
    <3> QED
      BY <1>a, <1>c, <2>1, <3>2, OneStays
  <2> QED
    BY <1>c, <1>e, <2>1, <2>2, <2>3 DEF FineInv, WorkerNeverFails
<1>2. CASE \/ LockFreeList(Worker) \/ SelectFreed(Worker) \/ DeleteFreed(Worker)
           \/ CreateBlock(Worker) \/ StoreFile(Worker) \/ UpdateStorageBlockInfo(Worker)
           \/ AddBlockLocation(Worker) \/ PutOnResidualList(Worker)
           \/ QueryResidualBlockCount(Worker)
  <2>1. /\ UNCHANGED <<blobBlocks, link, refs>> /\ pc[Worker] \in AcquiringOrWriting
        /\ pc'[Worker] \in AcquiringOrWriting \cup {"reference", "refs"} /\ job' = job
    BY <1>2, <1>b, WritingSucceeds DEF AcquiringOrWriting
  <2>2. OneReference'
    <3>1. StoresBytes(Worker)' => StoresBytes(Worker)
      BY <2>1 DEF StoresBytes
    <3>2. StoresBytes(Worker)' => RefsOf(bb'[Worker]) = {}
      BY <1>a, <1>b, <3>1 DEF OneReference
    <3> QED
      BY <1>a, <1>c, <2>1, <3>2, OneStays
  <2>3. pc'[Worker] # "failed"
    BY <2>1 DEF AcquiringOrWriting
  <2>4. CASE LockFreeList(Worker) \/ SelectFreed(Worker)
    <3>1. /\ UNCHANGED <<locs, info, files, freed, count, queue>>
          /\ pc[Worker] \in {"lock", "select"}
      BY <2>4 DEF LockFreeList, SelectFreed
    <3>2. RowsFilled'
      BY <1>a, <3>1, RowsStay DEF Emptied, Freeing, Spare
    <3> QED
      BY <1>c, <1>e, <2>2, <2>3, <3>1, <3>2 DEF FineInv, WorkerNeverFails
  <2>5. CASE DeleteFreed(Worker) \/ CreateBlock(Worker)
    <3>1. /\ Spare' = Spare \ {blk'[Worker]} /\ count' \in Nat /\ count <= count'
          /\ pc[Worker] \in {"unfree", "create"} /\ pc'[Worker] = "store"
          /\ UNCHANGED <<locs, info, files>>
      BY <2>5, Acquired DEF HoldInv
    <3>2. queue' = queue
      BY <2>5 DEF DeleteFreed, CreateBlock
    <3>3. RowsFilled'
      BY <1>a, <3>1 DEF RowsFilled, Filled, Sealed, Emptied, Freeing
    <3> QED
      BY <1>c, <1>e, <2>2, <2>3, <3>1, <3>2, <3>3 DEF FineInv, WorkerNeverFails
  <2>6. CASE StoreFile(Worker) \/ UpdateStorageBlockInfo(Worker)
    <3>1. /\ UNCHANGED <<locs, blk, freed, count, queue>>
          /\ pc[Worker] \in {"store", "info"} /\ pc'[Worker] \in {"info", "location"}
          /\ \A s \in StorageIds \ {blk[Worker]} : files'[s] = files[s] /\ info'[s] = info[s]
      BY <2>6 DEF StoreFile, UpdateStorageBlockInfo
    <3>2. RowsFilled'
      BY <1>a, <3>1 DEF RowsFilled, Filled, Sealed, Emptied, Spare
    <3> QED
      BY <1>c, <1>e, <2>2, <2>3, <3>1, <3>2 DEF FineInv, WorkerNeverFails
  <2>7. CASE AddBlockLocation(Worker)
    <3>1. /\ UNCHANGED <<info, files, blk, freed, count>> /\ pc[Worker] = "location"
          /\ locs' = [locs EXCEPT ![blk[Worker]] = @ \cup {Fastest}]
          /\ \/ pc'[Worker] = "residual" /\ queue' = queue
             \/ EndWrite(Worker, <<>>)
      BY <1>a, <2>7 DEF AddBlockLocation, Wrote
    <3>2. pc'[Worker] \in {"residual", "reference", "refs"}
      BY <3>1 DEF EndWrite
    <3>3. Filled(blk[Worker])'
      BY <1>a, <1>b, <3>1, <3>2, WrittenIsFilled DEF Wrote, Filled
    <3>4. RowsFilled'
      <4> SUFFICES ASSUME NEW s \in StorageIds \ Spare, s # blk[Worker]
                   PROVE  Filled(s)'
        BY <3>1, <3>3 DEF RowsFilled, Spare
      <4> QED
        BY <1>a, <3>1 DEF RowsFilled, Filled, Sealed
    <3>5. ReplicatedRows'
      <4>1. CASE queue' = queue
        BY <1>e, <3>1, <4>1
      <4>2. CASE EndWrite(Worker, <<>>)
        <5>1. \A s : Queued(ReplicateJob(s))' => Queued(ReplicateJob(s)) \/ s = blk[Worker]
          BY <4>2, WrittenQueue
        <5>2. blk[Worker] \in Nat /\ blk[Worker] <= count
          BY <3>1 DEF HoldInv, HeldRows, UsesBlock, Spare, StorageIds
        <5> QED
          BY <1>a, <1>d, <3>1, <5>1, <5>2 DEF ReplicatedRows
      <4> QED
        BY <3>1, <4>1, <4>2
    <3> QED
      BY <1>c, <2>2, <2>3, <3>4, <3>5 DEF FineInv, WorkerNeverFails
  <2>8. CASE PutOnResidualList(Worker) \/ QueryResidualBlockCount(Worker)
    <3>1. /\ UNCHANGED <<locs, info, files, blk, freed, count>>
          /\ pc[Worker] \in {"residual", "count"}
          /\ \/ queue' = queue
             \/ EndWrite(Worker, <<>>) \/ EndWrite(Worker, <<CombineJob>>)
      BY <2>8 DEF PutOnResidualList, QueryResidualBlockCount
    <3>2. RowsFilled'
      BY <1>a, <3>1, RowsStay DEF Emptied, Freeing, Spare
    <3>3. ReplicatedRows'
      <4>1. CASE queue' = queue
        BY <1>e, <3>1, <4>1
      <4>2. CASE EndWrite(Worker, <<>>) \/ EndWrite(Worker, <<CombineJob>>)
        <5>1. \A s : Queued(ReplicateJob(s))' => Queued(ReplicateJob(s)) \/ s = blk[Worker]
          BY <4>2, WrittenQueue
        <5>2. blk[Worker] \in Nat /\ blk[Worker] <= count
          BY <3>1 DEF HoldInv, HeldRows, UsesBlock, Spare, StorageIds
        <5> QED
          BY <1>a, <1>d, <3>1, <5>1, <5>2 DEF ReplicatedRows
      <4> QED
        BY <3>1, <4>1, <4>2
    <3> QED
      BY <1>c, <2>2, <2>3, <3>2, <3>3 DEF FineInv, WorkerNeverFails
  <2> QED
    BY <1>2, <2>4, <2>5, <2>6, <2>7, <2>8
<1>3. CASE AddBlobBlockStorage(Worker) \/ LinkBlob(Worker)
  <2>1. /\ UNCHANGED <<blobBlocks, locs, info, files, freed, count, queue, blk>>
        /\ pc[Worker] \in {"reference", "link"} /\ bb[Worker] \in blobBlocks
    <3>1. pc[Worker] \in {"reference", "link"}
      BY <1>3 DEF AddBlobBlockStorage, LinkBlob
    <3>2. bb[Worker] \in blobBlocks
      BY <1>a, <3>1 DEF CombineControl, StoringRow, StoresBytes
    <3> QED
      BY <1>3, <3>1, <3>2 DEF AddBlobBlockStorage, LinkBlob
  <2>2. RowsFilled'
    BY <1>a, <2>1, RowsStay DEF Emptied, Freeing, Spare
  <2>3. CASE AddBlobBlockStorage(Worker)
    <3> DEFINE r0 == [blobBlock |-> bb[Worker], storageBlock |-> blk[Worker], offset |-> 0]
    <3>1. pc[Worker] = "reference" /\ RefsTo(blk[Worker]) = {}
      BY <1>a, <2>3 DEF AddBlobBlockStorage, Wrote, Writing
    <3>2. refs' = refs \cup {r0} /\ pc'[Worker] = "link"
      BY <2>1, <2>3, <3>1 DEF AddBlobBlockStorage
    <3>3. RefsOf(bb[Worker]) = {}
      BY <1>a, <3>1 DEF OneReference, StoresBytes, CombineControl
    <3>4. OneReference'
      <4>1. \A q, r \in refs : q.blobBlock = r.blobBlock => q = r
        BY <1>a, <1>c DEF OneReference
      <4>2. \A r \in refs : r.blobBlock # r0.blobBlock
        BY <3>3 DEF RefsOf
      <4>3. \A q, r \in refs' : q.blobBlock = r.blobBlock => q = r
        BY <3>2, <4>1, <4>2
      <4>4. \A r \in refs' : r.blobBlock \in blobBlocks'
        BY <1>a, <2>1, <3>2 DEF OneReference
      <4>5. ~StoresBytes(Worker)'
        BY <3>2 DEF StoresBytes, AcquiringOrWriting
      <4> QED
        BY <4>3, <4>4, <4>5 DEF OneReference
    <3> QED
      BY <1>c, <1>e, <2>1, <2>2, <3>2, <3>4 DEF FineInv, WorkerNeverFails
  <2>4. CASE LinkBlob(Worker)
    <3>1. refs' = refs /\ pc'[Worker] = "idle"
      BY <2>1, <2>4 DEF LinkBlob
    <3>2. OneReference'
      BY <1>a, <1>c, <2>1, <3>1, OneStays DEF StoresBytes, AcquiringOrWriting
    <3> QED
      BY <1>c, <1>e, <2>1, <2>2, <3>1, <3>2 DEF FineInv, WorkerNeverFails
  <2> QED
    BY <1>3, <2>3, <2>4
<1> QED
  BY <1>1, <1>2, <1>3 DEF Store

\* A set of backends has a fastest one: the initial segments of the set are well-founded.
LEMMA LeastExists ==
    ASSUME NEW S \in SUBSET Backends, S # {}
    PROVE  \E k \in S : IsLeast(k, S)
<1> DEFINE Upto(k) == {l \in S : l <= k}
<1> DEFINE Segments == {Upto(k) : k \in S}
<1>1. S \in SUBSET Nat /\ IsFiniteSet(S)
  <2>1. IsFiniteSet(Backends) /\ Backends \subseteq Nat
    BY BoundsAssumption, FS_Interval DEF Backends
  <2> QED
    BY <2>1, FS_Subset
<1>2. Segments \subseteq FiniteSubsetsOf(S)
  <2>1. \A T \in SUBSET S : IsFiniteSet(T)
    BY <1>1, FS_Subset
  <2> QED
    BY <2>1 DEF FiniteSubsetsOf
<1>3. Segments # {}
  OBVIOUS
<1>4. PICK X \in Segments : \A Y \in Segments : ~(<<Y, X>> \in StrictSubsetOrdering(S))
  <2> HIDE DEF Segments
  <2>1. IsWellFoundedOn(StrictSubsetOrdering(S), FiniteSubsetsOf(S))
    BY FS_StrictSubsetOrderingWellFounded
  <2> QED
    BY <1>2, <1>3, <2>1, WFMin
<1>5. PICK k \in S : X = Upto(k)
  OBVIOUS
<1>6. ASSUME NEW l \in S, ~(k <= l) PROVE FALSE
  <2>1. l \in Nat /\ k \in Nat /\ l < k
    BY <1>1, <1>6
  <2>2. Upto(l) \in SUBSET S /\ Upto(k) \in SUBSET S /\ Upto(l) \in Segments
    OBVIOUS
  <2>3. Upto(l) \subseteq Upto(k) /\ k \in Upto(k) /\ k \notin Upto(l)
    <3>1. \A x \in S : x \in Nat /\ (x <= l => x <= k)
      BY <1>1, <2>1
    <3>2. k <= k /\ ~(k <= l)
      BY <2>1
    <3> QED
      BY <3>1, <3>2
  <2>4. <<Upto(l), Upto(k)>> \in StrictSubsetOrdering(S)
    <3> HIDE DEF Upto
    <3> QED
      BY <2>2, <2>3 DEF StrictSubsetOrdering
  <2> QED
    BY <1>4, <1>5, <2>2, <2>4
<1> QED
  BY <1>6 DEF IsLeast

LEMMA StoredOfFilled ==
    ASSUME TypeInv, NEW s \in StorageIds, Filled(s)
    PROVE  Stored(s) = {info[s]} /\ info[s] # Blank
<1>1. locs[s] \in SUBSET Backends /\ locs[s] # {} /\ \A k \in locs[s] : files[s][k] = info[s]
  BY LocalTypes DEF Filled, Sealed
<1>2. info[s] # Blank
  BY DEF Filled, Blank
<1>3. \E k \in locs[s] : IsLeast(k, locs[s])
  BY <1>1, LeastExists
<1> QED
  BY <1>1, <1>2, <1>3 DEF Stored

\* What is left to show of the worker's other jobs outside of freeing.
LEMMA FineWork ==
    ASSUME TypeInv, HoldInv, FineInv, Work, ~Store(Worker), refs' = refs,
           blobBlocks' = blobBlocks, pc[Worker] # "move", pc'[Worker] # "failed",
           pc'[Worker] # "lock" \/ job'.type # "upload-file",
           pc'[Worker] \notin Freeing \cup {"nextStorageBlock", "reset"},
           RowsFilled', ReplicatedRows'
    PROVE  FineInv'
<1>1. GarbageHeld'
  BY DEF GarbageHeld, Freeing
<1>2. ~StoresBytes(Worker)'
  BY NoStoring
<1>3. OneReference'
  BY <1>2, OneStays DEF FineInv
<1> QED
  BY <1>1, <1>3 DEF FineInv, WorkerNeverFails

LEMMA FineReplicate ==
    ASSUME TypeInv, HoldInv, ReadInv, FineInv, Work, ~Store(Worker),
           \/ Deliver \/ QueryBlockLocations \/ CheckFreeList \/ FetchBlock \/ CopyFile
           \/ AddReplicaLocation
    PROVE  FineInv'
<1> USE DEF tables, catalog, table, stores, memory, locals, combine, results, outside,
      others, Goto, Fail, Return
<1> USE LocalTypes
<1>a. RowsFilled /\ ReplicatedRows /\ CopyingProgress /\ HeldRows
  BY DEF FineInv, ReadInv, HoldInv
<1>b. UNCHANGED <<refs, blobBlocks, freed, count, info>> /\ Spare' = Spare
  BY DEF Deliver, QueryBlockLocations, CheckFreeList, FetchBlock, CopyFile,
         AddReplicaLocation, Spare
<1>c. pc[Worker] \notin {"move"} \cup Emptied
  BY DEF Deliver, QueryBlockLocations, CheckFreeList, FetchBlock, CopyFile,
         AddReplicaLocation, Emptied, Freeing
<1>d. pc[Worker] \in {"fetch", "copy", "copied"} => Filled(blk[Worker])
  BY <1>a, <1>c DEF RowsFilled, HeldRows, UsesBlock
<1>1. CASE Deliver
  <2>1. /\ pc'[Worker] \in {"find", "locations", "combine", "collect"}
        /\ pc'[Worker] = "locations" =>
               job'.type = "replicate" /\ blk'[Worker] = job'.storageBlock
        /\ UNCHANGED <<locs, files>> /\ job' \in Jobs
    <3>1. job' \in Jobs
      BY <1>1 DEF Deliver, TypeInv, TypeOK, ControlOK
    <3> QED
      BY <1>1, <3>1 DEF Deliver
  <2>2. ASSUME job'.type = "replicate" PROVE job' = ReplicateJob(job'.storageBlock)
    BY <2>1, <2>2 DEF Jobs, ReplicateJob, CombineJob, CollectJob
  <2>3. job'.type = "replicate" => job'.storageBlock \in StorageIds
    BY <2>1 DEF Jobs, CombineJob, CollectJob
  <2>4. ReplicatedRows'
    <3>1. \A s \in StorageIds : Queued(ReplicateJob(s))' => s <= count'
      BY <1>1, <1>a, <1>b, Delivered DEF ReplicatedRows
    <3>2. pc'[Worker] = "locations" => blk'[Worker] <= count'
      BY <1>1, <1>a, <1>b, <2>1, <2>2, <2>3, Delivered DEF ReplicatedRows
    <3> QED
      BY <2>1, <3>1, <3>2 DEF ReplicatedRows, Replicating
  <2>5. RowsFilled'
    BY <1>a, <1>b, <1>c, <2>1, RowsStay
  <2> QED
    BY <1>b, <1>c, <2>1, <2>4, <2>5, FineWork DEF Freeing
<1>2. CASE QueryBlockLocations \/ CheckFreeList \/ FetchBlock
  <2>1. /\ UNCHANGED <<locs, files, queue, blk>>
        /\ pc[Worker] \in {"locations", "checkFree", "fetch"}
    BY <1>2 DEF QueryBlockLocations, CheckFreeList, FetchBlock
  <2>2. RowsFilled'
    BY <1>a, <1>b, <1>c, <2>1, RowsStay
  <2>3. blk[Worker] <= count /\ \A s \in StorageIds : Queued(ReplicateJob(s))' => s <= count'
    BY <1>a, <1>b, <2>1 DEF ReplicatedRows, Queued, Replicating
  <2>4. /\ pc'[Worker] \in {"idle", "checkFree", "fetch", "copy"}
        /\ pc'[Worker] = "checkFree" => locs[blk[Worker]] = {}
        /\ pc'[Worker] \in {"fetch", "copy"} => targets' \cap locs[blk[Worker]] = {}
    <3>1. CASE QueryBlockLocations
      BY <3>1 DEF QueryBlockLocations, FindReplicationBackends
    <3>2. CASE CheckFreeList
      <4>1. pc[Worker] = "checkFree" /\ locs[blk[Worker]] = {}
        BY <1>a, <3>2 DEF CheckFreeList, ReplicatedRows
      <4>2. blk[Worker] \in Spare
        BY <1>a, <1>c, <4>1 DEF RowsFilled, Filled, Sealed
      <4>3. blk[Worker] \in freed
        BY <2>3, <4>2 DEF Spare, StorageIds
      <4> QED
        BY <3>2, <4>3 DEF CheckFreeList
    <3>3. CASE FetchBlock
      <4>1. pc[Worker] = "fetch"
        BY <3>3 DEF FetchBlock
      <4>2. Stored(blk[Worker]) # {}
        BY <1>d, <4>1, StoredOfFilled
      <4> QED
        BY <1>a, <3>3, <4>1, <4>2 DEF FetchBlock, ReplicatedRows
    <3> QED
      BY <1>2, <3>1, <3>2, <3>3
  <2>5. ReplicatedRows'
    BY <1>b, <2>1, <2>3, <2>4 DEF ReplicatedRows
  <2> QED
    BY <1>b, <1>c, <2>2, <2>4, <2>5, FineWork DEF Freeing
<1>3. CASE CopyFile
  <2>1. PICK k \in targets : files' = [files EXCEPT ![blk[Worker]][k] = buf[Worker]]
    BY <1>3 DEF CopyFile
  <2>2. /\ pc[Worker] = "copy" /\ pc'[Worker] = "copied"
        /\ UNCHANGED <<locs, blk, queue, targets>>
    BY <1>3 DEF CopyFile
  <2>3. k \notin locs[blk[Worker]]
    BY <1>a, <2>2 DEF ReplicatedRows
  <2>4. RowsFilled'
    <3> SUFFICES ASSUME NEW s \in StorageIds \ Spare PROVE Filled(s)'
      BY <1>b DEF RowsFilled
    <3>1. Filled(s)
      BY <1>a, <1>c DEF RowsFilled
    <3>2. \A l \in locs[s] : files'[s][l] = files[s][l]
      BY <2>1, <2>3
    <3> QED
      BY <1>b, <2>2, <3>1, <3>2 DEF Filled, Sealed
  <2>5. ReplicatedRows'
    BY <1>a, <1>b, <2>2 DEF ReplicatedRows, Replicating, Queued
  <2> QED
    BY <1>b, <1>c, <2>2, <2>4, <2>5, FineWork DEF Freeing
<1>4. CASE AddReplicaLocation
  <2>1. PICK k \in targets :
            /\ IsLeast(k, targets)
            /\ IF k \in locs[blk[Worker]]
               THEN Fail(Worker) /\ UNCHANGED <<locs, targets, job>>
               ELSE /\ locs' = [locs EXCEPT ![blk[Worker]] = @ \cup {k}]
                    /\ targets' = targets \ {k}
                    /\ IF targets' = {} THEN Return(Worker)
                                       ELSE Goto(Worker, "copy") /\ UNCHANGED job
    BY <1>4 DEF AddReplicaLocation
  <2>2. pc[Worker] = "copied" /\ UNCHANGED <<files, blk, queue>>
    BY <1>4 DEF AddReplicaLocation
  <2>3. k \notin locs[blk[Worker]]
    BY <1>a, <2>2 DEF ReplicatedRows
  <2>4. /\ locs' = [locs EXCEPT ![blk[Worker]] = @ \cup {k}] /\ targets' = targets \ {k}
        /\ pc'[Worker] \in {"idle", "copy"}
    BY <2>1, <2>3
  <2>5. files[blk[Worker]][k] = info[blk[Worker]]
    BY <1>a, <2>1, <2>2 DEF CopyingProgress
  <2>6. RowsFilled'
    <3> SUFFICES ASSUME NEW s \in StorageIds \ Spare PROVE Filled(s)'
      BY <1>b DEF RowsFilled
    <3>1. Filled(s)
      BY <1>a, <1>c DEF RowsFilled
    <3> QED
      BY <1>b, <2>2, <2>4, <2>5, <3>1 DEF Filled, Sealed
  <2>7. ReplicatedRows'
    BY <1>a, <1>b, <2>2, <2>4 DEF ReplicatedRows, Replicating, Queued
  <2> QED
    BY <1>b, <1>c, <2>4, <2>6, <2>7, FineWork DEF Freeing
<1> QED
  BY <1>1, <1>2, <1>3, <1>4

LEMMA FineCombine ==
    ASSUME TypeInv, HoldInv, ReadInv, FineInv, Work, ~Store(Worker),
           \/ QueryResidualBlocks \/ ReadSource \/ QueryBlobBlocksInStorageBlock
    PROVE  FineInv'
<1> USE DEF tables, catalog, table, stores, memory, locals, combine, results, outside,
      others, Goto, Fail, Return
<1> USE LocalTypes
<1>a. RowsFilled /\ ReplicatedRows /\ SourcesKept /\ CombineControl
  BY DEF FineInv, ReadInv, TypeInv
<1>1. /\ UNCHANGED <<refs, blobBlocks, freed, count, info, locs, files, queue>>
      /\ Spare' = Spare /\ pc[Worker] \in {"combine", "read", "refs"}
  BY DEF QueryResidualBlocks, ReadSource, QueryBlobBlocksInStorageBlock, Spare
<1>2. pc'[Worker] \in {"idle", "read", "lock", "move"}
  <2>1. CASE QueryResidualBlocks \/ QueryBlobBlocksInStorageBlock
    BY <2>1 DEF QueryResidualBlocks, QueryBlobBlocksInStorageBlock
  <2>2. CASE ReadSource
    <3>1. ASSUME NEW i \in sources PROVE Downloaded(rows[i]) # {}
      <4>1. rows[i] \in StorageIds \ Spare
        BY <1>a, <2>2, SourceIds DEF ReadSource, SourcesKept, Combining
      <4>2. Filled(rows[i])
        BY <1>1, <1>a, <4>1 DEF RowsFilled, Emptied, Freeing
      <4> QED
        BY <4>1, <4>2, StoredOfFilled DEF Downloaded
    <3> QED
      BY <2>2, <3>1 DEF ReadSource
  <2> QED
    BY <2>1, <2>2
<1>3. pc'[Worker] # "lock" \/ job'.type # "upload-file"
  BY <1>1, <1>a DEF QueryResidualBlocks, ReadSource, QueryBlobBlocksInStorageBlock, CombineControl
<1>4. RowsFilled'
  BY <1>1, <1>a, RowsStay DEF Emptied, Freeing
<1>5. ReplicatedRows'
  BY <1>1, <1>2, <1>a DEF ReplicatedRows, Replicating, Queued
<1> QED
  BY <1>1, <1>2, <1>3, <1>4, <1>5, FineWork DEF Freeing

LEMMA FineMove ==
    ASSUME TypeInv, HoldInv, ReadInv, FineInv, Work, ~Store(Worker),
           MoveReference \/ RemoveReferencesToStorageBlockId
    PROVE  FineInv'
<1> USE DEF tables, catalog, table, stores, memory, locals, combine, results, outside,
      others, Goto, Fail, Return
<1> USE LocalTypes
<1>a. RowsFilled /\ ReplicatedRows /\ OneReference /\ SourcesKept /\ CombineControl
  BY DEF FineInv, ReadInv, TypeInv
<1>b. /\ UNCHANGED <<blobBlocks, freed, count, info, locs, files, rows, pos, blk>>
      /\ Spare' = Spare /\ pc[Worker] = "move" /\ pc'[Worker] \in {"move", "refs", "idle", "failed"}
  BY DEF MoveReference, RemoveReferencesToStorageBlockId, Spare
<1>c. /\ rows[pos] # blk[Worker]
      /\ \A r \in moving : r \in refs /\ r.storageBlock = rows[pos]
  BY <1>a, <1>b DEF SourcesKept, Combining, UsesBlock, CombineControl
<1>d. GarbageHeld' /\ ~StoresBytes(Worker)'
  BY <1>b, NoStoring DEF GarbageHeld, Freeing
<1>e. RowsFilled'
  BY <1>a, <1>b, RowsStay DEF Emptied, Freeing
<1>1. CASE MoveReference
  <2>1. PICK r \in moving :
            /\ moving' = moving \ {r}
            /\ IF r.blobBlock \in blobBlocks
                  /\ RefsOf(r.blobBlock) \cap RefsTo(blk[Worker]) = {}
               THEN /\ refs' = refs \cup {[blobBlock |-> r.blobBlock,
                                           storageBlock |-> blk[Worker],
                                           offset |-> MovedOffset(r)]}
                    /\ UNCHANGED pc
               ELSE Fail(Worker) /\ UNCHANGED refs
    BY <1>1 DEF MoveReference
  <2>2. r \in refs /\ r.storageBlock = rows[pos] /\ r.blobBlock \in blobBlocks
    BY <1>a, <1>c DEF OneReference
  <2>3. \A q \in refs : q.blobBlock = r.blobBlock => q = r
    BY <1>a, <2>2 DEF OneReference
  <2>4. RefsOf(r.blobBlock) \cap RefsTo(blk[Worker]) = {}
    BY <1>c, <2>2, <2>3 DEF RefsOf, RefsTo
  <2> DEFINE r0 == [blobBlock |-> r.blobBlock, storageBlock |-> blk[Worker],
                    offset |-> MovedOffset(r)]
  <2>5. /\ refs' = refs \cup {r0} /\ r0.blobBlock = r.blobBlock /\ r0.storageBlock = blk[Worker]
        /\ pc' = pc
    BY <2>1, <2>2, <2>4
  <2>6. r0 \notin moving' /\ r \notin moving' /\ moving' \subseteq moving
    BY <1>c, <2>1, <2>5
  <2> HIDE DEF r0
  <2>7. OneReference'
    <3>1. \A q \in refs' : q.blobBlock \in blobBlocks'
      BY <1>a, <1>b, <2>2, <2>5 DEF OneReference
    <3>2. ASSUME NEW m \in refs, NEW n \in refs, m.blobBlock = n.blobBlock
          PROVE  \/ m = n
                 \/ /\ pc'[Worker] = "move" /\ m \notin moving' /\ n \notin moving'
                    /\ \/ m.storageBlock = blk'[Worker] /\ n.storageBlock = rows'[pos']
                       \/ n.storageBlock = blk'[Worker] /\ m.storageBlock = rows'[pos']
      BY <1>a, <1>b, <2>5, <2>6, <3>2 DEF OneReference
    <3>3. ASSUME NEW m \in refs, m.blobBlock = r0.blobBlock
          PROVE  /\ pc'[Worker] = "move" /\ m \notin moving' /\ r0 \notin moving'
                 /\ r0.storageBlock = blk'[Worker] /\ m.storageBlock = rows'[pos']
      BY <1>b, <2>2, <2>3, <2>5, <2>6, <3>3
    <3>4. ASSUME NEW m \in refs', NEW n \in refs', m.blobBlock = n.blobBlock
          PROVE  \/ m = n
                 \/ /\ pc'[Worker] = "move" /\ m \notin moving' /\ n \notin moving'
                    /\ \/ m.storageBlock = blk'[Worker] /\ n.storageBlock = rows'[pos']
                       \/ n.storageBlock = blk'[Worker] /\ m.storageBlock = rows'[pos']
      <4>1. CASE m \in refs /\ n \in refs
        BY <3>2, <3>4, <4>1
      <4>2. CASE m = r0 /\ n \in refs
        BY <3>3, <3>4, <4>2
      <4>3. CASE m \in refs /\ n = r0
        BY <3>3, <3>4, <4>3
      <4> QED
        BY <2>5, <4>1, <4>2, <4>3
    <3> QED
      BY <1>d, <3>1, <3>4 DEF OneReference
  <2>8. queue' = queue
    BY <1>1 DEF MoveReference
  <2>9. ReplicatedRows'
    BY <1>a, <1>b, <2>5, <2>8 DEF ReplicatedRows, Replicating, Queued
  <2> QED
    BY <1>b, <1>d, <1>e, <2>5, <2>7, <2>9 DEF FineInv, WorkerNeverFails
<1>2. CASE RemoveReferencesToStorageBlockId
  <2>1. /\ refs' = refs \ RefsTo(rows[pos]) /\ pc'[Worker] \in {"refs", "idle"}
        /\ queue' = queue \/ Send(<<CollectJob>>)
    BY <1>2 DEF RemoveReferencesToStorageBlockId
  <2>2. OneReference'
    <3>1. \A m, n \in refs' : m.blobBlock = n.blobBlock => m = n
      BY <1>a, <2>1 DEF OneReference, RefsTo
    <3> QED
      BY <1>a, <1>b, <1>d, <2>1, <3>1 DEF OneReference
  <2>3. \A s \in StorageIds : Queued(ReplicateJob(s))' => Queued(ReplicateJob(s))
    <3>1. CASE queue' = queue
      BY <3>1 DEF Queued
    <3>2. CASE Send(<<CollectJob>>)
      <4>1. \A s : ReplicateJob(s) # CollectJob
        <5>1. \A s : ReplicateJob(s).type = "replicate"
          BY DEF ReplicateJob
        <5>2. CollectJob.type = "collect-garbage"
          BY DEF CollectJob
        <5> QED
          BY <5>1, <5>2
      <4> QED
        BY <3>2, <4>1, JobsAreJobs, SentOne
    <3> QED
      BY <2>1, <3>1, <3>2
  <2>4. ReplicatedRows'
    BY <1>a, <1>b, <2>1, <2>3 DEF ReplicatedRows, Replicating
  <2> QED
    BY <1>d, <1>e, <2>1, <2>2, <2>4 DEF FineInv, WorkerNeverFails
<1> QED
  BY <1>1, <1>2

LEMMA FineCollect ==
    ASSUME TypeInv, HoldInv, ReadInv, LinkInv, FineInv, Work, ~Store(Worker),
           \/ CollectBlobs \/ FindUnreferencedBlobBlocks \/ DeleteBlobBlockStorage
           \/ DeleteBlobBlock \/ FindUnreferencedStorageBlocks \/ FreeStorageBlock
           \/ DeleteFile \/ RemoveBlockLocation \/ DeleteResidual \/ InsertFreed
           \/ ResetInfo
    PROVE  FineInv'
<1> USE DEF tables, catalog, table, stores, memory, locals, combine, results, outside,
      others, Goto, Fail, Return
<1> USE LocalTypes
<1>a. RowsFilled /\ ReplicatedRows /\ OneReference /\ GarbageHeld
  BY DEF FineInv
<1>b. /\ pc[Worker] \in Collecting /\ pc'[Worker] \in Collecting \cup {"idle", "failed"}
      /\ UNCHANGED <<count, queue>>
  BY DEF CollectBlobs, FindUnreferencedBlobBlocks, DeleteBlobBlockStorage, DeleteBlobBlock,
         FindUnreferencedStorageBlocks, FreeStorageBlock, DeleteFile, RemoveBlockLocation,
         DeleteResidual, InsertFreed, ResetInfo, Collecting
<1>c. ReplicatedRows'
  BY <1>a, <1>b DEF ReplicatedRows, Replicating, Collecting, Queued
<1>d. ~StoresBytes(Worker)' /\ pc[Worker] # "move" /\ pc'[Worker] \notin {"lock", "move"}
  <2>1. pc'[Worker] # "lock"
    BY <1>b DEF Collecting
  <2> QED
    BY <1>b, <2>1, NoStoring DEF Collecting
<1>1. CASE CollectBlobs \/ FindUnreferencedBlobBlocks
  <2>1. /\ UNCHANGED <<refs, blobBlocks, locs, info, files, freed>>
        /\ pc[Worker] \in {"collect", "findBlobBlocks"}
        /\ pc'[Worker] \in {"findBlobBlocks", "nextBlobBlock"}
    BY <1>1 DEF CollectBlobs, FindUnreferencedBlobBlocks
  <2>2. RowsFilled'
    BY <1>a, <1>b, <2>1, RowsStay DEF Emptied, Freeing, Spare
  <2> QED
    BY <1>c, <1>d, <2>1, <2>2, FineWork DEF Freeing
<1>2. CASE DeleteBlobBlockStorage \/ DeleteBlobBlock
  <2>1. /\ UNCHANGED <<locs, info, files, freed>> /\ refs' \subseteq refs
        /\ pc[Worker] \in {"nextBlobBlock", "deleteBlobBlock"}
        /\ \/ blobBlocks' = blobBlocks /\ pc'[Worker] = "deleteBlobBlock"
           \/ /\ blobBlocks' = blobBlocks \ {bb[Worker]} /\ pc'[Worker] = "nextBlobBlock"
              /\ RefsOf(bb[Worker]) = {}
    <3>1. CASE DeleteBlobBlockStorage
      BY <3>1 DEF DeleteBlobBlockStorage
    <3>2. CASE DeleteBlobBlock
      <4>1. pc[Worker] = "deleteBlobBlock"
        BY <3>2 DEF DeleteBlobBlock
      <4>2. link[bb[Worker]] = "none" /\ RefsOf(bb[Worker]) = {}
        BY <4>1 DEF LinkInv, DoomedUnlinked
      <4> QED
        BY <3>2, <4>2 DEF DeleteBlobBlock
    <3> QED
      BY <1>2, <3>1, <3>2
  <2>2. RowsFilled'
    BY <1>a, <1>b, <2>1, RowsStay DEF Emptied, Freeing, Spare
  <2>3. OneReference'
    <3>1. \A m, n \in refs' : m.blobBlock = n.blobBlock => m = n
      BY <1>a, <1>d, <2>1 DEF OneReference
    <3>2. \A m \in refs' : m.blobBlock \in blobBlocks'
      BY <1>a, <2>1 DEF OneReference, RefsOf
    <3> QED
      BY <1>d, <3>1, <3>2 DEF OneReference
  <2>4. GarbageHeld'
    BY <2>1 DEF GarbageHeld, Freeing
  <2> QED
    BY <1>c, <2>1, <2>2, <2>3, <2>4 DEF FineInv, WorkerNeverFails
<1>3. CASE \/ FindUnreferencedStorageBlocks \/ FreeStorageBlock \/ DeleteFile
           \/ RemoveBlockLocation \/ DeleteResidual \/ InsertFreed \/ ResetInfo
  <2>1. UNCHANGED <<refs, blobBlocks>>
    BY <1>3 DEF FindUnreferencedStorageBlocks, FreeStorageBlock, DeleteFile,
                RemoveBlockLocation, DeleteResidual, InsertFreed, ResetInfo
  <2>2. OneReference'
    BY <1>a, <1>d, <2>1, OneStays
  <2>3. SUFFICES RowsFilled' /\ GarbageHeld' /\ pc'[Worker] # "failed"
    BY <1>c, <2>2 DEF FineInv, WorkerNeverFails
  <2>4. CASE FindUnreferencedStorageBlocks
    <3>1. /\ UNCHANGED <<locs, info, files, freed>> /\ pc[Worker] = "nextBlobBlock"
          /\ pc'[Worker] = "nextStorageBlock" /\ garbage' = Unreferenced
      BY <2>4 DEF FindUnreferencedStorageBlocks
    <3>2. RowsFilled'
      BY <1>a, <1>b, <3>1, RowsStay DEF Emptied, Freeing, Spare
    <3>3. GarbageHeld'
      BY <3>1 DEF GarbageHeld, Freeing, Unreferenced
    <3> QED
      BY <3>1, <3>2, <3>3
  <2>5. CASE FreeStorageBlock
    <3>1. /\ UNCHANGED <<locs, info, files, freed>> /\ pc[Worker] = "nextStorageBlock"
          /\ \/ pc'[Worker] = "idle"
             \/ /\ pc'[Worker] = "deleteFile" /\ blk'[Worker] \in garbage
                /\ garbage' = garbage \ {blk'[Worker]} /\ targets' = locs[blk'[Worker]]
      BY <2>5 DEF FreeStorageBlock
    <3>2. RowsFilled'
      BY <1>a, <1>b, <3>1, RowsStay DEF Emptied, Freeing, Spare
    <3>3. GarbageHeld'
      <4> SUFFICES ASSUME pc'[Worker] = "deleteFile" PROVE GarbageHeld'
        BY <3>1 DEF GarbageHeld, Freeing
      <4> DEFINE s == blk'[Worker]
      <4>1. /\ s \in garbage /\ garbage' = garbage \ {s} /\ targets' = locs[s]
            /\ garbage \cap freed = {} /\ s \in StorageIds
        BY <1>a, <3>1 DEF GarbageHeld
      <4>2. s <= count
        BY <3>1, <4>1 DEF HoldInv, GarbageIsUnreferenced
      <4>3. s \notin Spare
        BY <4>1, <4>2 DEF Spare, StorageIds
      <4>4. Filled(s)
        BY <1>a, <3>1, <4>1, <4>3 DEF RowsFilled, Emptied, Freeing
      <4>5. \A k \in locs[s] : files[s][k] # Blank
        BY <4>4 DEF Filled, Sealed, Blank
      <4> QED
        BY <3>1, <4>1, <4>5 DEF GarbageHeld
    <3> QED
      BY <3>1, <3>2, <3>3
  <2>6. CASE DeleteFile
    <3>1. /\ UNCHANGED <<locs, info, freed, blk, garbage, targets>>
          /\ pc[Worker] = "deleteFile"
          /\ \/ targets = {} /\ pc'[Worker] = "unresidual" /\ files' = files
             \/ \E k \in targets :
                    /\ IsLeast(k, targets)
                    /\ \/ /\ files' = [files EXCEPT ![blk[Worker]][k] = Blank]
                          /\ pc'[Worker] = "deleteLocation"
                       \/ files[blk[Worker]][k] = Blank
      BY <2>6 DEF DeleteFile
    <3>2. \A k \in targets : files[blk[Worker]][k] # Blank
      BY <1>a, <3>1 DEF GarbageHeld
    <3>3. /\ pc'[Worker] \in {"unresidual", "deleteLocation"}
          /\ \A s \in StorageIds \ {blk[Worker]} : files'[s] = files[s]
          /\ pc'[Worker] = "deleteLocation" =>
                 \A l \in targets : files'[blk[Worker]][l] # Blank \/ IsLeast(l, targets)
      <4>1. CASE pc'[Worker] = "unresidual" /\ files' = files
        BY <4>1
      <4>2. ASSUME NEW k \in targets, IsLeast(k, targets), pc'[Worker] = "deleteLocation",
                   files' = [files EXCEPT ![blk[Worker]][k] = Blank]
            PROVE  \A l \in targets : files'[blk[Worker]][l] # Blank \/ IsLeast(l, targets)
        <5>1. \A l \in targets \ {k} : files'[blk[Worker]][l] = files[blk[Worker]][l]
          BY <4>2
        <5> QED
          BY <3>2, <4>2, <5>1
      <4>3. CASE pc'[Worker] = "deleteLocation"
        <5>1. \E k \in targets : /\ IsLeast(k, targets)
                                  /\ files' = [files EXCEPT ![blk[Worker]][k] = Blank]
          BY <3>1, <3>2, <4>3
        <5> QED
          BY <4>2, <4>3, <5>1
      <4> QED
        BY <3>1, <3>2, <4>1, <4>3
    <3>4. RowsFilled'
      BY <1>a, <1>b, <3>1, <3>3 DEF RowsFilled, Filled, Sealed, Emptied, Freeing, Spare
    <3>5. GarbageHeld'
      BY <1>a, <3>1, <3>3 DEF GarbageHeld, Freeing
    <3> QED
      BY <3>3, <3>4, <3>5
  <2>7. CASE RemoveBlockLocation
    <3>1. /\ UNCHANGED <<files, info, freed, blk, garbage>>
          /\ pc[Worker] = "deleteLocation" /\ pc'[Worker] = "deleteFile"
      BY <2>7 DEF RemoveBlockLocation
    <3>2. PICK k \in targets : /\ IsLeast(k, targets) /\ targets' = targets \ {k}
                               /\ locs' = [locs EXCEPT ![blk[Worker]] = @ \ {k}]
      BY <2>7 DEF RemoveBlockLocation
    <3>3. RowsFilled'
      BY <1>a, <1>b, <3>1, <3>2 DEF RowsFilled, Filled, Sealed, Emptied, Freeing, Spare
    <3>4. ASSUME NEW l \in targets' PROVE files[blk[Worker]][l] # Blank
      <4>1. ~IsLeast(l, targets)
        <5>1. k \in Nat /\ l \in Nat /\ l # k
          BY <3>2 DEF Backends
        <5> QED
          BY <3>2, <5>1 DEF IsLeast
      <4> QED
        BY <1>a, <3>1, <3>2, <4>1 DEF GarbageHeld
    <3>5. GarbageHeld'
      BY <1>a, <3>1, <3>4 DEF GarbageHeld, Freeing
    <3> QED
      BY <3>1, <3>3, <3>5
  <2>8. CASE DeleteResidual
    <3>1. /\ UNCHANGED <<locs, files, info, freed, blk, garbage>>
          /\ pc[Worker] = "unresidual" /\ pc'[Worker] = "insertFreed"
      BY <2>8 DEF DeleteResidual
    <3>2. RowsFilled'
      BY <1>a, <1>b, <3>1, RowsStay DEF Emptied, Freeing, Spare
    <3> QED
      BY <1>a, <3>1, <3>2 DEF GarbageHeld, Freeing
  <2>9. CASE InsertFreed
    <3>1. /\ pc[Worker] = "insertFreed" /\ blk[Worker] \notin freed \cup garbage
          /\ garbage \cap freed = {}
      BY <1>a, <2>9 DEF InsertFreed, GarbageHeld, Freeing
    <3>2. /\ freed' = freed \cup {blk[Worker]} /\ pc'[Worker] = "reset"
          /\ UNCHANGED <<locs, files, info, blk, garbage>>
      BY <2>9, <3>1 DEF InsertFreed
    <3>3. RowsFilled'
      BY <1>a, <1>b, <3>2 DEF RowsFilled, Filled, Sealed, Spare
    <3>4. GarbageHeld'
      BY <3>1, <3>2 DEF GarbageHeld, Freeing
    <3> QED
      BY <3>2, <3>3, <3>4
  <2>10. CASE ResetInfo
    <3>1. /\ UNCHANGED <<locs, files, freed, garbage>>
          /\ info' = [info EXCEPT ![blk[Worker]] = Blank]
          /\ pc[Worker] = "reset" /\ pc'[Worker] = "nextStorageBlock"
      BY <2>10 DEF ResetInfo
    <3>2. blk[Worker] \in Spare
      BY <3>1 DEF ReadInv, FreeingEnds, Spare
    <3>3. RowsFilled'
      BY <1>a, <1>b, <3>1, <3>2 DEF RowsFilled, Filled, Sealed, Emptied, Freeing, Spare
    <3>4. GarbageHeld'
      BY <1>a, <3>1 DEF GarbageHeld, Freeing
    <3> QED
      BY <3>1, <3>3, <3>4
  <2> QED
    BY <1>3, <2>4, <2>5, <2>6, <2>7, <2>8, <2>9, <2>10
<1> QED
  BY <1>1, <1>2, <1>3

LEMMA FineEnv ==
    ASSUME TypeInv, FineInv, FinishUpload \/ ExpireFiles \/ UNCHANGED vars
    PROVE  FineInv'
<1> USE DEF tables, catalog, table, stores, memory, locals, combine, results, outside, others
<1>1. /\ UNCHANGED <<refs, blobBlocks, count, freed, info, locs, files, pc, bb, blk, job>>
      /\ UNCHANGED <<rows, pos, moving, garbage, targets>>
  BY DEF FinishUpload, ExpireFiles, vars
<1>2. \A s : Queued(ReplicateJob(s))' => Queued(ReplicateJob(s))
  <2>1. CASE FinishUpload
    <3>1. PICK b \in Uploads \ submitted : Send(<<UploadJob(b)>>)
      BY <2>1 DEF FinishUpload
    <3>2. UploadJob(b) \in Jobs
      BY <3>1, UploadsAssumption, JobsAreJobs
    <3>3. \A s : ReplicateJob(s) # UploadJob(b)
      <4>1. \A s : ReplicateJob(s).type = "replicate"
        BY DEF ReplicateJob
      <4>2. UploadJob(b).type = "upload-file"
        BY DEF UploadJob
      <4> QED
        BY <4>1, <4>2
    <3> QED
      BY <3>1, <3>2, <3>3, SentOne
  <2>2. CASE ExpireFiles \/ UNCHANGED vars
    BY <2>2 DEF ExpireFiles, vars, Queued
  <2> QED
    BY <2>1, <2>2
<1>3. RowsFilled'
  BY <1>1, RowsStay DEF FineInv, Spare
<1>4. ReplicatedRows'
  BY <1>1, <1>2 DEF FineInv, ReplicatedRows
<1>5. OneReference'
  BY <1>1 DEF FineInv, OneReference, StoresBytes, RefsOf
<1>6. GarbageHeld' /\ WorkerNeverFails'
  BY <1>1 DEF FineInv, GarbageHeld, WorkerNeverFails
<1> QED
  BY <1>3, <1>4, <1>5, <1>6 DEF FineInv

\* Without requests and crashes.
LEMMA AloneSteps ==
    ASSUME TypeInv, Revisers = {}, MaxCrashes = 0, [Next]_vars
    PROVE  \/ Store(Worker) \/ (Work /\ ~Store(Worker))
           \/ FinishUpload \/ ExpireFiles \/ UNCHANGED vars
<1>1. ~Crash
  BY DEF Crash, TypeInv, TypeOK, OutsideOK
<1> QED
  BY <1>1, Alone, StepKinds

LEMMA NothingToDo ==
    ASSUME Init
    PROVE  /\ Spare = StorageIds /\ refs = {} /\ pc[Worker] = "idle" /\ \A j : ~Queued(j)
<1>1. Spare = StorageIds
  BY BoundsAssumption DEF Init, Spare, StorageIds
<1>2. pc[Worker] = "idle" /\ refs = {} /\ queue = <<>>
  BY DEF Init, Procs
<1>3. \A j : ~Queued(j)
  BY <1>2 DEF Queued
<1> QED
  BY <1>1, <1>2, <1>3

LEMMA FineInvariant ==
    ASSUME Revisers = {}, MaxCrashes = 0
    PROVE  Spec => [](TypeInv /\ FreeListDiscipline /\ HoldInv /\ ReadInv /\ LinkInv /\ FineInv)
<1>1. Init => FineInv
  <2> SUFFICES ASSUME Init PROVE FineInv
    OBVIOUS
  <2>1. RowsFilled /\ ReplicatedRows
    BY NothingToDo DEF RowsFilled, ReplicatedRows, Replicating
  <2>2. OneReference /\ GarbageHeld /\ WorkerNeverFails
    BY NothingToDo DEF OneReference, StoresBytes, AcquiringOrWriting, GarbageHeld, Freeing,
                       WorkerNeverFails
  <2> QED
    BY <2>1, <2>2 DEF FineInv
<1>2. TypeInv /\ FreeListDiscipline /\ HoldInv /\ ReadInv /\ LinkInv /\ FineInv
          /\ ReadInv' /\ [Next]_vars => FineInv'
  <2> SUFFICES ASSUME TypeInv, FreeListDiscipline, HoldInv, ReadInv, LinkInv, FineInv,
                      ReadInv', [Next]_vars
               PROVE  FineInv'
    OBVIOUS
  <2>1. CASE Store(Worker)
    BY <2>1, Alone, FineStore
  <2>2. CASE Work /\ ~Store(Worker)
    BY <2>2, FineReplicate, FineCombine, FineMove, FineCollect DEF Work
  <2>3. CASE FinishUpload \/ ExpireFiles \/ UNCHANGED vars
    BY <2>3, FineEnv
  <2> QED
    BY <2>1, <2>2, <2>3, AloneSteps
<1> QED
  BY LinkInvariant, SerialIsApart, <1>1, <1>2, PTL DEF Spec

\* As long as nothing but the job worker stores and the process does not crash, none of
\* its jobs throws, so it never stops consuming its queue: no file and no row it needs is
\* missing, no row it inserts is there already, and the error that "should never happen"
\* when a block without locations is replicated does not.
THEOREM NoJobThrows ==
    ASSUME Revisers = {}, MaxCrashes = 0
    PROVE  Spec => []WorkerNeverFails
<1>1. FineInv => WorkerNeverFails
  BY DEF FineInv
<1> QED
  BY FineInvariant, <1>1, PTL

(* What FindReplicationBackends finds makes the replicas enough. *)
LEMMA ReplicationIsEnough ==
    ASSUME NEW ks \in SUBSET Backends
    PROVE  Enough(ks \cup FindReplicationBackends(ks))
<1> DEFINE new == FindReplicationBackends(ks)
<1> DEFINE before(k) == {l \in Backends \ ks : l < k}
<1>1. new = {k \in Backends \ ks : Cardinality(before(k)) < MAX_REPLICATION}
  BY DEF FindReplicationBackends
<1>2. IsFiniteSet(Backends) /\ Backends \subseteq Nat
  BY BoundsAssumption, FS_Interval DEF Backends
<1>3. CASE Backends \ (ks \cup new) = {}
  BY <1>1, <1>3 DEF Enough
<1>4. CASE Backends \ (ks \cup new) # {}
  <2> HIDE DEF new
  <2>1. PICK k \in Backends \ (ks \cup new) : IsLeast(k, Backends \ (ks \cup new))
    BY <1>4, LeastExists
  <2>2. before(k) \subseteq new
    <3> SUFFICES ASSUME NEW l \in Backends \ ks, l < k, l \notin new PROVE FALSE
      OBVIOUS
    <3>1. k <= l /\ k \in Nat /\ l \in Nat
      BY <1>2, <2>1 DEF IsLeast
    <3> QED
      BY <3>1
  <2>3. new \subseteq Backends
    BY <1>1
  <2>4. IsFiniteSet(before(k)) /\ IsFiniteSet(new) /\ IsFiniteSet(ks \cup new)
    BY <1>2, <2>3, FS_Subset
  <2>5. /\ Cardinality(before(k)) \in Nat /\ Cardinality(new) \in Nat
        /\ Cardinality(ks \cup new) \in Nat
    BY <2>4, FS_CardinalityType
  <2>6. Cardinality(before(k)) <= Cardinality(new)
    BY <2>2, <2>4, FS_Subset
  <2>7. Cardinality(new) <= Cardinality(ks \cup new)
    BY <2>4, FS_Subset
  <2>8. Cardinality(before(k)) >= MAX_REPLICATION
    BY <1>1, <2>1, <2>5, BoundsAssumption
  <2>9. Cardinality(ks \cup new) >= MAX_REPLICATION
    BY <2>5, <2>6, <2>7, <2>8, BoundsAssumption
  <2> QED
    BY <2>9 DEF Enough, new
<1> QED
  BY <1>3, <1>4

\* What a step leaves to be done when the worker is at neither.
LEMMA ReplicasStay ==
    ASSUME ReplicasComing, locs' = locs, Spare \subseteq Spare',
           \A s : Queued(ReplicateJob(s)) => Queued(ReplicateJob(s))',
           pc[Worker] \notin Replicating \cup Rewriting \cup Freeing,
           pc'[Worker] \notin {"fetch", "copy", "copied"}
    PROVE  ReplicasComing'
  BY DEF ReplicasComing

\* The labels that say what a collection or a writer is at.
AtCollection ==
    Freeing \cup {"refs", "move", "collect", "findBlobBlocks", "nextBlobBlock",
                  "deleteBlobBlock", "nextStorageBlock", "reset"}

LEMMA CollectionStays ==
    ASSUME CollectionComing, refs \subseteq refs', Spare \subseteq Spare',
           Queued(CollectJob) => Queued(CollectJob)',
           ~Writing(Worker), pc[Worker] \notin AtCollection
    PROVE  CollectionComing'
<1> SUFFICES ASSUME NEW s \in StorageIds \ Spare'
             PROVE  RefsTo(s)' # {} \/ Queued(CollectJob)'
  BY DEF CollectionComing
<1>1. RefsTo(s) # {} \/ Queued(CollectJob)
  BY DEF CollectionComing, AtCollection
<1> QED
  BY <1>1 DEF RefsTo

LEMMA TidyStore ==
    ASSUME TypeInv, FreeListDiscipline, HoldInv, ReadInv, LinkInv, FineInv, FineInv',
           TidyInv, Apart, Store(Worker)
    PROVE  TidyInv'
<1> USE DEF tables, catalog, table, stores, memory, locals, combine, results, outside,
      others, Goto, Fail, Return
<1> USE LocalTypes
<1>a. ReplicasComing /\ CollectionComing
  BY DEF TidyInv
<1>b. /\ pc[Worker] \in StoreLabels /\ pc'[Worker] \in StoreLabels \cup {"refs", "idle", "done"}
      /\ pc'[Worker] \notin {"fetch", "copy", "copied"}
  BY StoreControl DEF FineInv, WorkerNeverFails, StoreLabels, AcquiringOrWriting
<1>1. CASE \/ FindBlobBlock(Worker) \/ AddBlobBlock(Worker) \/ LockFreeList(Worker)
           \/ SelectFreed(Worker) \/ LinkBlob(Worker)
  <2>1. /\ UNCHANGED <<locs, freed, count, queue, refs>>
        /\ pc[Worker] \in {"find", "add", "lock", "select", "link"}
    BY <1>1 DEF FindBlobBlock, AddBlobBlock, LockFreeList, SelectFreed, LinkBlob
  <2>2. Spare' = Spare /\ \A j : Queued(j)' <=> Queued(j)
    BY <2>1 DEF Spare, Queued
  <2>3. ReplicasComing'
    BY <1>a, <1>b, <2>1, <2>2, ReplicasStay DEF Replicating, Rewriting, Freeing
  <2>4. CollectionComing'
    BY <1>a, <2>1, <2>2, CollectionStays DEF Writing, AtCollection, Freeing
  <2> QED
    BY <2>3, <2>4 DEF TidyInv
<1>2. CASE DeleteFreed(Worker) \/ CreateBlock(Worker)
  <2>1. /\ Spare' = Spare \ {blk'[Worker]} /\ UNCHANGED <<refs, locs>>
        /\ pc[Worker] \in {"unfree", "create"} /\ pc'[Worker] = "store"
    BY <1>2, Acquired DEF HoldInv
  <2>2. \A j : Queued(j)' <=> Queued(j)
    BY <1>2 DEF DeleteFreed, CreateBlock, Queued
  <2>3. ReplicasComing'
    BY <1>a, <2>1, <2>2 DEF ReplicasComing, Replicating, Rewriting, Freeing
  <2>4. CollectionComing'
    <3> SUFFICES ASSUME NEW s \in StorageIds \ Spare, s # blk'[Worker]
                 PROVE  RefsTo(s)' # {} \/ Queued(CollectJob)'
      BY <2>1 DEF CollectionComing, Writing
    <3>1. RefsTo(s) # {} \/ Queued(CollectJob)
      BY <1>a, <2>1 DEF CollectionComing, Writing, Freeing
    <3> QED
      BY <2>1, <2>2, <3>1 DEF RefsTo
  <2> QED
    BY <2>3, <2>4 DEF TidyInv
<1>3. CASE \/ StoreFile(Worker) \/ UpdateStorageBlockInfo(Worker) \/ AddBlockLocation(Worker)
           \/ PutOnResidualList(Worker) \/ QueryResidualBlockCount(Worker)
  <2>1. /\ UNCHANGED <<freed, count, refs, blk>> /\ pc[Worker] \in Rewriting
        /\ \A s \in StorageIds \ {blk[Worker]} : locs'[s] = locs[s]
        /\ \/ pc'[Worker] \in Rewriting /\ queue' = queue
           \/ EndWrite(Worker, <<>>) \/ EndWrite(Worker, <<CombineJob>>)
    <3>1. CASE StoreFile(Worker) \/ UpdateStorageBlockInfo(Worker)
      BY <3>1 DEF StoreFile, UpdateStorageBlockInfo, Rewriting
    <3>2. CASE AddBlockLocation(Worker)
      BY <3>2 DEF AddBlockLocation, Rewriting, FineInv, WorkerNeverFails
    <3>3. CASE PutOnResidualList(Worker) \/ QueryResidualBlockCount(Worker)
      BY <3>3 DEF PutOnResidualList, QueryResidualBlockCount, Rewriting, FineInv,
                  WorkerNeverFails
    <3> QED
      BY <1>3, <3>1, <3>2, <3>3
  <2>2. /\ \A j : Queued(j) => Queued(j)'
        /\ \/ pc'[Worker] \in Rewriting
           \/ /\ \A s : s = blk[Worker] => Queued(ReplicateJob(s))'
              /\ pc'[Worker] \in {"refs", "reference"}
    <3>1. CASE pc'[Worker] \in Rewriting /\ queue' = queue
      BY <3>1 DEF Queued
    <3>2. CASE EndWrite(Worker, <<>>) \/ EndWrite(Worker, <<CombineJob>>)
      <4>1. pc'[Worker] \in {"refs", "reference"}
        BY <3>2 DEF EndWrite
      <4> QED
        BY <3>2, <4>1, WrittenQueue
    <3> QED
      BY <2>1, <3>1, <3>2
  <2>3. Spare' = Spare
    BY <2>1 DEF Spare
  <2>4. ReplicasComing'
    <3>1. ASSUME NEW s \in StorageIds \ Spare, s # blk[Worker]
          PROVE  Enough(locs'[s]) \/ Queued(ReplicateJob(s))'
      BY <1>a, <2>1, <2>2, <3>1 DEF ReplicasComing
    <3> QED
      BY <1>b, <2>1, <2>2, <2>3, <3>1 DEF ReplicasComing
  <2>5. CollectionComing'
    <3>1. CASE pc'[Worker] = "refs"
      BY <3>1 DEF CollectionComing
    <3>2. CASE pc'[Worker] # "refs"
      <4>1. Writing(Worker)'
        BY <2>2, <3>2 DEF Writing, Rewriting
      <4> SUFFICES ASSUME NEW s \in StorageIds \ Spare, s # blk[Worker]
                   PROVE  RefsTo(s)' # {} \/ Queued(CollectJob)'
        BY <2>1, <2>3, <4>1 DEF CollectionComing
      <4>2. RefsTo(s) # {} \/ Queued(CollectJob)
        BY <1>a, <2>1 DEF CollectionComing, Rewriting, Freeing
      <4> QED
        BY <2>1, <2>2, <4>2 DEF RefsTo
    <3> QED
      BY <3>1, <3>2
  <2> QED
    BY <2>4, <2>5 DEF TidyInv
<1>4. CASE AddBlobBlockStorage(Worker)
  <2> DEFINE r0 == [blobBlock |-> bb[Worker], storageBlock |-> blk[Worker], offset |-> 0]
  <2>1. /\ UNCHANGED <<locs, freed, count, queue, blk>> /\ pc[Worker] = "reference"
        /\ refs' = refs \cup {r0}
    BY <1>4 DEF AddBlobBlockStorage, FineInv, WorkerNeverFails
  <2>2. Spare' = Spare /\ \A j : Queued(j)' <=> Queued(j)
    BY <2>1 DEF Spare, Queued
  <2>3. ReplicasComing'
    BY <1>a, <1>b, <2>1, <2>2, ReplicasStay DEF Replicating, Rewriting, Freeing
  <2>4. CollectionComing'
    <3> SUFFICES ASSUME NEW s \in StorageIds \ Spare
                 PROVE  RefsTo(s)' # {} \/ Queued(CollectJob)'
      BY <2>2 DEF CollectionComing
    <3>1. CASE s = blk[Worker]
      <4>1. r0 \in refs' /\ r0.storageBlock = s
        BY <2>1, <3>1
      <4> QED
        BY <4>1 DEF RefsTo
    <3>2. CASE s # blk[Worker]
      <4>1. RefsTo(s) # {} \/ Queued(CollectJob)
        BY <1>a, <2>1, <3>2 DEF CollectionComing, Freeing
      <4> QED
        BY <2>1, <2>2, <4>1 DEF RefsTo
    <3> QED
      BY <3>1, <3>2
  <2> QED
    BY <2>3, <2>4 DEF TidyInv
<1> QED
  BY <1>1, <1>2, <1>3, <1>4 DEF Store

LEMMA TidyReplicate ==
    ASSUME TypeInv, TypeInv', FineInv, FineInv', TidyInv,
           \/ Deliver \/ QueryBlockLocations \/ CheckFreeList \/ FetchBlock \/ CopyFile
           \/ AddReplicaLocation
    PROVE  TidyInv'
<1> USE DEF tables, catalog, table, stores, memory, locals, combine, results, outside,
      others, Goto, Fail, Return
<1> USE LocalTypes
<1>a. ReplicasComing /\ CollectionComing
  BY DEF TidyInv
<1>b. UNCHANGED <<refs, freed, count>> /\ Spare' = Spare
  BY DEF Deliver, QueryBlockLocations, CheckFreeList, FetchBlock, CopyFile,
         AddReplicaLocation, Spare
<1>1. CASE Deliver
  <2>1. /\ locs' = locs /\ pc[Worker] = "idle"
        /\ pc'[Worker] \in {"find", "locations", "combine", "collect"}
        /\ job'.type = "replicate" => /\ pc'[Worker] = "locations"
                                      /\ blk'[Worker] = job'.storageBlock
        /\ job'.type = "collect-garbage" => pc'[Worker] = "collect"
    BY <1>1 DEF Deliver
  <2>2. \A j : Queued(j) => Queued(j)' \/ j = job'
    BY <1>1, Delivered
  <2>3. ReplicasComing'
    <3> SUFFICES ASSUME NEW s \in StorageIds \ Spare
                 PROVE  \/ Enough(locs[s]) \/ Queued(ReplicateJob(s))'
                        \/ s = blk'[Worker] /\ pc'[Worker] \in Replicating
      BY <1>b, <2>1 DEF ReplicasComing
    <3>1. Enough(locs[s]) \/ Queued(ReplicateJob(s))
      BY <1>a, <2>1 DEF ReplicasComing, Replicating, Rewriting, Freeing
    <3>2. job' = ReplicateJob(s) => s = blk'[Worker] /\ pc'[Worker] \in Replicating
      BY <2>1 DEF ReplicateJob, Replicating
    <3> QED
      BY <2>2, <3>1, <3>2
  <2>4. CollectionComing'
    <3>1. job' = CollectJob => pc'[Worker] = "collect"
      BY <2>1 DEF CollectJob
    <3>2. CASE Queued(CollectJob) => Queued(CollectJob)'
      BY <1>a, <1>b, <2>1, <3>2, CollectionStays DEF Writing, AtCollection, Freeing
    <3>3. CASE pc'[Worker] = "collect"
      BY <3>3 DEF CollectionComing
    <3> QED
      BY <2>2, <3>1, <3>2, <3>3
  <2> QED
    BY <2>3, <2>4 DEF TidyInv
<1>2. CASE \/ QueryBlockLocations \/ CheckFreeList \/ FetchBlock \/ CopyFile
           \/ AddReplicaLocation
  <2>1. UNCHANGED <<queue, blk>> /\ pc[Worker] \in Replicating
    BY <1>2 DEF QueryBlockLocations, CheckFreeList, FetchBlock, CopyFile,
                AddReplicaLocation, Replicating
  <2>2. \A j : Queued(j)' <=> Queued(j)
    BY <2>1 DEF Queued
  <2>3. CollectionComing'
    BY <1>a, <1>b, <2>1, <2>2, CollectionStays
       DEF Writing, AtCollection, Freeing, Replicating
  <2>4. /\ \A s \in StorageIds \ {blk[Worker]} : locs'[s] = locs[s]
        /\ \/ pc'[Worker] \in Replicating \/ Enough(locs'[blk[Worker]])
           \/ blk[Worker] \in Spare
        /\ pc'[Worker] \in {"fetch", "copy", "copied"} => Enough(locs'[blk[Worker]] \cup targets')
    <3>1. CASE QueryBlockLocations
      <4> DEFINE ks == locs[blk[Worker]]
      <4>1. locs' = locs /\ ks \in SUBSET Backends
        BY <3>1 DEF QueryBlockLocations
      <4>2. CASE Cardinality(ks) >= MAX_REPLICATION \/ FindReplicationBackends(ks) = {}
        <5>1. Enough(ks)
          <6>1. CASE Cardinality(ks) >= MAX_REPLICATION
            BY <6>1 DEF Enough
          <6>2. CASE FindReplicationBackends(ks) = {}
            <7>1. ks \cup FindReplicationBackends(ks) = ks
              BY <6>2
            <7> QED
              BY <4>1, <7>1, ReplicationIsEnough
          <6> QED
            BY <4>2, <6>1, <6>2
        <5>2. pc'[Worker] = "idle"
          BY <3>1, <4>2 DEF QueryBlockLocations
        <5> QED
          BY <4>1, <5>1, <5>2
      <4>3. CASE ~(Cardinality(ks) >= MAX_REPLICATION \/ FindReplicationBackends(ks) = {})
        <5>1. pc'[Worker] \in {"checkFree", "fetch"} /\ targets' = FindReplicationBackends(ks)
          BY <3>1, <4>3 DEF QueryBlockLocations
        <5>2. Enough(ks \cup targets')
          BY <4>1, <5>1, ReplicationIsEnough
        <5> QED
          BY <4>1, <5>1, <5>2 DEF Replicating
      <4> QED
        BY <4>2, <4>3
    <3>2. CASE CheckFreeList
      <4>1. blk[Worker] \in freed /\ locs' = locs /\ pc'[Worker] = "idle"
        BY <3>2 DEF CheckFreeList, FineInv, WorkerNeverFails
      <4> QED
        BY <4>1 DEF Spare
    <3>3. CASE FetchBlock \/ CopyFile
      <4>1. /\ UNCHANGED <<locs, targets>> /\ pc[Worker] \in {"fetch", "copy"}
            /\ pc'[Worker] \in {"copy", "copied"}
        BY <3>3 DEF FetchBlock, CopyFile, FineInv, WorkerNeverFails
      <4> QED
        BY <1>a, <4>1 DEF ReplicasComing, Replicating
    <3>4. CASE AddReplicaLocation
      <4>1. PICK k \in targets :
                /\ locs' = [locs EXCEPT ![blk[Worker]] = @ \cup {k}]
                /\ targets' = targets \ {k}
                /\ \/ targets' = {} /\ pc'[Worker] = "idle"
                   \/ targets' # {} /\ pc'[Worker] = "copy"
        BY <3>4 DEF AddReplicaLocation, FineInv, WorkerNeverFails
      <4>2. pc[Worker] = "copied"
        BY <3>4 DEF AddReplicaLocation
      <4>3. locs'[blk[Worker]] \cup targets' = locs[blk[Worker]] \cup targets
        BY <4>1
      <4>4. Enough(locs'[blk[Worker]] \cup targets')
        BY <1>a, <4>2, <4>3 DEF ReplicasComing
      <4>5. targets' = {} => Enough(locs'[blk[Worker]])
        <5>1. targets' = {} => locs'[blk[Worker]] \cup targets' = locs'[blk[Worker]]
          OBVIOUS
        <5> QED
          BY <4>4, <5>1
      <4> QED
        BY <4>1, <4>4, <4>5 DEF Replicating
    <3> QED
      BY <1>2, <3>1, <3>2, <3>3, <3>4
  <2>5. ReplicasComing'
    <3>1. ASSUME NEW s \in StorageIds \ Spare, s # blk[Worker]
          PROVE  Enough(locs'[s]) \/ Queued(ReplicateJob(s))'
      BY <1>a, <2>2, <2>4, <3>1 DEF ReplicasComing
    <3> QED
      BY <1>b, <2>1, <2>4, <3>1 DEF ReplicasComing
  <2> QED
    BY <2>3, <2>5 DEF TidyInv
<1> QED
  BY <1>1, <1>2

LEMMA TidyCombine ==
    ASSUME TypeInv, FineInv, FineInv', TidyInv,
           \/ QueryResidualBlocks \/ ReadSource \/ QueryBlobBlocksInStorageBlock
           \/ MoveReference \/ RemoveReferencesToStorageBlockId
    PROVE  TidyInv'
<1> USE DEF tables, catalog, table, stores, memory, locals, combine, results, outside,
      others, Goto, Fail, Return
<1> USE LocalTypes
<1>a. ReplicasComing /\ CollectionComing
  BY DEF TidyInv
<1>1. /\ UNCHANGED <<locs, freed, count>> /\ Spare' = Spare
      /\ pc[Worker] \in {"combine", "read", "refs", "move"}
      /\ queue' = queue \/ (RemoveReferencesToStorageBlockId /\ Send(<<CollectJob>>))
  BY DEF QueryResidualBlocks, ReadSource, QueryBlobBlocksInStorageBlock, MoveReference,
         RemoveReferencesToStorageBlockId, Spare
<1>2. /\ \A j : Queued(j) => Queued(j)'
      /\ Send(<<CollectJob>>) => Queued(CollectJob)'
  <2>1. queue' = queue => \A j : Queued(j) => Queued(j)'
    BY DEF Queued
  <2> QED
    BY <1>1, <2>1, JobsAreJobs, SentOne
<1>3. pc'[Worker] \in {"idle", "read", "lock", "move", "refs"}
  BY DEF QueryResidualBlocks, ReadSource, QueryBlobBlocksInStorageBlock, MoveReference,
         RemoveReferencesToStorageBlockId, FineInv, WorkerNeverFails
<1>4. ReplicasComing'
  BY <1>a, <1>1, <1>2, <1>3, ReplicasStay DEF Replicating, Rewriting, Freeing
<1>5. CollectionComing'
  <2>1. CASE QueryResidualBlocks \/ ReadSource
    <3>1. refs' = refs /\ pc[Worker] \in {"combine", "read"}
      BY <2>1 DEF QueryResidualBlocks, ReadSource
    <3> QED
      BY <1>a, <1>1, <1>2, <3>1, CollectionStays DEF Writing, AtCollection, Freeing
  <2>2. CASE QueryBlobBlocksInStorageBlock \/ MoveReference \/ RemoveReferencesToStorageBlockId
    <3>1. pc'[Worker] \in {"refs", "move"} \/ Send(<<CollectJob>>)
      BY <2>2 DEF QueryBlobBlocksInStorageBlock, MoveReference,
                  RemoveReferencesToStorageBlockId, FineInv, WorkerNeverFails
    <3> QED
      BY <1>2, <3>1 DEF CollectionComing
  <2> QED
    BY <2>1, <2>2
<1> QED
  BY <1>4, <1>5 DEF TidyInv

LEMMA TidyCollect ==
    ASSUME TypeInv, FineInv, FineInv', TidyInv,
           \/ CollectBlobs \/ FindUnreferencedBlobBlocks \/ DeleteBlobBlockStorage
           \/ DeleteBlobBlock \/ FindUnreferencedStorageBlocks \/ FreeStorageBlock
           \/ DeleteFile \/ RemoveBlockLocation \/ DeleteResidual \/ InsertFreed
           \/ ResetInfo
    PROVE  TidyInv'
<1> USE DEF tables, catalog, table, stores, memory, locals, combine, results, outside,
      others, Goto, Fail, Return
<1> USE LocalTypes
<1>a. ReplicasComing /\ CollectionComing
  BY DEF TidyInv
<1>b. UNCHANGED <<count, queue>> /\ \A j : Queued(j)' <=> Queued(j)
  <2>1. UNCHANGED <<count, queue>>
    BY DEF CollectBlobs, FindUnreferencedBlobBlocks, DeleteBlobBlockStorage, DeleteBlobBlock,
           FindUnreferencedStorageBlocks, FreeStorageBlock, DeleteFile, RemoveBlockLocation,
           DeleteResidual, InsertFreed, ResetInfo
  <2> QED
    BY <2>1 DEF Queued
<1>1. CASE \/ CollectBlobs \/ FindUnreferencedBlobBlocks \/ DeleteBlobBlockStorage
           \/ DeleteBlobBlock
  <2>1. /\ UNCHANGED <<locs, freed>>
        /\ pc[Worker] \in {"collect", "findBlobBlocks", "nextBlobBlock", "deleteBlobBlock"}
        /\ pc'[Worker] \in {"findBlobBlocks", "nextBlobBlock", "deleteBlobBlock"}
    BY <1>1 DEF CollectBlobs, FindUnreferencedBlobBlocks, DeleteBlobBlockStorage,
                DeleteBlobBlock, FineInv, WorkerNeverFails
  <2>2. ReplicasComing'
    BY <1>a, <1>b, <2>1, ReplicasStay DEF Replicating, Rewriting, Freeing, Spare
  <2>3. CollectionComing'
    BY <2>1 DEF CollectionComing
  <2> QED
    BY <2>2, <2>3 DEF TidyInv
<1>2. CASE FindUnreferencedStorageBlocks
  <2>1. /\ UNCHANGED <<refs, locs, freed>> /\ pc[Worker] = "nextBlobBlock"
        /\ pc'[Worker] = "nextStorageBlock" /\ garbage' = Unreferenced
    BY <1>2 DEF FindUnreferencedStorageBlocks
  <2>2. ReplicasComing'
    BY <1>a, <1>b, <2>1, ReplicasStay DEF Replicating, Rewriting, Freeing, Spare
  <2>3. CollectionComing'
    <3> SUFFICES ASSUME NEW s \in StorageIds \ Spare, RefsTo(s) = {}
                 PROVE  s \in Unreferenced
      BY <1>b, <2>1 DEF CollectionComing, RefsTo, Spare
    <3>1. s \in 1..count /\ s \notin freed
      BY DEF Spare, StorageIds
    <3> QED
      BY <3>1 DEF Unreferenced
  <2> QED
    BY <2>2, <2>3 DEF TidyInv
<1>3. CASE FreeStorageBlock
  <2>1. /\ UNCHANGED <<refs, locs, freed>> /\ pc[Worker] = "nextStorageBlock"
        /\ \/ pc'[Worker] = "idle" /\ garbage = {}
           \/ pc'[Worker] = "deleteFile" /\ garbage' = garbage \ {blk'[Worker]}
    BY <1>3 DEF FreeStorageBlock
  <2>2. ReplicasComing'
    BY <1>a, <1>b, <2>1, ReplicasStay DEF Replicating, Rewriting, Freeing, Spare
  <2>3. CollectionComing'
    <3> SUFFICES ASSUME NEW s \in StorageIds \ Spare, RefsTo(s) = {}, ~Queued(CollectJob)
                 PROVE  /\ pc'[Worker] = "deleteFile"
                        /\ s = blk'[Worker] \/ s \in garbage'
      BY <1>b, <2>1 DEF CollectionComing, RefsTo, Spare, Freeing
    <3>1. s \in garbage
      BY <1>a, <2>1 DEF CollectionComing, Writing, Freeing
    <3> QED
      BY <2>1, <3>1
  <2> QED
    BY <2>2, <2>3 DEF TidyInv
<1>4. CASE \/ DeleteFile \/ RemoveBlockLocation \/ DeleteResidual \/ InsertFreed
           \/ ResetInfo
  <2>1. /\ UNCHANGED <<refs, garbage, blk>> /\ pc[Worker] \in Freeing \cup {"reset"}
        /\ \A s \in StorageIds \ {blk[Worker]} : locs'[s] = locs[s]
        /\ \/ pc'[Worker] \in Freeing /\ freed' = freed /\ pc[Worker] \in Freeing
           \/ pc'[Worker] = "reset" /\ freed' = freed \cup {blk[Worker]}
           \/ pc'[Worker] = "nextStorageBlock" /\ pc[Worker] = "reset" /\ UNCHANGED <<freed, locs>>
    BY <1>4 DEF DeleteFile, RemoveBlockLocation, DeleteResidual, InsertFreed, ResetInfo,
                Freeing, FineInv, WorkerNeverFails
  <2>2. /\ Spare \subseteq Spare'
        /\ pc'[Worker] = "reset" => blk[Worker] \in Spare'
    BY <1>b, <2>1 DEF Spare, Freeing
  <2>3. pc'[Worker] \in Freeing \cup {"reset", "nextStorageBlock"}
    BY <2>1
  <2>4. ReplicasComing'
    <3>1. ASSUME NEW s \in StorageIds \ Spare', s # blk[Worker]
          PROVE  Enough(locs'[s]) \/ Queued(ReplicateJob(s))'
      BY <1>a, <1>b, <2>1, <2>2, <3>1 DEF ReplicasComing
    <3>2. ASSUME blk[Worker] \notin Spare', pc'[Worker] \notin Freeing
          PROVE  \A s : s = blk[Worker] => Enough(locs'[s]) \/ Queued(ReplicateJob(s))'
      <4>1. pc[Worker] = "reset" /\ locs' = locs
        BY <2>1, <2>2, <3>2
      <4> QED
        BY <1>a, <1>b, <2>2, <3>2, <4>1 DEF ReplicasComing, Replicating, Rewriting, Freeing
    <3> QED
      BY <2>1, <2>3, <3>1, <3>2 DEF ReplicasComing, Freeing
  <2>5. CollectionComing'
    <3> SUFFICES ASSUME NEW s \in StorageIds \ Spare', RefsTo(s) = {}, ~Queued(CollectJob)
                 PROVE  (s = blk[Worker] /\ pc'[Worker] \in Freeing) \/ s \in garbage
      BY <1>b, <2>1, <2>3 DEF CollectionComing, RefsTo
    <3>1. (s = blk[Worker] /\ pc[Worker] \in Freeing) \/ s \in garbage
      BY <1>a, <2>1, <2>2 DEF CollectionComing, Writing, Freeing
    <3>2. s = blk[Worker] /\ pc[Worker] \in Freeing => pc'[Worker] \in Freeing
      BY <2>1, <2>2 DEF Freeing
    <3> QED
      BY <3>1, <3>2
  <2> QED
    BY <2>4, <2>5 DEF TidyInv
<1> QED
  BY <1>1, <1>2, <1>3, <1>4

LEMMA TidyEnv ==
    ASSUME TypeInv, TidyInv, FinishUpload \/ ExpireFiles \/ UNCHANGED vars
    PROVE  TidyInv'
<1> USE DEF tables, catalog, table, stores, memory, locals, combine, results, outside, others
<1>1. UNCHANGED <<refs, count, freed, locs, pc, blk, garbage, targets>> /\ Spare' = Spare
  BY DEF FinishUpload, ExpireFiles, vars, Spare
<1>2. \A j : Queued(j) => Queued(j)'
  <2>1. CASE FinishUpload
    <3>1. PICK b \in Uploads \ submitted : Send(<<UploadJob(b)>>)
      BY <2>1 DEF FinishUpload
    <3> QED
      BY <3>1, UploadsAssumption, JobsAreJobs, SentOne
  <2>2. CASE ExpireFiles \/ UNCHANGED vars
    BY <2>2 DEF ExpireFiles, vars, Queued
  <2> QED
    BY <2>1, <2>2
<1>3. ReplicasComing'
  BY <1>1, <1>2 DEF TidyInv, ReplicasComing
<1>4. CollectionComing'
  BY <1>1, <1>2 DEF TidyInv, CollectionComing, RefsTo, Writing
<1> QED
  BY <1>3, <1>4 DEF TidyInv

\* Once the queue of the worker is drained, and again as long as nothing else stores and the
\* process does not crash: every referenced block lies on as many backends as it should,
\* every blob block a file wants in exactly one storage block, and a block to which
\* nothing refers is on the free list.  So the jobs that are scheduled suffice, in any
\* order of uploads, expiries, replications, combinations and collections.
THEOREM DrainedQueueIsTidy ==
    ASSUME Revisers = {}, MaxCrashes = 0
    PROVE  Spec => []DrainedIsTidy
<1>1. Init => TidyInv
  BY NothingToDo DEF TidyInv, ReplicasComing, CollectionComing
<1>2. TypeInv /\ FreeListDiscipline /\ HoldInv /\ ReadInv /\ LinkInv /\ FineInv /\ TidyInv
          /\ TypeInv' /\ FineInv' /\ [Next]_vars => TidyInv'
  <2> SUFFICES ASSUME TypeInv, FreeListDiscipline, HoldInv, ReadInv, LinkInv, FineInv,
                      TidyInv, TypeInv', FineInv', [Next]_vars
               PROVE  TidyInv'
    OBVIOUS
  <2>1. CASE Store(Worker)
    BY <2>1, Alone, TidyStore
  <2>2. CASE Work /\ ~Store(Worker)
    BY <2>2, TidyReplicate, TidyCombine, TidyCollect DEF Work
  <2>3. CASE FinishUpload \/ ExpireFiles \/ UNCHANGED vars
    BY <2>3, TidyEnv
  <2> QED
    BY <2>1, <2>2, <2>3, AloneSteps
<1>3. TypeInv /\ HoldInv /\ LinkInv /\ FineInv /\ TidyInv => DrainedIsTidy
  <2> SUFFICES ASSUME TypeInv, HoldInv, LinkInv, FineInv, TidyInv, Quiescent
               PROVE  /\ \A r \in refs : Cardinality(locs[r.storageBlock]) >=
                             IF MAX_REPLICATION < NumberOfBackends THEN MAX_REPLICATION
                                                                   ELSE NumberOfBackends
                      /\ \A b \in BlobBlocks : link[b] = "wanted" => Cardinality(RefsOf(b)) = 1
                      /\ Unreferenced = {}
    BY DEF DrainedIsTidy
  <2>1. pc[Worker] \in {"idle", "done"} /\ Procs = {Worker} /\ \A j : ~Queued(j)
    BY Alone DEF Quiescent, Queued
  <2>2. ASSUME NEW r \in refs
        PROVE  Cardinality(locs[r.storageBlock]) >=
                   IF MAX_REPLICATION < NumberOfBackends THEN MAX_REPLICATION
                                                         ELSE NumberOfBackends
    <3> DEFINE ks == locs[r.storageBlock]
    <3>1. r.storageBlock \in StorageIds \ Spare
      BY ReferencedRows
    <3>2. Enough(ks)
      BY <2>1, <3>1 DEF TidyInv, ReplicasComing, Replicating, Rewriting, Freeing
    <3>3. Cardinality(Backends) = NumberOfBackends /\ IsFiniteSet(Backends)
      BY BoundsAssumption, FS_Interval DEF Backends
    <3>4. ks \in SUBSET Backends
      BY <3>1, LocalTypes
    <3>5. Cardinality(ks) \in Nat
      BY <3>3, <3>4, FS_Subset, FS_CardinalityType
    <3> HIDE DEF ks
    <3>6. Cardinality(ks) >= MAX_REPLICATION \/ Cardinality(ks) = NumberOfBackends
      BY <3>2, <3>3 DEF Enough
    <3>7. Cardinality(ks) >= IF MAX_REPLICATION < NumberOfBackends THEN MAX_REPLICATION
                                                                   ELSE NumberOfBackends
      BY <3>5, <3>6, BoundsAssumption
    <3> QED
      BY <3>7 DEF ks
  <2>3. ASSUME NEW b \in BlobBlocks, link[b] = "wanted" PROVE Cardinality(RefsOf(b)) = 1
    <3>1. b \in blobBlocks
      BY <2>3 DEF LinkInv, LinkedHasRow
    <3>2. RefsOf(b) # {}
      BY <2>1, <3>1 DEF LinkInv, RowsStored, StoresBytes, AcquiringOrWriting, Deleting
    <3>3. PICK r \in refs : r.blobBlock = b
      BY <3>2 DEF RefsOf
    <3>4. \A q \in refs : q.blobBlock = b => q = r
      BY <2>1, <3>3 DEF FineInv, OneReference
    <3>5. RefsOf(b) = {r}
      BY <3>3, <3>4 DEF RefsOf
    <3> QED
      BY <3>5, FS_Singleton
  <2>4. ASSUME NEW s \in Unreferenced PROVE FALSE
    <3>1. s \in 1..count /\ RefsTo(s) = {} /\ s \notin freed
      BY DEF Unreferenced
    <3>2. s \in StorageIds \ Spare
      BY <3>1, BoundsAssumption DEF TypeInv, TypeOK, TableOK, Spare, StorageIds
    <3> QED
      BY <2>1, <3>1, <3>2 DEF TidyInv, CollectionComing, Writing, Freeing
  <2> QED
    BY <2>2, <2>3, <2>4
<1> QED
  BY FineInvariant, <1>1, <1>2, <1>3, PTL DEF Spec

=============================================================================
