----------------------------- MODULE BlockFiles -----------------------------
(***************************************************************************)
(* How a storage block becomes an encrypted file of a storage backend and  *)
(* is read back: WriteStorageBlock, Replicate, downloads and the freeing   *)
(* of a block in StorageBlocksManager, StorageBackendsManager with the     *)
(* lock of each backend, and the drivers.  Which blocks there are to write *)
(* or to free is the matter of StorageBlocks, the keys of EncryptionKeys:  *)
(* here an encrypted block is named by the number of its writing, and      *)
(* decrypting it succeeds with the iv and authTag of that writing.         *)
(*                                                                         *)
(* A driver on the host's file system throws when a call fails.  The       *)
(* others run rclone: they look at the exit code only when they read, and  *)
(* the process may have exited before all of its output has been read.     *)
(***************************************************************************)
EXTENDS Naturals, Sequences, SequencesExt, FiniteSets

CONSTANTS
    Callers,        \* requests and jobs
    Worker,         \* the caller that does the jobs
    StorageBlocks,
    FullBlocks,     \* the storage blocks stored before the model starts
    NumberOfBackends, \* backends are numbered, faster tiers first
    Known,          \* the backends that exist from the start; others are added
    Remote,         \* backends that run rclone
    MAX_REPLICATION,
    MaxVersions, MaxFailures \* bounds: writings, calls of a backend that fail

ASSUME BackendsExist ==
    /\ Worker \in Callers /\ FullBlocks \subseteq StorageBlocks
    /\ NumberOfBackends \in Nat /\ Known # {} /\ Known \subseteq 1..NumberOfBackends

VARIABLES
    rows, backends, \* storagebackends, and the instances in memory
    line,           \* LockedProperty of each backend: who has it, and who waits
    files,          \* the file of a block on a backend
    info,           \* iv and authTag: the content they belong to
    locations,      \* storagebackends_storageblocks
    free,           \* blocks to be acquired
    version,        \* the number of writings so far
    task,           \* what a caller does
    doubtful,       \* history: copies that a failed rclone has had a part in
    collected,      \* history: unreferenced blocks whose freeing has begun, until written again
    failures        \* calls of a backend that have failed

vars == <<rows, backends, line, files, info, locations, free, version, task, doubtful,
               collected, failures>>
tables == <<rows, backends, info, locations, free, version, collected>>

Backends == 1..NumberOfBackends
NoFile == [version |-> 0, whole |-> FALSE]
Sealed(n) == [version |-> n, whole |-> TRUE]
Cut(file) == [file EXCEPT !.whole = FALSE]
NoTask == [op |-> "none", at |-> "done", block |-> 0, backend |-> 0,
           data |-> NoFile, doubt |-> FALSE,
           targets |-> {}]

Init ==
    /\ rows = Known /\ backends = Known
    /\ line = [b \in Backends |-> <<>>]
    /\ info = [s \in StorageBlocks |-> IF s \in FullBlocks THEN Sealed(1) ELSE NoFile]
    /\ \E first \in Known :
          /\ \A b \in Known : first <= b
          /\ locations = FullBlocks \X {first}
          /\ files = [b \in Backends |-> [s \in StorageBlocks |->
                        IF b = first THEN info[s] ELSE NoFile]]
    /\ free = StorageBlocks \ FullBlocks
    /\ version = 1
    /\ task = [c \in Callers |-> NoTask]
    /\ doubtful = {} /\ collected = {} /\ failures = 0

LocationsOf(s) == {b \in Backends : <<s, b>> \in locations}
Fastest(B) == CHOOSE b \in B : \A other \in B : b <= other

(***************************************************************************)
(* LockedStorageBackend: a call waits for the lock of the backend, and     *)
(* releases it whether it throws or not.  LockedProperty, of a library, is *)
(* taken to serve those who wait in the order in which they came.          *)
(***************************************************************************)
Calls == {"mkdir", "store", "read", "delete"}
Holds(c) == task[c].backend \in Backends /\ line[task[c].backend] # <<>>
            /\ Head(line[task[c].backend]) = c

\* Mutant: a call that throws does not release the lock.
Proceed_KeepsLock(c, next) ==
    LET left == [b \in Backends |-> SelectSeq(line[b], LAMBDA d : d # c)] IN
    /\ task' = [task EXCEPT ![c] = next]
    /\ line' = IF next.at \in Calls THEN [left EXCEPT ![next.backend] = Append(@, c)]
               ELSE IF next.at \in {"done", "failed"} THEN line ELSE left

Proceed(c, next) ==
    LET left == [b \in Backends |-> SelectSeq(line[b], LAMBDA d : d # c)] IN
    /\ task' = [task EXCEPT ![c] = next]
    /\ line' = IF next.at \in Calls THEN [left EXCEPT ![next.backend] = Append(@, c)] ELSE left

Enter(c, at) == Proceed(c, [task[c] EXCEPT !.at = at])

\* A request fails; the worker gets no other job before a restart.
Throw(c) == Proceed(c, IF c = Worker THEN [task[c] EXCEPT !.at = "failed"] ELSE NoTask)

MayFail == failures < MaxFailures /\ failures' = failures + 1
NoFailure == failures' = failures

(***************************************************************************)
(* StorageBackendsManager.                                                 *)
(***************************************************************************)
\* The connection test has succeeded.
InsertBackend(b) ==
    /\ b \notin rows
    /\ rows' = rows \cup {b}
    /\ UNCHANGED <<backends, line, files, info, locations, free, version, collected, task, doubtful,
                   failures>>

AddBackend(b) ==
    /\ b \in rows \ backends
    /\ backends' = backends \cup {b}
    /\ UNCHANGED <<rows, line, files, info, locations, free, version, collected, task, doubtful,
                   failures>>

(***************************************************************************)
(* WriteStorageBlock.                                                      *)
(***************************************************************************)
Idle(c) == task[c] = NoTask
BeingReset(s) == task[Worker].at = "reset" /\ task[Worker].block = s

WriteStorageBlock(c, s) ==
    /\ Idle(c) /\ s \in free /\ version < MaxVersions
    /\ free' = free \ {s}
    /\ collected' = IF BeingReset(s) THEN collected ELSE collected \ {s}
    /\ version' = version + 1
    /\ Proceed(c, [NoTask EXCEPT !.op = "write", !.at = "mkdir", !.block = s,
                                 !.backend = Fastest(backends), !.data.version = version'])
    /\ UNCHANGED <<rows, backends, files, info, locations, doubtful, failures>>

CreateDirectoryIfNotExisting(c) ==
    /\ task[c].at = "mkdir" /\ Holds(c)
    /\ \/ NoFailure /\ Enter(c, IF task[c].op = "write" THEN "encrypt" ELSE "store")
       \/ task[c].backend \notin Remote /\ MayFail /\ Throw(c)
    /\ UNCHANGED <<tables, files, doubtful>>

\* The key of the partition is there, or fetching it throws.
EncryptBlock(c) ==
    /\ task[c].at = "encrypt"
    /\ \/ Proceed(c, [task[c] EXCEPT !.at = "store", !.data.whole = TRUE])
       \/ Throw(c)
    /\ UNCHANGED <<tables, files, doubtful, failures>>

Copy(c) == <<task[c].block, task[c].backend>>
Stored(c, file) == files' = [files EXCEPT ![task[c].backend][task[c].block] = file]

\* Mutant: a failed write on the host is not noticed, either.
StoreFile_Silent(c) ==
    /\ task[c].at = "store" /\ Holds(c)
    /\ \/ /\ NoFailure /\ Stored(c, task[c].data)
          /\ doubtful' = IF task[c].doubt THEN doubtful \cup {Copy(c)} ELSE doubtful \ {Copy(c)}
       \/ /\ MayFail /\ Stored(c, Cut(task[c].data))
          /\ doubtful' = IF task[c].backend \in Remote THEN doubtful \cup {Copy(c)} ELSE doubtful
    /\ Enter(c, IF task[c].op = "write" THEN "info" ELSE "locate")
    /\ UNCHANGED tables

\* A failed call leaves the file as it was or cut; only the host's driver throws.
StoreFile(c) ==
    LET remote == task[c].backend \in Remote
        then == IF task[c].op = "write" THEN "info" ELSE "locate"
    IN /\ task[c].at = "store" /\ Holds(c)
       /\ \/ /\ NoFailure /\ Stored(c, task[c].data) /\ Enter(c, then)
             /\ doubtful' = IF task[c].doubt THEN doubtful \cup {Copy(c)} ELSE doubtful \ {Copy(c)}
          \/ /\ MayFail
             /\ Stored(c, Cut(task[c].data)) \/ files' = files
             /\ IF remote THEN Enter(c, then) /\ doubtful' = doubtful \cup {Copy(c)}
                          ELSE Throw(c) /\ doubtful' = doubtful
       /\ UNCHANGED tables

UpdateStorageBlockInfo(c) ==
    /\ task[c].at = "info"
    /\ info' = [info EXCEPT ![task[c].block] = task[c].data]
    /\ Enter(c, "locate")
    /\ UNCHANGED <<rows, backends, files, locations, free, version, collected, doubtful, failures>>

\* Replicate goes on with the next backend.
AddBlockLocation(c) ==
    LET left == task[c].targets \ {task[c].backend} IN
    /\ task[c].at = "locate"
    /\ locations' = locations \cup {Copy(c)}
    /\ Proceed(c, IF left = {} THEN NoTask
                  ELSE [task[c] EXCEPT !.at = "mkdir", !.backend = Fastest(left), !.targets = left])
    /\ UNCHANGED <<rows, backends, files, info, free, version, collected, doubtful, failures>>

(***************************************************************************)
(* Downloads, and Replicate, which stores what it has read as it is.       *)
(***************************************************************************)
DownloadEncryptedStorageBlock(c, s, op, targets) ==
    /\ Idle(c) /\ LocationsOf(s) # {}
    /\ Proceed(c, [NoTask EXCEPT !.op = op, !.at = "read", !.block = s,
                                 !.backend = Fastest(LocationsOf(s)), !.targets = targets])
    /\ UNCHANGED <<tables, files, doubtful, failures>>

FindReplicationBackends(s) ==
    LET others == backends \ LocationsOf(s) IN
    {b \in others : Cardinality({d \in others : d < b}) < MAX_REPLICATION}

Replicate(s) ==
    /\ Cardinality(LocationsOf(s)) < MAX_REPLICATION /\ FindReplicationBackends(s) # {}
    /\ DownloadEncryptedStorageBlock(Worker, s, "replicate", FindReplicationBackends(s))

Download(c, s) == DownloadEncryptedStorageBlock(c, s, "download", {})

\* All of the file, none, or what had been read when the process exited.
ReadFile(c) ==
    LET file == files[task[c].backend][task[c].block]
        remote == task[c].backend \in Remote
        Has(data, doubt) == [task[c] EXCEPT !.data = data, !.doubt = doubt,
            !.at = IF task[c].op = "download" THEN "decrypt" ELSE "mkdir",
            !.backend = IF task[c].op = "download" THEN @ ELSE Fastest(task[c].targets)]
    IN /\ task[c].at = "read" /\ Holds(c)
       /\ \/ file # NoFile /\ NoFailure /\ Proceed(c, Has(file, Copy(c) \in doubtful))
          \/ file # NoFile /\ remote /\ MayFail /\ Proceed(c, Has(Cut(file), TRUE))
          \/ (IF file = NoFile THEN NoFailure ELSE MayFail) /\ Throw(c)
       /\ UNCHANGED <<tables, files, doubtful>>

\* The iv and the authTag are those of now, and fit or do not.
DecryptBlock(c) ==
    /\ task[c].at = "decrypt"
    /\ IF info[task[c].block] = task[c].data THEN Proceed(c, NoTask) ELSE Throw(c)
    /\ UNCHANGED <<tables, files, doubtful, failures>>

(***************************************************************************)
(* FreeUnreferencedStorageBlock, of a block nobody is writing.             *)
(***************************************************************************)
NextRemoval(s, from) ==
    IF from = {} THEN [NoTask EXCEPT !.op = "free", !.at = "free", !.block = s]
    ELSE [NoTask EXCEPT !.op = "free", !.at = "delete", !.block = s, !.backend = Fastest(from),
                        !.targets = from]

RemoveStorageBlockFromAllLocations(s) ==
    /\ Idle(Worker) /\ s \notin free
    /\ \A c \in Callers : ~ (task[c].op = "write" /\ task[c].block = s)
    /\ Proceed(Worker, NextRemoval(s, LocationsOf(s)))
    /\ collected' = collected \cup {s}
    /\ UNCHANGED <<rows, backends, info, locations, free, version, files, doubtful, failures>>

DeleteFile ==
    LET b == task[Worker].backend  s == task[Worker].block  remote == b \in Remote IN
    /\ task[Worker].at = "delete" /\ Holds(Worker)
    /\ \/ /\ files[b][s] # NoFile \/ remote
          /\ NoFailure /\ Stored(Worker, NoFile) /\ Enter(Worker, "forget")
       \/ /\ IF files[b][s] # NoFile THEN MayFail ELSE ~ remote /\ NoFailure
          /\ files' = files
          /\ IF remote THEN Enter(Worker, "forget") ELSE Throw(Worker)
    /\ UNCHANGED <<tables, doubtful>>

RemoveBlockLocation ==
    /\ task[Worker].at = "forget"
    /\ locations' = locations \ {Copy(Worker)}
    /\ doubtful' = doubtful \ {Copy(Worker)}
    /\ Proceed(Worker, NextRemoval(task[Worker].block,
                                   task[Worker].targets \ {task[Worker].backend}))
    /\ UNCHANGED <<rows, backends, files, info, free, version, collected, failures>>

FreeBlock ==
    /\ task[Worker].at = "free"
    /\ free' = free \cup {task[Worker].block}
    /\ Enter(Worker, "reset")
    /\ UNCHANGED <<rows, backends, files, info, locations, version, collected, doubtful, failures>>

\* A request may have written the block since it was put on the free list.
ResetInfo ==
    /\ task[Worker].at = "reset"
    /\ info' = [info EXCEPT ![task[Worker].block] = NoFile]
    /\ Proceed(Worker, NoTask)
    /\ UNCHANGED <<rows, backends, files, locations, free, version, collected, doubtful, failures>>

\* Reload reads the backends of the table.
Crash ==
    /\ backends' = rows
    /\ line' = [b \in Backends |-> <<>>] /\ task' = [c \in Callers |-> NoTask]
    /\ UNCHANGED <<rows, files, info, locations, free, version, collected, doubtful, failures>>

Call(c) == CreateDirectoryIfNotExisting(c) \/ StoreFile(c) \/ ReadFile(c)

Work(c) ==
    \/ Call(c) \/ EncryptBlock(c) \/ DecryptBlock(c)
    \/ UpdateStorageBlockInfo(c) \/ AddBlockLocation(c)

Next ==
    \/ Crash \/ DeleteFile \/ RemoveBlockLocation \/ FreeBlock \/ ResetInfo
    \/ \E b \in Backends : InsertBackend(b) \/ AddBackend(b)
    \/ \E c \in Callers : Work(c)
    \/ \E c \in Callers, s \in StorageBlocks : WriteStorageBlock(c, s) \/ Download(c, s)
    \/ \E s \in StorageBlocks : Replicate(s) \/ RemoveStorageBlockFromAllLocations(s)

Spec == Init /\ [][Next]_vars

\* Calls of a backend return or throw.
FairSpec ==
    /\ Spec
    /\ \A c \in Callers : WF_vars(Call(c))
    /\ WF_vars(DeleteFile)

(***************************************************************************)
(* Properties.                                                             *)
(***************************************************************************)
\* Where a location says that a backend has a block that may be referenced, its file is
\* what the iv and the authTag of the block belong to, unless a failed rclone had a part
\* in that copy, or the block was written while the iv of its last use was being reset.
LocatedIsSealed ==
    \A s \in StorageBlocks \ collected : \A b \in LocationsOf(s) :
        (files[b][s] = info[s] /\ info[s].whole) \/ <<s, b>> \in doubtful

\* Whoever waits for a backend gets it, and lets go of it, however many calls fail.
BackendsAreReleased ==
    \A c \in Callers, b \in Backends : c \in Range(line[b]) ~> c \notin Range(line[b])

=============================================================================
