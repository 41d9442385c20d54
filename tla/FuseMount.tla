----------------------------- MODULE FuseMount -----------------------------
(***************************************************************************)
(* mount-fuse.py: a container mounted as a file system.  The mount is one  *)
(* thread and a client of the service that never renews its token.  What   *)
(* it learns of a directory or a file it remembers for as long as it runs; *)
(* what it asks for when the token has expired is refused (main.ts), and   *)
(* the answer, whose status nobody looks at, raises an exception.  Here    *)
(* the container is one directory.  The kernel looks a path up (getattr)   *)
(* before it opens it.                                                     *)
(***************************************************************************)
EXTENDS StreamingKeys

CONSTANTS
    Mounts,         \* the clients that are mounts; the others are players
    MountExpiry     \* when the token of a mount expires

ASSUME MountsAreClients == Mounts \subseteq Clients /\ MountExpiry \in Nat

VARIABLES
    listed,         \* children # None: the directory has been read
    pathCache,      \* what is remembered of a path
    fileAttributes, \* the revision the attributes of a file were read of, or 0
    lookups,        \* history: lookups of a path that were answered, counted to two,
                    \* and the answer of the last lookup
    present         \* history: the files that existed when the directory was read

mount == <<listed, pathCache, fileAttributes>>
mountVars == <<streamingVars, mount, lookups, present>>

MountInit ==
    /\ StreamingInit
    /\ listed = [m \in Mounts |-> FALSE]
    /\ pathCache = [m \in Mounts |-> [f \in Files |-> "unknown"]]
    /\ fileAttributes = [m \in Mounts |-> [f \in Files |-> 0]]
    /\ lookups = [m \in Mounts |-> [f \in Files |-> [number |-> 0, answer |-> "none"]]]
    /\ present = [m \in Mounts |-> {}]

Existing == {f \in Files : newest[f] # 0}

\* What the JWTVerifier says of a mount's token; in the second it expires, either.
Accepted == now <= MountExpiry
Refused  == now >= MountExpiry

\* The container, and its one directory, are read once.
CacheChildren(m) ==
    /\ listed' = [listed EXCEPT ![m] = TRUE]
    /\ present' = [present EXCEPT ![m] = Existing]

Looked(m, f, answer) ==
    lookups' = [lookups EXCEPT ![m][f] =
                    [number |-> IF @.number = 0 THEN 1 ELSE 2, answer |-> answer]]

\* Mutant: of the children of the directory nothing is remembered.
EnsureParentIsCached_KeepsNothing(m, f) ==
    /\ pathCache[m][f] = "unknown"
    /\ IF listed[m] THEN UNCHANGED <<listed, present, service, counting>>
       ELSE Accepted /\ CacheChildren(m) /\ Invalidate(UserOf[m])
    /\ pathCache' = [pathCache EXCEPT ![m][f] = "missing"]
    /\ Looked(m, f, "missing")
    /\ UNCHANGED <<catalogue, now, address, asking, holding, fileAttributes>>

\* A path never seen is not found, even where reading its directory has shown it.
EnsureParentIsCached(m, f) ==
    LET seen == IF listed[m] THEN pathCache[m]
                ELSE [g \in Files |-> IF g \in Existing THEN "file" ELSE pathCache[m][g]]
    IN /\ pathCache[m][f] = "unknown"
       /\ IF listed[m] THEN UNCHANGED <<listed, present, service, counting>>
          ELSE Accepted /\ CacheChildren(m) /\ Invalidate(UserOf[m])
       /\ pathCache' = [pathCache EXCEPT ![m] =
                            [seen EXCEPT ![f] = IF @ = "unknown" THEN "missing" ELSE @]]
       /\ Looked(m, f, "missing")
       /\ UNCHANGED <<catalogue, now, address, asking, holding, fileAttributes>>

\* The attributes are asked for once.
GetAttributes(m, f) ==
    /\ pathCache[m][f] # "unknown"
    /\ Looked(m, f, IF pathCache[m][f] = "file" THEN "found" ELSE "missing")
    /\ IF pathCache[m][f] = "file" /\ fileAttributes[m][f] = 0
       THEN /\ Accepted
            /\ fileAttributes' = [fileAttributes EXCEPT ![m][f] = newest[f]]
            /\ Invalidate(UserOf[m])
       ELSE UNCHANGED <<fileAttributes, service, counting>>
    /\ UNCHANGED <<catalogue, now, address, asking, holding, listed, pathCache, present>>

\* The request for the directory, or for the attributes, is refused: results["dirs"] and
\* json["blobId"] raise a KeyError, and nothing is remembered.  (Where listing a directory
\* or opening a file is refused the same happens, and there is nothing to record.)
LookupFails(m, f) ==
    /\ Refused
    /\ \/ pathCache[m][f] = "unknown" /\ ~ listed[m]
       \/ pathCache[m][f] = "file" /\ fileAttributes[m][f] = 0
    /\ lookups' = [lookups EXCEPT ![m][f].answer = "error"]
    /\ UNCHANGED <<streamingVars, mount, present>>

ListDirectoryContents(m) ==
    /\ ~ listed[m] /\ Accepted
    /\ CacheChildren(m)
    /\ Invalidate(UserOf[m])
    /\ pathCache' = [pathCache EXCEPT ![m] =
                        [f \in Files |-> IF f \in Existing THEN "file" ELSE @[f]]]
    /\ UNCHANGED <<catalogue, now, address, asking, holding, fileAttributes, lookups>>

OpenFile(m, f) ==
    /\ pathCache[m][f] = "file" /\ fileAttributes[m][f] # 0 /\ Accepted
    /\ RequestStreamingKey(m, f)
    /\ UNCHANGED <<mount, lookups, present>>

\* The handle pairs the new key with the blob that is remembered.
FileIsOpened(m) ==
    /\ asking[m].at = "create"
    /\ CreateStreamingKey(m, MountExpiry,
            Original(asking[m].file, fileAttributes[m][asking[m].file]), holding[m])
    /\ UNCHANGED <<mount, lookups, present>>

\* A refusal is returned as the content of the file.
DownloadSlice(m) ==
    /\ asking[m] = NotAsking
    /\ \E handle \in holding[m] : StreamBlob(m, handle)
    /\ UNCHANGED <<mount, lookups, present>>

CloseFile(m) ==
    /\ asking[m] = NotAsking
    /\ \E handle \in holding[m] : holding' = [holding EXCEPT ![m] = @ \ {handle}]
    /\ UNCHANGED <<catalogue, now, address, service, asking, counting, mount, lookups, present>>

Operation(m) ==
    \/ asking[m] = NotAsking /\ ListDirectoryContents(m)
    \/ DownloadSlice(m) \/ CloseFile(m) \/ FileIsOpened(m)
    \/ \E f \in Files :
          \/ OpenFile(m, f)
          \/ /\ asking[m] = NotAsking
             /\ EnsureParentIsCached(m, f) \/ GetAttributes(m, f) \/ LookupFails(m, f)

MountNext ==
    \/ \E m \in Mounts : Operation(m)
    \/ /\ \/ \E c \in Clients \ Mounts : Player(c)
          \/ \E c \in Clients : Serve(c)
          \/ Environment
       /\ UNCHANGED <<mount, lookups, present>>

MountSpec == MountInit /\ [][MountNext]_mountVars

(***************************************************************************)
(* Properties.                                                             *)
(***************************************************************************)
Lookup == [number : 0..2, answer : {"none", "missing", "found", "error"}]

CachesTypeOK ==
    /\ listed \in [Mounts -> BOOLEAN]
    /\ pathCache \in [Mounts -> [Files -> {"unknown", "missing", "file"}]]
    /\ fileAttributes \in [Mounts -> [Files -> 0..MaxRevisions]]
    /\ lookups \in [Mounts -> [Files -> Lookup]]
    /\ present \in [Mounts -> SUBSET Files]

MountTypeOK == StreamingTypeOK /\ CachesTypeOK

\* A file that existed when its directory was read is not missing to a lookup from the
\* second one on that is answered, and one that did not is never found.  A lookup is
\* answered unless the token of the mount has expired, and even then once the attributes
\* of the file are known.
FoundFromSecondLookup ==
    \A m \in Mounts, f \in Files :
        LET lookup == lookups[m][f] IN
        /\ lookup.answer = "found" => f \in present[m]
        /\ lookup.number = 2 /\ f \in present[m] => lookup.answer # "missing"
        /\ lookup.answer = "error" => now >= MountExpiry /\ fileAttributes[m][f] = 0

=============================================================================
