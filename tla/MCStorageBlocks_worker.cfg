CONSTANTS
    b1 = b1
    b2 = b2
    b3 = b3
    b4 = b4
    BlobBlocks = {b1, b2, b3}
    Size <- MCSize
    Worker = worker
    Revisers = {}
    Nobody = nobody
    NumberOfBackends = 3
    BLOCKSIZE = 3
    THRESHOLD = 1
    MAX_REPLICATION = 2
    Uploads = {b1, b2, b3}
    Revised = {}
    Expirable = {b1}
    FreedBefore = 0
    MaxStorageBlocks = 7
    MaxCrashes = 0
SPECIFICATION FairSpec
CHECK_DEADLOCK FALSE
INVARIANT CacheIsCurrent
INVARIANT WorkerNeverFails
INVARIANT DrainedIsTidy
PROPERTY QueueDrains
