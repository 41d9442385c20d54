CONSTANTS
    b1 = b1
    b2 = b2
    b3 = b3
    b4 = b4
    BlobBlocks = {b1, b2, b3}
    Size <- MCSize
    Worker = worker
    Revisers = {r1}
    Nobody = nobody
    NumberOfBackends = 2
    BLOCKSIZE = 3
    THRESHOLD = 1
    MAX_REPLICATION = 2
    Uploads = {b1, b2}
    Revised = {b1}
    Expirable = {b1}
    FreedBefore = 0
    MaxStorageBlocks = 5
    MaxCrashes = 1
SPECIFICATION Spec
ACTION_CONSTRAINT StaysApart
CHECK_DEADLOCK FALSE
INVARIANT FreeBlocksAreUnused
INVARIANT ReferencesAreReadable
