CONSTANTS
    b1 = b1
    b2 = b2
    b3 = b3
    b4 = b4
    BlobBlocks = {b1, b4}
    Size <- MCSize
    Worker = worker
    Revisers = {r1, r2}
    Nobody = nobody
    NumberOfBackends = 2
    BLOCKSIZE = 3
    THRESHOLD = 4
    MAX_REPLICATION = 2
    Uploads = {b1, b4}
    Revised = {b1, b4}
    Expirable = {}
    FreedBefore = 1
    MaxStorageBlocks = 5
    MaxCrashes = 0
SPECIFICATION FairSpec
CHECK_DEADLOCK FALSE
INVARIANT FreeListDiscipline
INVARIANT ExclusiveWriters
INVARIANT LinkedIsStoredOrComing
PROPERTY RevisionsComplete
