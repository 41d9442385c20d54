CONSTANTS
    u1 = u1
    u2 = u2
    Uploads = {u1, u2}
    NewFiles = {u1}
    Size <- MCSize
    ChunkSize = 2
    CONST_BLOCKSIZE = 2
    ChannelMax = 2
    MaxRepeats = 1
    MaxCrashes = 1
SPECIFICATION FairSpec
CHECK_DEADLOCK FALSE
INVARIANT StoredIsFile
PROPERTY ContractIsKept
PROPERTY SuccessIsStored
