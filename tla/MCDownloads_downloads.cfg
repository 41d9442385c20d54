CONSTANTS
    p = p
    q = q
    x = x
    r1 = r1
    r2 = r2
    Streams = {r1}
    Slices = {r2}
    Blobs = {1, 2}
    Parts <- MCParts
    Size <- MCSize
    Residual <- MCResidual
    Coming = {x}
    CONFIG_MAX_NUMBER_OF_CACHED_BLOCKS = 1
    Ranges <- MCRanges
    RangeChunk = 2
    MaxFailures = 1
SPECIFICATION FairSpec
CHECK_DEADLOCK FALSE
INVARIANT ServedIsRight
INVARIANT CacheIsBounded
PROPERTY DownloadsAreServed
