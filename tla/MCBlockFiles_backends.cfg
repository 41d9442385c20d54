CONSTANTS
    job = job
    request = request
    Callers = {job, request}
    Worker = job
    StorageBlocks = {1, 2}
    FullBlocks = {1}
    NumberOfBackends = 2
    Known = {1}
    Remote = {1}
    MAX_REPLICATION = 2
    MaxVersions = 2
    MaxFailures = 1
SPECIFICATION FairSpec
CHECK_DEADLOCK FALSE
INVARIANT LocatedIsSealed
PROPERTY BackendsAreReleased
