SPECIFICATION Spec
CONSTANTS
    x = x
    y = y
    short = short
    long = long
    BlobBlocks = {x, y}
    Contents = {short, long}
    Parts <- MCParts
    Worker = worker
    Requests = {r}
    Names = {n}
    NoName = NoName
    Uploads = {u1, u2}
    MaxFiles = 2
    MaxCollections = 2
    MaxCrashes = 1
INVARIANTS
    RevisionsAreReadable
    FilesHaveRevisions
PROPERTIES
    WorkerStopsOnlyOverFiles
    UploadsAreKept
CHECK_DEADLOCK FALSE
