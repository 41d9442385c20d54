CONSTANTS
    f1 = f1
    f2 = f2
    f3 = f3
    c1 = c1
    c2 = c2
    t1 = t1
    t2 = t2
    osm = osm
    photo1 = photo1
    video1 = video1
    thumb = thumb
    first = first
    second = second
    tiles = tiles
    preview = preview
    stream1 = stream1
    stream2 = stream2
    Requests = {q1, q2}
    Files = {f1, f2, f3}
    Containers = {c1, c2}
    ContainerOf <- MCContainerOf
    InitialPath <- MCInitialPath
    Tags = {t1, t2}
    OsmIds = {osm}
    Edits <- MCEdits
    Unwanted = {f1}
    Shown = Shown
    None = None
    Blobs = {photo1, video1}
    RevisionOf <- MCRevisionOf
    MediaType <- MCMediaType
    VideoStreams <- MCVideoStreams
    PngStreams <- MCPngStreams
    HasGeolocation = {photo1}
    Duration <- MCDuration
    SegmentsCount = 2
    Frame <- MCFrame
    Tiles <- MCTiles
    Preview <- MCPreview
    StreamVersion <- MCStreamVersion
    ChannelMax = 2
    MaxVersionRequests = 1
    MaxFaults = 1
SPECIFICATION Spec
SYMMETRY AnyUser
CHECK_DEADLOCK FALSE
INVARIANT RecordIsAsSaved
INVARIANT TagsStayInContainer
INVARIANT ListingAndSearchAgree
INVARIANT WorkerStopsForAReason
INVARIANT ThumbnailsAreThereOrComing
