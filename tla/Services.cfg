SPECIFICATION ServicesSpec
CONSTANTS
    Conditions <- MCConditions
    WatchRequests = {r1}
    Observers = {o1, o2, o3}
    MaxEvents = 4
    Clips = {c1}
    Contents = {x1}
    Watchers = {f1}
    Scans = {s1}
    MaxRows = 3
    MaxIngestFaults = 3
    Workers = {w1, w2}
    LostAfter = 0
    MaxPending = 1
    MaxRegistryEvents = 3
    Heights = {144, 400}
    Polls = {q1, q2}
    Transcoders = {t1, t2}
    MaxPlaybackFaults = 2
    MaxBytes = 4
    ChunkSize = 2
    MaxFrames = 5
    BufferSize = 2
    MaxSpan = 4
    MaxTracks = 3
    LastFrame = 2
    Classes = {k1, k2}
    Overlaps = {0, 1, 2}
    MinOverlap = 1
    MaxGap = 1
    MotionBoxSet <- MCMotionBoxes
    MaxBoxes = 3
    MergeDist = 1
    MotionSize <- MCMotionSize
    ClipSize <- MCClipSize
    Tracks = {v1, v2}
    Runs = {a1, a2}
    MaxSnapshotFaults = 3
INVARIANTS
    ServicesTypeOK
    
    OneJobPerClip
    SubmittedOnce
    PassedIsTracked
    IndicesClashOnlyIfKept
    ShownBusyIsBusy
    InflightIsTracked
    EncodedOnce
    RangeIsServed
    FramesInOrder
    FlatForest
    MergedAsChained
    InOnePlace
    MergedBoxes
    NamedImagesExist
PROPERTIES
    PauseSticks
    WatcherLiveness
    SuspensionHolds
    RegistryLiveness
    
    DecodeLiveness
CHECK_DEADLOCK FALSE
