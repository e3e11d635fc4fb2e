\* Two devices publish, go offline and sync at the same time; one sync may
\* fail at any step.
SPECIFICATION Spec
CONSTANTS
    d1 = d1
    d2 = d2
    s1 = s1
    s2 = s2
    r1 = r1
    Devices = {d1, d2}
    Rank <- DeviceRank
    Syncs = {s1, s2}
    DeviceOf <- OneSyncEach
    Writes <- ThreeWrites
    NoResource = NoResource
    Category <- Categories
    MetadataTypes = {}
    Window = 1
    MaxEvents = 3
    MaxFaults = 1
INVARIANTS
    
    QueueOrder
    ConflictsCovered
    WinnerIsLatest
