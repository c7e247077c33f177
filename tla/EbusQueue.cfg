SPECIFICATION Spec
CONSTANTS
    Cycle = 65535
    Extended = FALSE
    Frames = 3
    FirstId = 65534
    Kinds = {"image", "unsafe"}
    Capacity = 2
    SdkBuffers = 4
    MaxFrames = 2
    SyncMode = "none"
    ExpectData = FALSE
INVARIANTS
    RecordingIsHonest
    WorkersShareSafely
