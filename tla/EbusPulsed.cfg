SPECIFICATION Spec
CONSTANTS
    Cycle = 65535
    Extended = TRUE
    Frames = 2
    FirstId = 65535
    Kinds = {"image"}
    Capacity = 2
    SdkBuffers = 4
    MaxFrames = 0
    SyncMode = "pulsed"
    ExpectData = TRUE
INVARIANTS
    NothingVanishes
    CompletePulsedMeansAll
PROPERTIES
    ShutdownCompletes
