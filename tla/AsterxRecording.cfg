SPECIFICATION RecordingSpec
CONSTANTS
    Sizes = {1, 2, 4}
    FileCap = 3
    Budget = 5
    MaxBlocks = 3
    LiveCsv = TRUE
    Frames <- MCFrames
INVARIANTS
    RecordingInv
PROPERTIES
    ImplementsLog
    CloseReturns
