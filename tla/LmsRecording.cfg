SPECIFICATION SystemSpec
CONSTANTS
    Sizes <- MCSizes
    Capacity = 2
    MaxBytes = 2
    MaxFrames = 4
    UptimeCycle = 64
    Cpus = 8
    Cases <- MCCases
INVARIANTS
    RecorderInv
    CleanIsDurable
    MonitorInv
    JudgedFairly
PROPERTIES
    StopReturns
