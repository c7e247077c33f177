SPECIFICATION Spec
CONSTANTS
    Identity <- MCIdentity
    Rows <- MCRows
    Audit <- MCAudit
    Ntp = TRUE
    MaxFailures = 1
    MaxTelegrams = 1
INVARIANTS
    DriverInv
    StoppedMeansOff
    CleanMeansRecorded
    RefusalsFail
