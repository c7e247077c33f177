SPECIFICATION FairSpec
CONSTANTS
    Documents <- MCDocuments
    Descriptors <- MCDescriptors
    Receivers <- MCReceivers
    UpTimes = {1, 2}
    Bendable = {"NMEAOutput", "SBFOutput", "ClockSyncThreshold"}
    MaxBent = 1
INVARIANTS
    SessionInv
    OutcomeIsHonest
    ConfigurationProven
PROPERTIES
    RecoveryEnds
    StopCompletes
