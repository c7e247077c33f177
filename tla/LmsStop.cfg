SPECIFICATION FairSpec
CONSTANTS
    Identity <- MCNothing
    Rows <- MCNothing
    Audit <- MCNothing
    Ntp = TRUE
    MaxFailures = 2
    MaxTelegrams = 0
PROPERTIES
    StopCompletes
