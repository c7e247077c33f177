SPECIFICATION Spec
CONSTANTS
    N = 2
    HasControl = TRUE
INVARIANTS
    SuccessIsClean
    ManifestNeverOverclaims
    TeardownIsOrdered
    SensorStatesAgree
    StopIsNotFailure
PROPERTIES
    StopIsServed
