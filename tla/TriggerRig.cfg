SPECIFICATION Spec
CONSTANTS
    Owners <- MCOwners
    Channels = {0, 1, 2, 3}
    Rates = {0, 5, 40}
    Rigs <- MCRigs
INVARIANTS
    RigInv
    PulsesFindEveryCamera
PROPERTIES
    ArmedIsAnswered
    EndStopsEveryone
