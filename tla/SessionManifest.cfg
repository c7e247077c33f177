SPECIFICATION Spec
CONSTANTS
    N = 1
    HasControl = TRUE
INVARIANTS
    FinalizedOnEveryExit
