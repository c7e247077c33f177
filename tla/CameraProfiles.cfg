SPECIFICATION BringUpSpec
CONSTANTS
    Configs <- MCConfigs
    Sensor = 3
    CounterMax = 2
    MaxFaults = 2
    Requests <- MCRequests
    Networks <- MCNetworks
INVARIANTS BringUpInv TriggerCountExact FailureHasCause
PROPERTIES CaptureOnContract LostClockEndsCapture
