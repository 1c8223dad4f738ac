SPECIFICATION Spec
CONSTANTS
    Fems = {1, 2}
    fnByte = 2
    fnWordPerCycle = 2
    Streams <- MCStreams
    Garbled = {"Data"}
    MaxFaults = 1
    fMaxHBF = 2
    SplitMethods = {1}
    fNumDestination = 2
    Monitored = {1}
    Outputs = 2
    DeadOutputs <- MCDeadOutputs
    MaxRuns = 2
    OutOfStep = FALSE
INVARIANT
    HasPayload
CHECK_DEADLOCK FALSE
