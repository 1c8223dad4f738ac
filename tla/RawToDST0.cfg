SPECIFICATION FairSpec
CONSTANTS
    fNThreads = 2
    QueueLength = 1
    DrainTries = 1
    InputLength = 2
    OutputLength = 1
    MaxEvents = 2
    MaxRuns = 2
INVARIANTS NoRace UnpackedWithOwnRun
CHECK_DEADLOCK FALSE
PROPERTY StopEndsRun
