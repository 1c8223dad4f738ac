SPECIFICATION FairSpec
CONSTANTS
    fNThreads = 2
    QueueLength = 1
    NumParts = 2
    fMaxIteration = 4
    DrainTries = 1
    InputLength = 1
    MaxMessages = 5
    MaxRuns = 2
INVARIANTS InOrder OrderWithinWorker
PROPERTIES AllWritten StopEndsRun
CHECK_DEADLOCK FALSE
