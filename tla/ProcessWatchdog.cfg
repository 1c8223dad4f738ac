\* Two fields, four commands on them; two connection errors.
SPECIFICATION WatchdogFairSpec
CONSTANTS
    Fields = {1, 2}
    Listed = {1, 2}
    Threshold = 2
    MaxValue = 2
    MaxWrites = 4
    MaxErrors = 2
INVARIANTS NothingMissed CountIsEarned StoppedIsInHand
PROPERTIES CatchesUp
CHECK_DEADLOCK FALSE
