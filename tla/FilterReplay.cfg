\* Two front ends, up to three heartbeats, all options.
SPECIFICATION Spec
CONSTANTS
    Fems <- MCFems
    TimeFrames <- MCTimeFrames
    Options <- MCOptions
    fNumDestination = 2
    StfHeaderWords = 6
    MaxHeartbeats = 3
INVARIANTS TriggeredHitsKept HeadersAgree
PROPERTIES ReplayIsWhatWasWritten
CHECK_DEADLOCK FALSE
