SPECIFICATION FairSpec
CONSTANTS
    f1 = f1
    f2 = f2
    fNsigMax = 4
    fTimeRegionSize = 6
    WordSize = 32
    fMarkLen = 3
    Signals <- MCSignals
    Expressions <- MCExpressions
    SplitMethods = {0, 1, 2}
    fNumDestination = 2
    LiveOutputs = {1}
    DirectionSize = 4
    FramesOf <- MCFramesOf
    MaxFrames = 3
    MaxRuns = 2
INVARIANTS TableIsFormula HitsAreRisingEdges OutputWasMonitored
PROPERTIES FilterGoesOn
CHECK_DEADLOCK FALSE
