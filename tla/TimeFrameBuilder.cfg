\* Two runs, with front ends that lose parts and stop late, two outputs, a
\* decimator and a dqm channel with slow consumers.
CONSTANTS
    s1 = s1
    s2 = s2
    Sources = {s1, s2}
    MaxId = 1
    MaxRuns = 2
    NumDestination = 2
    NumDecimator = 1
    DecimationFactor = 2
    DecimationOffset = 3
    DqmExists = TRUE
    BufferTimeout = 0
    ChannelSize = 1
    MaxMiss = 0
SPECIFICATION FairSpec
INVARIANTS
    DecimationExact
    FramesWhole
    DiscardedNotSent
    NoCompleteLeftBehind
PROPERTIES
    ImplementsAssembly BuilderGoesOn
