\* Two front ends, one with short tags, two builders, two runs.
SPECIFICATION FairSpec
CONSTANTS
    a = a
    b = b
    Samplers = {a, b}
    EventTags <- MCEventTags
    SpillTags <- MCSpillTags
    NDestination = 2
    Options <- MCOptions
    fMaxIteration = 3
    SpillLengths = {1}
    MaxTag = 3
    TagQueue = 2
    FemLength = 1
    MaxRuns = 2
INVARIANTS FragmentsMeet TagsOfThisRun
PROPERTIES RequestAnswered SamplerEnds
CHECK_DEADLOCK FALSE
