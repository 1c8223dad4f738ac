SPECIFICATION Spec
CONSTANTS
    s1 = s1
    s2 = s2
    x = x
    Sources = {s1, s2}
    fNumSource = 2
    fNumSourceStatus = 2
    fNumSourceSpillStart = 0
    fNumSourceSpillEnd = 0
    fNumSink = 2
    RoundRobin = "tag"
    Resolution <- MCResolution
    TrgTyp <- MCTrgTyp
    Quota <- MCQuota
    InputLength = 1
    MaxTag = 2
    MaxRuns = 2
INVARIANTS FragmentsAccounted CompleteWhole SentIsOfThisRun BeginRunFirst
SYMMETRY SourceSymmetry
