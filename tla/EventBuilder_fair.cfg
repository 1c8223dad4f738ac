SPECIFICATION FairSpec
CONSTANTS
    s1 = s1
    s2 = s2
    x = x
    Sources = {s1, s2, x}
    fNumSource = 2
    fNumSourceStatus = 2
    fNumSourceSpillStart = 0
    fNumSourceSpillEnd = 0
    fNumSink = 2
    RoundRobin = "sequence"
    Resolution <- MCResolution
    TrgTyp <- MCTrgTyp
    Quota <- MCQuotaFew
    InputLength = 1
    MaxTag = 2
    MaxRuns = 1
PROPERTIES NothingStays
