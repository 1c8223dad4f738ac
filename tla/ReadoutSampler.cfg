SPECIFICATION ReadoutSpec
CONSTANTS
    Settings <- MCSettings
    hsize = 2
    Bodies <- MCBodies
    Trigs = {0, 3}
    Sizes = {0, 2}
    fNumDestination = 2
    SendsErrors = {TRUE, FALSE}
    DeadDestinations = {1}
INVARIANTS
    AllReportedAllWritten
    WholeEvents
PROPERTY
    StopEndsRun
CHECK_DEADLOCK FALSE
