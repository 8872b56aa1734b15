SPECIFICATION FairSpec
CONSTANTS
    Requests <- DistinctRequests
    MaxEvents = 6
INVARIANTS
    HostAndDeviceAgree
    HidFindsItsEndpoints
    HandledOnce
PROPERTIES
    StallsAreDeserved
    MainLoopRuns
    ReportsFlow
CHECK_DEADLOCK FALSE
