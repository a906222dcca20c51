SPECIFICATION Spec
CONSTANTS
    PageSize = 44
    StringRange = 65536
    OffsetRange = 65536
    WordRange = 1073741824
    MaxValues = 4
    MaxId = 5
    MaxLoads = 2
    MaxStray = 4
    Builds <- ReleaseAndDebug
    Inputs <- MCInputs
    Queries <- MCQueries
INVARIANTS LeavesDecode IndexesAgree ScanStaysOnChain
PROPERTIES KeepsPromise LeavesStay RangeLookupEnds
CHECK_DEADLOCK FALSE
