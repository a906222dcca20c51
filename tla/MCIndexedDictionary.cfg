SPECIFICATION Spec
CONSTANTS
    PageSize = 48
    Frequency = 2
    StringRange = 65536
    OffsetRange = 65536
    WordRange = 1073741824
    MaxValues = 5
    MaxId = 6
    Kinds <- AllKinds
    Inputs <- MCInputs
    Queries <- MCQueries
    PrefixQueries <- MCPrefixQueries
INVARIANTS TypeOK WritesStayInPage BlocksAreWhole LeavesDecode LandsBefore SearchReaches SearchStaysOnChain
PROPERTY KeepsPromise
CHECK_DEADLOCK FALSE
