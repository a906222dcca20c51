SPECIFICATION Spec
CONSTANTS
    PageSize = 48
    Frequency = 2
    StringRange = 65536
    OffsetRange = 65536
    WordRange = 1073741824
    MaxValues = 4
    MaxId = 5
    Kinds <- OnlyBottomUp
    Inputs <- MCInputs
    Queries <- MCQueries
    PrefixQueries <- MCPrefixQueries
INVARIANT RangesSound
CHECK_DEADLOCK FALSE
