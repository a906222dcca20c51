SPECIFICATION LoaderSpec
CONSTANTS
    PageSize = 44
    StringRange = 65536
    OffsetRange = 65536
    WordRange = 1073741824
    MaxValues = 6
    Inputs <- LongInputs
INVARIANT WritesStayInPage
CHECK_DEADLOCK FALSE
