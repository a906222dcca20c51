SPECIFICATION FairLoaderSpec
CONSTANTS
    PageSize = 44
    StringRange = 65536
    OffsetRange = 65536
    WordRange = 1073741824
    MaxValues = 6
    Inputs <- MCInputs
INVARIANTS TypeOK WritesStayInPage OffsetReads DeltaReads ChainHoldsInput PagesAreFull LoaderInv
PROPERTY LoadEnds
CHECK_DEADLOCK FALSE
