SPECIFICATION FairSpec
CONSTANTS
    StringRange = 65536
    OffsetRange = 65536
    WordRange = 1073741824
    MaxPrefixLength = 9
    Capacities = {2}
    Bytes = {0, 1, 2}
    LeafValues <- MCLeafValues
    KeyOf <- MCKeyOf
    LeafKey <- MCKeyOf
    Queries <- MCQueries
    Families <- MCFamilies
INVARIANTS TypeOK EverythingLinkedOnce PathsSpellKeys RangesMatch
PROPERTIES ImplementsMap CallsReturn
CHECK_DEADLOCK FALSE
