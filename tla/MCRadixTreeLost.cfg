SPECIFICATION Spec
CONSTANTS
    StringRange = 65536
    OffsetRange = 65536
    WordRange = 1073741824
    MaxPrefixLength = 9
    Capacities = {2}
    Bytes = {0, 1, 2}
    LeafValues <- ShortLeafValues
    KeyOf <- ShortStrings
    LeafKey <- ShortStrings
    Queries <- ShortQueries
    Families <- ShortFamilies
PROPERTY StoredIsFound
CHECK_DEADLOCK FALSE
