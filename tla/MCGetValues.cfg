SPECIFICATION GetValuesSpec
CONSTANTS
    Sources <- MCSources
    BufferSize <- MCBufferSize
    Letters <- MCLetters
    Char <- MCChar
INVARIANTS BufferHolds TokensAsWritten ValuesCollected
PROPERTIES ReadsInOrder GetValuesReturns
CHECK_DEADLOCK FALSE
