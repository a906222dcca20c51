SPECIFICATION GetValuesSpec
CONSTANTS
    Sources <- MCSources
    BufferSize <- MCBufferSize
    Letters <- MCLetters
    Char <- MCChar
PROPERTY GetValuesEnds
CHECK_DEADLOCK FALSE
