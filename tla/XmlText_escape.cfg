SPECIFICATION EscapeSpec
CONSTANTS
    Byte <- MCByte
    MaxLength = 4
INVARIANTS
    TextTypeOK
    KeepsEveryCharacter
    OutputIsXmlText
CHECK_DEADLOCK FALSE
