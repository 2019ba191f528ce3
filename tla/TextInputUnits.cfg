SPECIFICATION TextSpec
CONSTANTS
    Symbols = {"a"}
    TwoBytes = {}
    ThreeBytes = {}
    FourBytes = {"g4"}
    FieldValues <- MCBehindEmoji
    MaxClients = 1
    MaxEdits = 1
    MaxKeys = 1
INVARIANT BackspaceInRange
CHECK_DEADLOCK FALSE
