CONSTANTS
    Digits = {2, 7}
    Keys <- MCKeys
    MaxTyped = 4
    BufSize = 3
    WordBuf = 3
    WordSize = 64
    DecLen = 2
    HexLen = 2
    Formats <- MCFormats
    Strings <- MCStrings
    Registers = {37, 46, 63}
    Processors = {0, 3, 27}
SPECIFICATION TerminalSpec
INVARIANTS
    TakenInOrder
    LossOnlyWhenFull
    TextIsEdited
    WordIsRight
    PrintedIsRight
PROPERTIES
    TypingEndsWait
