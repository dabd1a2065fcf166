SPECIFICATION Spec
CONSTANTS
    Width = 3
    Height = 2
    TabStop = 2
    CsiSize = 5
    Word = 32
    Short = 16
    Byte = 4
    Chars <- MCChars
INVARIANT CursorOnScreen
INVARIANT DrawsAsMeant
PROPERTY OverrunByErasure
CHECK_DEADLOCK FALSE
