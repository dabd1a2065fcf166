SPECIFICATION Spec
CONSTANTS
    Width = 5
    Height = 2
    Byte = 16
    max_input = 3
    Glyphs <- MCGlyphs
    Chars <- MCChars
    Outputs <- MCOutputs
    Keys <- MCKeys
    Plain <- MCPlain
    Shifted <- MCShifted
INVARIANT ModifiersHeld
INVARIANT LineShown
PROPERTY EditsLine
CHECK_DEADLOCK FALSE
