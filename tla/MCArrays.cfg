CONSTANTS
    Step = 3
    SizeOf = 2
    Values = {a, b}
    MaxCount = 8
SPECIFICATION ArraySpec
INVARIANT KeepsList
CHECK_DEADLOCK FALSE
