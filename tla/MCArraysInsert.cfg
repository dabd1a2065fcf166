CONSTANTS
    Step = 3
    SizeOf = 2
    Values = {a, b}
    MaxCount = 8
SPECIFICATION ArraySpec
INVARIANT InsertReturns
CHECK_DEADLOCK FALSE
