CONSTANTS
    Machines <- MCMachines
    Byte = 4
    Heads = 2
    Sectors = {0, 5, 126, 127, 128, 200}
    Counts = {1, 2, 4, 5}
SPECIFICATION Spec
INVARIANT ReadExact
INVARIANT WordsOffered
INVARIANT DrivesFound
PROPERTY Returns
CHECK_DEADLOCK FALSE
