CONSTANTS
    Fd = {f1, f2, f3}
    Null = Null
    void_stream = void_stream
    MaxPid = 1
    Data = {a, b}
    MaxCall = 2
    MaxBlock = 3
    FirstRoom = 1
    Growth = 1
SYMMETRY StreamSymmetry
SPECIFICATION Spec
INVARIANT WithinBlock
PROPERTY ArePipes
CHECK_DEADLOCK FALSE
