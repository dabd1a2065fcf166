CONSTANTS
    Fd = {f1, f2, f3, f4}
    Null = Null
    void_stream = void_stream
    MaxPid = 2
    Data = {a}
    MaxCall = 1
    MaxBlock = 0
    FirstRoom = 1
    Growth = 1
SYMMETRY StreamSymmetry
VIEW StreamView
SPECIFICATION Spec
INVARIANT SingleReader
INVARIANT OutputHasReader
INVARIANT HandlesLive
CHECK_DEADLOCK FALSE
