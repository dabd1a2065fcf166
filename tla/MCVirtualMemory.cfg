CONSTANTS
    KernelPages = 2
    TablePages = 2
    MemPages = 6
    UserPages = {2, 4, 5}
    Spaces = {s1, s2}
    s1 = s1
    s2 = s2
SYMMETRY SpaceSymmetry
SPECIFICATION MemorySpec
INVARIANT TypeOK
INVARIANT FramesExclusive
INVARIANT MappedIsUsed
INVARIANT KernelMapped
INVARIANT TablesInUse
CHECK_DEADLOCK FALSE
