CONSTANTS
    Discs <- MCDiscs
    Unit = 2
    Byte = 8
    Chars = {"/", "a", "b", "."}
    Paths <- MCPaths
    Sizes = {0, 1, 2, 5, 14, 17}
    Offsets = {0, 1, 2, 4, 5, 16, 17}
SPECIFICATION FsSpec
INVARIANT ReadIsSlice
INVARIANT LookupResolves
CHECK_DEADLOCK FALSE
