CONSTANTS
    KernelPages = 4
    TablePages = 2
    MemPages = 10
    UserPages = {4, 5, 6, 7, 8, 9}
    Spaces = {v1, v2}
    PageBytes = 2
    Programs <- MCPrograms
    Image <- MCImage
    StackTop = 9
    StackPages = 2
    Caller = Caller
SPECIFICATION Spec
INVARIANT ImageInPlace
INVARIANT WritableAsLinked
INVARIANT HeapAbove
PROPERTY MemoryProtocol
CHECK_DEADLOCK FALSE
