CONSTANTS
    KHEAP_BASE = 4
    KHEAP_LIMIT = 16
    MEM_ENTRIES = 3
    PageSize = 4
    Word = 24
    Sizes = {0, 1, 3, 4}
SPECIFICATION Spec
INVARIANT TypeOK
INVARIANT BlocksDisjoint
PROPERTY ReallocKeepsContents
PROPERTY FailedReallocRestores
PROPERTY KeepsPromise
