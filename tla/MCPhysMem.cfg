\* 11 blocks of 4 bytes, requests of at most 3 pages
CONSTANTS
    BlockSize = 4
    memory_map_Total <- MCTotal
    memory_map_entries <- MCEntries
    MaxPages = 3
SPECIFICATION Spec
CHECK_DEADLOCK FALSE
INVARIANTS
    HintIsSound
    RegionsDisjoint
    BitmapAccounts
    HaltsOnlyWhenExhausted
    LoopFindsFirstFit
PROPERTY
    ImplementsRegionAllocator
