SPECIFICATION FairSpec
CONSTANTS
    Caller = {c1, c2}
    Empty = Empty
    MaxWrites = 2
    Spurious = TRUE
INVARIANTS Aliasing SharedStable MovedOnce
PROPERTIES ReservedForever ImplementsSlot NeverBlocks
