SPECIFICATION Spec
CONSTANTS
    Caller = {c1, c2, c3}
    Empty = Empty
    MaxWrites = 1
INVARIANTS BorrowCounted SharedStable
PROPERTY ImplementsSlot
