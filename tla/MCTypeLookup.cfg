SPECIFICATION Spec
CONSTANTS
    N = 3
    Content <- Contents
    Extra <- Extras
    Queries <- QuerySets
INVARIANTS CollectsAll RejectsExactly
