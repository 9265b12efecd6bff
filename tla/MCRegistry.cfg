SPECIFICATION Spec
CONSTANTS
    Spelling <- Spellings
    Ident <- Idents
    Words <- SnakeWords
    Kind = {"value", "type_with", "try_type_with"}
    Space = {"default", "s"}
    ChildName <- ChildNames
    Unchecked = TRUE
    MaxDecls = 3
INVARIANTS LastWins NamesUnique OperationRecognized
