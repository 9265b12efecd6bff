SPECIFICATION Spec
CONSTANTS
    Block <- Blocks
    Truth <- Truths
INVARIANTS SelectsAsCompiler NoForeignPredicate
