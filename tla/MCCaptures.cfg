CONSTANTS
    Name = {"x", "y"}
    Functions <- MCFunctions
    Edition = 2024
SPECIFICATION Spec
INVARIANTS
    ReconstructionExact
    CapturedTypesExact
    FallbackJustified
