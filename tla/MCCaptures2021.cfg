CONSTANTS
    Name = {"x", "y"}
    Functions <- TypedFunctions
    Edition = 2021
SPECIFICATION Spec
INVARIANT CapturedTypesExact
