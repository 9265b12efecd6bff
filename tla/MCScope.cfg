SPECIFICATION Spec
CONSTANTS
    Width = 1
    Default <- DefaultText
    Child <- Children
    Space <- Spaces
    Group <- Groups
    MaxNames = 2
    MaxDepth = 2
    MaxSpace = 2
    MaxGroup = 4
INVARIANTS ExclusionsExact RestrictionExact
CHECK_DEADLOCK FALSE
