CONSTANTS
    Idents = {a, b}
    MaxRefs = 5
    MaxBlocks = 2
    Shadowing = FALSE
SPECIFICATION Spec
INVARIANTS
    UseMeansDeclaration
    BoundIsKnown
    DefinitionsEmitted
CHECK_DEADLOCK FALSE
