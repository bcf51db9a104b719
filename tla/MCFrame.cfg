\* Four targets, parameters beyond the registers, three objects in a body.
CONSTANTS
    Targets <- MCTargets
    Objects <- MCObjects
    Signatures <- MCSignatures
    MaxObjects = 3
SPECIFICATION Spec
INVARIANTS
    ObjectsDisjoint
    InsideFrame
    SavedApart
    ObjectsAligned
    ArgumentsFoundOnX86
CHECK_DEADLOCK FALSE
