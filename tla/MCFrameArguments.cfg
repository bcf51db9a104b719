\* The targets whose prologue keeps the saved registers below the entry stack
\* pointer.
CONSTANTS
    Targets <- MCTargetsRisc
    Objects <- MCObjects
    Signatures <- MCSignatures
    MaxObjects = 1
SPECIFICATION Spec
INVARIANTS
    ArgumentsFound
CHECK_DEADLOCK FALSE
