\* Two macros, three groups open in a file, one file waiting for another.
CONSTANTS
    Names = {m1, m2}
    MaxGroups = 3
    MaxFiles = 1
SPECIFICATION Spec
INVARIANTS
    IndInv
    SkipsWhatCSkips
    DefinesWhatCDefines
    RejectsOnlyFaults
    NoticesUnbalanced
CHECK_DEADLOCK FALSE
