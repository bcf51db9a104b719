\* Four slots, three colliding keys, two values: the table fills up.
CONSTANTS
    k1 = k1
    k2 = k2
    k3 = k3
    v1 = v1
    v2 = v2
    None = None
    Keys <- MCKeys
    Vals <- MCVals
    Hash <- MCHash
    Cap = 4
    MaxProbe = 8
SPECIFICATION FairSpec
INVARIANTS
    IndInv
    GetReturnsFirst
    FillIsOccupancy
PROPERTIES
    OccupiedStays
    InsertTerminates
    GetTerminates
    ImplementsMap
CHECK_DEADLOCK FALSE
