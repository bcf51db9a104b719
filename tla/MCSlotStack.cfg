\* Three volatile registers, three pending values, four scratch positions.
CONSTANTS
    x = x
    fun = fun
    junk = junk
    Volatile = {0, 2, 3}
    RAX = 0
    RCX = 2
    RDX = 3
    Val <- MCVal
    Ints <- MCInts
    Data = {x}
    Funs = {fun}
    Junk = junk
    Fn <- MCFn
    MaxStack = 3
    MaxFrame = 4
SPECIFICATION Spec
INVARIANTS
    NoSharing
    ValuesHeld
    MemoryMeant
    ArgumentsMeant
CHECK_DEADLOCK FALSE
