\* As MCExprCodegen.cfg, with && and || used while another value is pending.
CONSTANTS
    x = x
    ptr = ptr
    fun = fun
    junk = junk
    Volatile = {0, 2, 3}
    RAX = 0
    RCX = 2
    RDX = 3
    Val <- MCVal
    Ints <- MCInts
    Zero = 0
    One = 1
    Ones = 2
    Data <- MCData
    Junk = junk
    Fn <- MCFn
    Returns <- MCReturns
    Effect <- MCEffect
    Memories <- MCMemories
    Operands <- MCOperands
    Depth <- MCDepth
    Exprs <- MCExprsPending
SPECIFICATION Spec
INVARIANTS
    CodeMeansExpr
CHECK_DEADLOCK FALSE
