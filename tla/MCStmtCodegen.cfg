CONSTANTS
    Programs <- MCPrograms
    Bodies <- MCBodies
    Statements <- MCStatements
    Named <- MCNamed
    Jumped <- MCJumped
    Values = {1, 2, 3}
    Fuel = 30
    Out = Out
    In = In
SPECIFICATION Spec
INVARIANTS
    CodeFollowsProgram
    LabelsDefinedOnce
CHECK_DEADLOCK FALSE
