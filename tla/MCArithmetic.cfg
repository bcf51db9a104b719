SPECIFICATION Spec
CONSTANTS
  LimbBits = 4
  Base = 16
  Pad = 4
  Bias = 31
  Operands <- MCOperands
  Floats <- MCFloats
  Literals <- MCLiterals
  Garbage <- MCGarbage
  MaxSteps = 1
  MaxLeaves = 2
  MaxEnumerators = 4
CHECK_DEADLOCK FALSE
INVARIANTS
  IntegersExact
  FloatsRounded
  SoundConstantIsC
  EnumeratorsCount
