SPECIFICATION Spec
CONSTANTS
  LimbBits = 4
  Base = 16
  Junk = 9
  Targets <- MCTargets
  Places <- MCPlaces
  Contents <- MCContents
  Constants <- MCConstants
  Pending <- MCPending
  CastTypes <- MCCastTypes
  MaxSteps = 2
CHECK_DEADLOCK FALSE
INVARIANTS
  ValuesRepresented
  StoresMeant
  ControlMeant
  GivesUpOnlyWhereKnown
