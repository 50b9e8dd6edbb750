SPECIFICATION Spec
CONSTANTS
  Width = 5
  Screens <- ThreeScreens
  MaxChanges = 1
  MaxTears = 0
  MaxStops = 1
  ModelActions <- AccentedActions
  MaxSteps = 2
  DiffThreshold = 1
  PhashThreshold = 1
  HasImagehash = TRUE
  Skill <- Procedure
  Params <- Texts
  Points <- Spots
  MaxRuns = 2
INVARIANT UnsupportedRefused
CHECK_DEADLOCK FALSE
