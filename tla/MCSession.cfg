SPECIFICATION FairSpec
CONSTANTS
  Width = 5
  Screens <- ThreeScreens
  MaxChanges = 1
  MaxTears = 1
  MaxStops = 1
  ModelActions <- Actions
  MaxSteps = 2
  DiffThreshold = 1
  PhashThreshold = 1
  HasImagehash = TRUE
  Skill <- Procedure
  Params <- Texts
  Points <- Spots
  MaxRuns = 2
INVARIANTS TypeOK InputIsWhatWasAsked HeldOnlyAfterFailure ActsOnWhatItSaw StepsInOrder
PROPERTY CallsReturn
CHECK_DEADLOCK FALSE
