\* Two lanes, a judge, and a budget each ceiling of which is reached.
SPECIFICATION PxxSpec
CONSTANTS
  Lanes = 2
  Vision = TRUE
  MaxRounds = 4
  MaxStray = 2
  MaxSplits = 1
  MaxRevisions = 1
  Reports <- FewReports
  Echoes <- FewEchoes
  GateLines <- FewLines
  None = None
INVARIANTS
  WithinBudget
  CompletedIsVerified
  LaneGetsItsRetry
  ReviewSeesAll
  NothingLeftUntold
  ApprovedIsReviewed
PROPERTY Terminates
CHECK_DEADLOCK FALSE
