\* Two requests, T3 left to approval, the stop engaged, an observer restart, a crash
\* and failed appends at any step.
SPECIFICATION Spec
CONSTANTS
  Kinds <- TwoKinds
  Findings <- OneFinding
  HardBlockT3 = FALSE
  ApproveT2 = TRUE
  ApproveT3 = TRUE
  AuditFails = TRUE
  MaxRequests = 2
  MaxFrames = 2
  MaxRestarts = 1
  MaxCrashes = 1
  MaxStops = 1
INVARIANTS
  RunJustified
  StopPreempts
  AuditTells
CHECK_DEADLOCK FALSE
