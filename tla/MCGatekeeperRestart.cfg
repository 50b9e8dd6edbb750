\* The observer restarts while the gatekeeper runs on.
SPECIFICATION Spec
CONSTANTS
  Kinds <- TwoKinds
  Findings <- OneFinding
  HardBlockT3 = TRUE
  ApproveT2 = TRUE
  ApproveT3 = TRUE
  AuditFails = FALSE
  MaxRequests = 2
  MaxFrames = 3
  MaxRestarts = 1
  MaxCrashes = 0
  MaxStops = 0
INVARIANT StaleOnlyIfStale
CHECK_DEADLOCK FALSE
