\* A configured epoch or trust on first use, a state file of an older version or none,
\* power losses, failed writes and receipts, and a clock that may be set back.
SPECIFICATION Spec
CONSTANTS
  Key = Key
  Rogue = Rogue
  None = None
  Pinnings = {TRUE, FALSE}
  TTL = 1
  MaxNonces = 1
  LegacyFrames = {1}
  RecordFails = TRUE
  MaxEnvelopes = 3
  MaxTime = 2
  MaxBack = 1
  MaxStarts = 2
INVARIANTS
  NoRollback
  NotLockedOut
  EvictionReceipted
CHECK_DEADLOCK FALSE
