\* The drill opens the log while the service has it open.
SPECIFICATION Spec
CONSTANTS
  Writers = {service, drill}
  Shared = TRUE
  LastGoes = FALSE
  Torn = Torn
  Bodies = {b1, b2}
  MaxLines = 3
  MaxDamage = 0
INVARIANT ChainHolds
CHECK_DEADLOCK FALSE
