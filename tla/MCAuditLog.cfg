\* Two processes, one at a time, with crashes, cut writes and two outside
\* changes.  Once MaxLines records are written nothing is left to do.
SPECIFICATION Spec
CONSTANTS
  Writers = {service, drill}
  Shared = FALSE
  LastGoes = FALSE
  Torn = Torn
  Bodies = {b1, b2}
  MaxLines = 4
  MaxDamage = 2
INVARIANTS
  ChainHolds
  VerifiedIsComplete
CHECK_DEADLOCK FALSE
