\* Two drills at once: a put-back overwrites the operator's stop.
SPECIFICATION Spec
CONSTANTS
  Drills = {d1, d2}
  Gates = {g}
  Operator = Operator
  None = None
  Overlap = TRUE
INVARIANT OperatorStopStands
CHECK_DEADLOCK FALSE
