\* Two drill runs one after the other (either may crash at any point), a gatekeeper
\* polling the switch, an operator engaging and releasing, under fairness of the drill.
SPECIFICATION FairSpec
CONSTANTS
  Drills = {d1, d2}
  Gates = {g}
  Operator = Operator
  None = None
  Overlap = FALSE
INVARIANTS
  OperatorStopStands
  StopHonoured
PROPERTIES
  ImplementsStopSwitch
  DrillStopLifted
CHECK_DEADLOCK FALSE
