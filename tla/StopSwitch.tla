----------------------------- MODULE StopSwitch -----------------------------
(***************************************************************************)
(* What the operator's kill switch promises, with no files in it.          *)
(*                                                                         *)
(* A stop is held by whoever asked for it: the operator, or a kill-switch  *)
(* drill that engaged the switch for its canary.  The switch is on while   *)
(* anybody holds a stop.  A drill may take and lift its own stop only, or  *)
(* leave it to the operator; the operator's stop ends with the operator's  *)
(* own release and with nothing else.  KillSwitch, the protocol on files,  *)
(* implements this module.                                                 *)
(***************************************************************************)
CONSTANTS Operator,  \* the operator, as the holder of a stop
          Drills     \* the drill runs, each the holder of its own stop

VARIABLES holders,   \* who holds a stop
          wanted     \* the operator has asked for a stop and not released it

stopVars == <<holders, wanted>>

Init == holders = {} /\ wanted = FALSE

\* The operator engages.  A drill's stop may be absorbed by the operator's.
Kill ==
  /\ wanted' = TRUE
  /\ Operator \in holders'
  /\ holders' \subseteq holders \union {Operator}
  /\ holders \ holders' \subseteq Drills

\* The operator releases: from here on stops may be lifted, one by one.
Resume ==
  /\ wanted' = FALSE
  /\ holders' \subseteq holders

\* A release in progress lifts some of the stops it found.
Lift ==
  /\ ~wanted
  /\ holders' \subseteq holders
  /\ UNCHANGED wanted

DrillEngage(d) == holders' = holders \union {d} /\ UNCHANGED wanted

DrillLift(d) == holders' = holders \ {d} /\ UNCHANGED wanted

\* A drill that cannot tell its stop for its own leaves it to the operator.
DrillLeaves(d) ==
  /\ d \in holders
  /\ holders' = (holders \ {d}) \union {Operator}
  /\ UNCHANGED wanted

Next ==
  \/ Kill \/ Resume \/ Lift
  \/ \E d \in Drills : DrillEngage(d) \/ DrillLift(d) \/ DrillLeaves(d)

Spec == Init /\ [][Next]_stopVars

\* A stop the operator asked for stays until the operator releases it
\* (killswitch.py: "It never auto-clears; resuming execution requires an
\* explicit operator action").
OperatorStopStands == wanted => Operator \in holders
=============================================================================
