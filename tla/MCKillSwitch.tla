---------------------------- MODULE MCKillSwitch ----------------------------
EXTENDS KillSwitch
=============================================================================
