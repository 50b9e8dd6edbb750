---------------------------- MODULE MCGatekeeper ----------------------------
EXTENDS Gatekeeper

\* One kind of input, with every rule a kind may meet, and one that is none.
TwoKinds == {"type", "wait"}

\* A reading that matches nothing, or a sensitive pattern; what makes an action
\* destructive here is its own content.
OneFinding == {{}, {"t2"}}
=============================================================================
