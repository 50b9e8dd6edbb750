-------------------------- MODULE MCAttestationGate --------------------------
EXTENDS AttestationGate
=============================================================================
