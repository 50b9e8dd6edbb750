--------------------------- MODULE MCExecutorHop ---------------------------
EXTENDS ExecutorHop
=============================================================================
