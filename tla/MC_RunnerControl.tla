------------------------- MODULE MC_RunnerControl -------------------------
EXTENDS RunnerControl
=============================================================================
