---------------------------- MODULE MC_Lifecycle ----------------------------
EXTENDS Lifecycle
CONSTANTS r1, r2, r3
=============================================================================
