--------------------------- MODULE MCMloopEvents ---------------------------
EXTENDS MloopEvents, TLC
=============================================================================
