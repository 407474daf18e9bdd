--------------------------- MODULE MCTailSweep ---------------------------
EXTENDS TailSweep
=============================================================================
