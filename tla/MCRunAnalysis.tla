--------------------------- MODULE MCRunAnalysis ---------------------------
EXTENDS RunAnalysis
=============================================================================
