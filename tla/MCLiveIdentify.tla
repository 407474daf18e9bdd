--------------------------- MODULE MCLiveIdentify ---------------------------
EXTENDS LiveIdentify
=============================================================================
