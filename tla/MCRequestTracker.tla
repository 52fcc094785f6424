------------------------- MODULE MCRequestTracker -------------------------
EXTENDS RequestTracker
=============================================================================
