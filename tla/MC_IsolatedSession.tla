------------------------- MODULE MC_IsolatedSession -------------------------
EXTENDS IsolatedSession
=============================================================================
