------------------------- MODULE MC_SemanticChange -------------------------
EXTENDS SemanticChange
=============================================================================
