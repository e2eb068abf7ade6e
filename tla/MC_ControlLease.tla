-------------------------- MODULE MC_ControlLease --------------------------
EXTENDS ControlLease
=============================================================================
