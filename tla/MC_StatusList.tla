---------------------------- MODULE MC_StatusList ----------------------------
EXTENDS StatusList
=============================================================================
