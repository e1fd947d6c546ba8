---------------------------- MODULE MC_WriteQueue ----------------------------
EXTENDS WriteQueue
=============================================================================
