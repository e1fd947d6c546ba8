----------------------------- MODULE MC_Levels -----------------------------
EXTENDS Levels
CONSTANTS hoth, endor
MCRotation == <<hoth>>
=============================================================================
