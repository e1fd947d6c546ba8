---------------------------- MODULE MC_Moderation ----------------------------
EXTENDS Moderation, TLC

CONSTANTS host, ann

Symmetry == Permutations(Edits) \cup Permutations(Bans)
=============================================================================
