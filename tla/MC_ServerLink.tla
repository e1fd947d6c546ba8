---------------------------- MODULE MC_ServerLink ----------------------------
EXTENDS ServerLink, TLC

CONSTANTS g1, g2, i1, i2, i3, i4, c1, c2

Symmetry == Permutations(Ids) \cup Permutations(Conns) \cup Permutations(GameServers)
=============================================================================
