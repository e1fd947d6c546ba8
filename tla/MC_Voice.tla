------------------------------ MODULE MC_Voice ------------------------------
EXTENDS Voice, TLC

\* The servers are interchangeable.
Symmetry == Permutations(Servers)
=============================================================================
