----------------------------- MODULE MC_Players -----------------------------
EXTENDS Players, TLC
CONSTANTS kills, wins

\* The second server's mods add a statistic.
MCTemplates == {{kills}, {kills, wins}}

\* Sessions and players are interchangeable.
Symmetry == Permutations(Sessions) \cup Permutations(Players)
=============================================================================
