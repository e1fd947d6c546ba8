----------------------------- MODULE MC_Reports -----------------------------
EXTENDS Reports, TLC

\* Nothing tells calls of one kind, reports or players apart.
Symmetry ==
    UNION {Permutations(S) : S \in {Players, Creates, Approves, Rejects, Updates}}
=============================================================================
