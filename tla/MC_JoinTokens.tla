---------------------------- MODULE MC_JoinTokens ----------------------------
EXTENDS JoinTokens, TLC

CONSTANTS alice, bob, s1

\* bob hosts the server, alice is a plain player.
MCHostOf == [s \in Servers |-> bob]
MCModeratorsOf == [u \in Users |-> {}]
MCMaxPlayerCount == [s \in Servers |-> 2]
MCSymmetry == Permutations(CreateReqs) \cup Permutations(ConsumeReqs)
=============================================================================
