------------------------------ MODULE MC_Proxy ------------------------------
EXTENDS Proxy, TLC

CONSTANTS c1, c2, c3, s1, s2, s3, u1, u2, g1, g2

\* c1 and c2 carry the same token (a reconnect), c3 another one.
MCUserIdOf == [c \in Clients |-> IF c = c3 THEN u2 ELSE u1]
MCServerIdOf == [x \in Conns |-> IF x \in {c3, s3} THEN g2 ELSE g1]

\* One packet from a player of each game and one answer.
MCOnePacket == [x \in Conns |-> IF x \in {c1, c3, s1} THEN 1 ELSE 0]
MCThreePackets == [x \in Conns |-> 3]
=============================================================================
