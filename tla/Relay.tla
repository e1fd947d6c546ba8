-------------------------------- MODULE Relay --------------------------------
(***************************************************************************)
(* What the proxy promises, without tasks, maps or channels: a network     *)
(* that may lose packets, but delivers each at most once, those of one     *)
(* peer to another in the order they were sent, and only along a route.    *)
(***************************************************************************)
EXTENDS Naturals, Sequences

CONSTANTS Peers,
          Routes   \* <<from, identifier, to>>: who may get whose packets, under which identifier

VARIABLES sent,    \* how many packets each peer has sent
          got      \* the packets each peer was given, in order

vars == <<sent, got>>

Init ==
    /\ sent = [y \in Peers |-> 0]
    /\ got = [x \in Peers |-> <<>>]

Send(y) == sent' = [sent EXCEPT ![y] = @ + 1] /\ UNCHANGED got

\* The nth packet of y was given to x.
Given(x, y, n) == \E k \in DOMAIN got[x] : got[x][k].from = y /\ got[x][k].n = n

Deliver(y, u, x, n) ==
    /\ \A z \in Peers : ~Given(z, y, n)
    /\ \A m \in n..sent[y] : ~Given(x, y, m)
    /\ got' = [got EXCEPT ![x] = Append(@, [from |-> y, id |-> u, n |-> n])]
    /\ UNCHANGED sent

Next ==
    \/ \E y \in Peers : Send(y)
    \/ \E r \in Routes : \E n \in 1..sent[r[1]] : Deliver(r[1], r[2], r[3], n)

Spec == Init /\ [][Next]_vars
=============================================================================
