------------------------------- MODULE Tickets -------------------------------
(***************************************************************************)
(* What the join tokens promise, without requests, database or bans: a     *)
(* ticket is issued once, and then either used by one agent or voided.     *)
(***************************************************************************)
CONSTANTS Ids, Agents, NoId

VARIABLES ticket,  \* the state of each ticket
          usedBy   \* the ticket each agent has used, NoId before

vars == <<ticket, usedBy>>

Init ==
    /\ ticket \in [Ids -> {"unissued", "live"}]
    /\ usedBy = [a \in Agents |-> NoId]

Issue(i) ==
    /\ ticket[i] = "unissued" /\ ticket' = [ticket EXCEPT ![i] = "live"]
    /\ UNCHANGED usedBy

Use(i, a) ==
    /\ usedBy[a] = NoId /\ usedBy' = [usedBy EXCEPT ![a] = i]
    /\ ticket[i] = "live" /\ ticket' = [ticket EXCEPT ![i] = "used"]

Void(i) ==
    /\ ticket[i] = "live"
    /\ ticket' = [ticket EXCEPT ![i] = "void"] /\ UNCHANGED usedBy

Next ==
    \/ \E i \in Ids : Issue(i) \/ Void(i)
    \/ \E a \in Agents, i \in Ids : Use(i, a)

Spec == Init /\ [][Next]_vars
=============================================================================
