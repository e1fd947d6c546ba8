--------------------------- MODULE ServerLink_proofs ---------------------------
(***************************************************************************)
(* Proofs about ServerLink, for any number of game servers, ids,           *)
(* connections and any hosting limit; about WriteQueue, the queue behind   *)
(* the link of each, for any players and any bound on its length; and      *)
(* about PlayerFilter, which the API runs on the lists that come over the  *)
(* link, for lists of any length.                                          *)
(***************************************************************************)
EXTENDS ServerLink, WriteQueue, PlayerFilter, FiniteSetTheorems, TLAPS

-----------------------------------------------------------------------------
(* Type correctness. *)

\* Initially every variable has its type.
LEMMA InitType == Init => TypeOK
BY LinkAssumption DEF Init, TypeOK

\* The steps of the server thread keep the types.
LEMMA ServerThreadType ==
    ASSUME TypeOK, NEW g \in GameServers, ServerThread(g) PROVE TypeOK'
<1> USE LinkAssumption
<1>1. CASE Boot(g)
  BY <1>1 DEF Boot, TypeOK, gameVars, linkVars, listVars, cleanVars, apiVars
<1>2. CASE RegisterFailed(g)
  BY <1>2 DEF RegisterFailed, BeginConnect, TypeOK, listVars, cleanVars, apiVars
<1>3. CASE RegisterCheckLimit(g)
  BY <1>3 DEF RegisterCheckLimit, TypeOK, linkVars, listVars, cleanVars, apiVars
<1>4. CASE \E id \in Ids, answered \in BOOLEAN : RegisterCreate(g, id, answered)
  <2>1. PICK id \in Ids, answered \in BOOLEAN : RegisterCreate(g, id, answered)
    BY <1>4
  <2>2. CASE answered
    <3>1. /\ serverId' = [serverId EXCEPT ![g] = id]
          /\ onlineMode' = [onlineMode EXCEPT ![g] = TRUE]
          /\ BeginConnect(g, id)
      BY <2>1, <2>2, Zenon DEF RegisterCreate
    <3> QED BY <2>1, <3>1 DEF RegisterCreate, BeginConnect, TypeOK, cleanVars, apiVars
  <2>3. CASE ~answered
    BY <2>1, <2>3 DEF RegisterCreate, BeginConnect, TypeOK, cleanVars, apiVars
  <2> QED BY <2>2, <2>3
<1>5. CASE Connect(g)
  BY <1>5 DEF Connect, TypeOK, listVars, cleanVars, apiVars
<1>6. CASE ProcessFunc(g)
  BY <1>6 DEF ProcessFunc, TypeOK, linkVars, listVars, cleanVars, apiVars
<1>7. CASE ProcessEnd(g)
  BY <1>7 DEF ProcessEnd, TypeOK, linkVars, listVars, cleanVars, apiVars
<1>8. CASE \E elapsed \in BOOLEAN : Frame(g, elapsed)
  BY <1>8 DEF Frame, TypeOK, linkVars, listVars, cleanVars, apiVars
<1> QED BY <1>1, <1>2, <1>3, <1>4, <1>5, <1>6, <1>7, <1>8 DEF ServerThread

\* The steps of the WebSocket thread keep the types.
LEMMA IxThreadType ==
    ASSUME TypeOK, NEW g \in GameServers, IxThread(g) PROVE TypeOK'
<1> USE LinkAssumption
<1>1. CASE \E c \in Conns : IxConnect(g, c)
  BY <1>1 DEF IxConnect, TypeOK, gameVars, listVars, cleanVars
<1>2. CASE IxGone(g)
  BY <1>2 DEF IxGone, TypeOK, gameVars, listVars, cleanVars, apiVars
<1>3. CASE IxQueue(g)
  BY <1>3 DEF IxQueue, TypeOK, listVars, cleanVars, apiVars
<1>4. CASE IxClosed(g)
  BY <1>4 DEF IxClosed, TypeOK, gameVars, listVars, cleanVars, apiVars
<1>5. CASE IxStopped(g)
  BY <1>5 DEF IxStopped, TypeOK, gameVars, listVars, cleanVars, apiVars
<1> QED BY <1>1, <1>2, <1>3, <1>4, <1>5 DEF IxThread

\* The steps of the API and of its environment keep the types.
LEMMA ApiType ==
    ASSUME TypeOK, NEW c \in Conns,
           Loop(c) \/ Read(c) \/ ReadFails(c) \/ ProcessServerEvent(c) \/ Cut(c)
    PROVE  TypeOK'
<1> USE LinkAssumption DEF TypeOK, gameVars, linkVars, listVars, cleanVars, apiVars
<1>1. CASE Upgrade(c)
  <2>1. CASE up[c] /\ handler' = [handler EXCEPT ![c] = "own"]
    <3>1. ix' = [ix EXCEPT ![peer[c]] = "open"] \/ UNCHANGED ix
      BY <1>1, <2>1 DEF Upgrade
    <3>2. established' = [established EXCEPT ![peer[c]] = TRUE] \/ UNCHANGED established
      BY <1>1, <2>1 DEF Upgrade
    <3>3. established' \in [GameServers -> BOOLEAN]
      BY <3>2
    <3>4. ix' \in [GameServers -> {"off", "connect", "opening", "open", "gone", "message"}]
      BY <3>1
    <3>5. handler' \in [Conns -> {"free", "upgrade", "own", "read", "delete", "touch", "close"}]
      BY <2>1
    <3> QED BY <1>1, <3>3, <3>4, <3>5 DEF Upgrade
  <2>2. CASE handler' = [handler EXCEPT ![c] = "free"] /\ UNCHANGED <<ix, established>>
    BY <1>1, <2>2 DEF Upgrade
  <2> QED BY <1>1, <2>1, <2>2 DEF Upgrade
<1>2. CASE Own(c)
  BY <1>2 DEF Own
<1>3. CASE LoopDelete(c)
  BY <1>3 DEF LoopDelete
<1>4. CASE LoopTouch(c)
  BY <1>4 DEF LoopTouch
<1>5. CASE LoopClose(c)
  BY <1>5 DEF LoopClose
<1>6. CASE Read(c)
  <2>1. fresh' \subseteq servers
    BY <1>6 DEF Read
  <2>2. handler' \in [Conns -> {"free", "upgrade", "own", "read", "delete", "touch", "close"}]
    BY <1>6 DEF Read
  <2>3. writeQueue' \in [GameServers -> BOOLEAN]
    BY <1>6 DEF Read
  <2> QED BY <1>6, <2>1, <2>2, <2>3 DEF Read
<1>7. CASE ReadFails(c)
  BY <1>7 DEF ReadFails
<1>8. CASE ProcessServerEvent(c)
  BY <1>8 DEF ProcessServerEvent
<1>9. CASE Cut(c)
  BY <1>9 DEF Cut
<1> QED BY <1>1, <1>2, <1>3, <1>4, <1>5, <1>6, <1>7, <1>8, <1>9 DEF Loop

\* The cleanup and the passing of time keep the types.
LEMMA CleanType ==
    ASSUME TypeOK, CleanRead \/ CleanDelete \/ CleanFails \/ \E id \in Ids : Age(id)
    PROVE  TypeOK'
<1> USE DEF TypeOK, gameVars, linkVars, listVars, cleanVars, apiVars
<1>1. CASE CleanRead
  BY <1>1 DEF CleanRead
<1>2. CASE CleanDelete
  BY <1>2 DEF CleanDelete
<1>3. CASE CleanFails
  BY <1>3 DEF CleanFails
<1>4. CASE \E id \in Ids : Age(id)
  BY <1>4 DEF Age
<1> QED BY <1>1, <1>2, <1>3, <1>4

\* Every step keeps the types.
LEMMA NextType == TypeOK /\ [Next]_vars => TypeOK'
<1> SUFFICES ASSUME TypeOK, [Next]_vars PROVE TypeOK'
  OBVIOUS
<1>1. CASE UNCHANGED vars
  BY <1>1 DEF vars, gameVars, linkVars, listVars, cleanVars, apiVars, TypeOK
<1>2. CASE Next
  BY <1>2, ServerThreadType, IxThreadType, ApiType, CleanType DEF Next
<1> QED BY <1>1, <1>2

\* Every variable of the two processes keeps its type.
THEOREM TypeCorrect == Spec => []TypeOK
BY InitType, NextType, PTL DEF Spec

-----------------------------------------------------------------------------
(* The hosting limit. LimitHolds is not inductive: a RegisterServer call that *)
(* has counted but not inserted yet will add a server whatever happened since *)
(* it counted. LimitInv counts those calls as servers already.                *)

Creating == {g \in GameServers : svr[g] = "create"}

LimitInv == Cardinality(servers) + Cardinality(Creating) <= Limit + Cardinality(GameServers) - 1

\* The two sets the invariant counts are finite.
LEMMA CountsFinite ==
    ASSUME TypeOK
    PROVE  /\ IsFiniteSet(servers) /\ IsFiniteSet(Creating)
           /\ Cardinality(servers) \in Nat /\ Cardinality(Creating) \in Nat
           /\ Cardinality(Creating) <= Cardinality(GameServers)
           /\ Cardinality(GameServers) \in Nat
<1>1. servers \subseteq Ids /\ IsFiniteSet(Ids)
  BY LinkAssumption DEF TypeOK
<1>2. Creating \subseteq GameServers /\ IsFiniteSet(GameServers)
  BY LinkAssumption DEF Creating
<1>3. IsFiniteSet(servers)
  BY <1>1, FS_Subset
<1>4. IsFiniteSet(Creating) /\ Cardinality(Creating) <= Cardinality(GameServers)
  BY <1>2, FS_Subset
<1> QED BY <1>2, <1>3, <1>4, FS_CardinalityType

\* A step that starts no insert and lists no server keeps the invariant.
LEMMA LimitMonotone ==
    ASSUME TypeOK, TypeOK', LimitInv, servers' \subseteq servers, Creating' \subseteq Creating
    PROVE  LimitInv'
<1>1. Cardinality(servers') <= Cardinality(servers) /\ Cardinality(servers') \in Nat
  BY CountsFinite, FS_Subset, FS_CardinalityType
<1>2. Cardinality(Creating') <= Cardinality(Creating) /\ Cardinality(Creating') \in Nat
  BY CountsFinite, FS_Subset, FS_CardinalityType
<1> QED BY <1>1, <1>2, CountsFinite, LinkAssumption DEF LimitInv

\* Every step keeps the invariant.
LEMMA LimitStep == TypeOK /\ LimitInv /\ [Next]_vars => LimitInv'
<1> SUFFICES ASSUME TypeOK, LimitInv, [Next]_vars PROVE LimitInv'
  OBVIOUS
<1>0. TypeOK'
  BY NextType
<1> DEFINE Quiet == servers' \subseteq servers /\ Creating' \subseteq Creating
<1>q. Quiet => LimitInv'
  BY <1>0, LimitMonotone
<1>1. ASSUME NEW g \in GameServers, RegisterCheckLimit(g) PROVE LimitInv'
  <2>1. servers' = servers /\ Cardinality(servers) < Limit
    BY <1>1 DEF RegisterCheckLimit, listVars
  <2>2. Cardinality(Creating') <= Cardinality(GameServers) /\ Cardinality(Creating') \in Nat
    <3>1. Creating' \subseteq GameServers
      BY DEF Creating
    <3> QED BY <3>1, LinkAssumption, FS_Subset, FS_CardinalityType
  <2> QED BY <2>1, <2>2, CountsFinite, LinkAssumption DEF LimitInv
<1>2. ASSUME NEW g \in GameServers, NEW id \in Ids, NEW answered \in BOOLEAN,
             RegisterCreate(g, id, answered)
      PROVE  LimitInv'
  <2>1. servers' = servers \cup {id} /\ id \notin servers
    BY <1>2 DEF RegisterCreate, Unused
  <2>2. g \in Creating /\ Creating' = Creating \ {g}
    <3>1. svr' = [svr EXCEPT ![g] = "join"] /\ svr[g] = "create"
      BY <1>2 DEF RegisterCreate, BeginConnect
    <3> QED BY <3>1 DEF Creating, TypeOK
  <2>3. Cardinality(servers') = Cardinality(servers) + 1
    BY <2>1, CountsFinite, FS_AddElement
  <2>4. Cardinality(Creating') = Cardinality(Creating) - 1
    BY <2>2, CountsFinite, FS_RemoveElement
  <2> QED BY <2>3, <2>4, CountsFinite, LinkAssumption DEF LimitInv
<1>3. ASSUME NEW g \in GameServers, ServerThread(g) PROVE LimitInv'
  <2>1. CASE Boot(g)
    BY <2>1, <1>q DEF Boot, listVars, Creating, TypeOK
  <2>2. CASE RegisterFailed(g)
    BY <2>2, <1>q DEF RegisterFailed, BeginConnect, listVars, Creating, TypeOK
  <2>3. CASE Connect(g)
    BY <2>3, <1>q DEF Connect, listVars, Creating, TypeOK
  <2>4. CASE ProcessFunc(g)
    BY <2>4, <1>q DEF ProcessFunc, listVars, Creating, TypeOK
  <2>5. CASE ProcessEnd(g)
    BY <2>5, <1>q DEF ProcessEnd, listVars, Creating, TypeOK
  <2>6. CASE \E elapsed \in BOOLEAN : Frame(g, elapsed)
    BY <2>6, <1>q DEF Frame, listVars, Creating, TypeOK
  <2> QED BY <1>1, <1>2, <1>3, <2>1, <2>2, <2>3, <2>4, <2>5, <2>6 DEF ServerThread
<1>4. ASSUME NEW g \in GameServers, IxThread(g) PROVE LimitInv'
  BY <1>4, <1>q DEF IxThread, IxConnect, IxGone, IxQueue, IxClosed, IxStopped, gameVars,
                    listVars, Creating
<1>5. ASSUME NEW c \in Conns,
             Loop(c) \/ Read(c) \/ ReadFails(c) \/ ProcessServerEvent(c) \/ Cut(c)
      PROVE  LimitInv'
  BY <1>5, <1>q DEF Loop, Upgrade, Own, LoopDelete, LoopTouch, LoopClose, Read, ReadFails,
                    ProcessServerEvent, Cut, gameVars, listVars, Creating
<1>6. CASE CleanRead \/ CleanDelete \/ CleanFails \/ \E id \in Ids : Age(id)
  BY <1>6, <1>q DEF CleanRead, CleanDelete, CleanFails, Age, gameVars, listVars, Creating
<1>7. CASE UNCHANGED vars
  BY <1>7, <1>q DEF vars, gameVars, listVars, Creating
<1> QED BY <1>3, <1>4, <1>5, <1>6, <1>7 DEF Next

\* RegisterServer's count and insert are not atomic; whatever the interleaving, a host
\* with n game servers never has more than n - 1 servers above the limit.
THEOREM LimitHoldsCorrect == Spec => []LimitHolds
<1>1. Init => LimitInv
  <2> SUFFICES ASSUME Init PROVE LimitInv
    OBVIOUS
  <2>1. servers = {} /\ Creating = {}
    BY DEF Init, Creating
  <2>2. Cardinality(GameServers) \in Nat
    BY LinkAssumption, FS_CardinalityType
  <2> QED BY <2>1, <2>2, FS_EmptySet, LinkAssumption DEF LimitInv
<1>2. TypeOK /\ LimitInv => LimitHolds
  BY CountsFinite, LinkAssumption DEF LimitInv, LimitHolds
<1> QED BY <1>1, <1>2, InitType, NextType, LimitStep, PTL DEF Spec

-----------------------------------------------------------------------------
(* The two ends of a link agree. LinkIsCurrent alone does not survive Upgrade,  *)
(* which moves the game process at the other end to "open": LinkInv adds that a *)
(* handshake with a live socket is the one its process is waiting for.          *)

Linked == {"opening", "open", "message"}

LinkInv ==
    /\ \A g \in GameServers : ix[g] \in Linked <=> conn[g] # NoConn
    /\ \A g \in GameServers :
          conn[g] # NoConn => hid[conn[g]] = target[g] /\ peer[conn[g]] = g
    /\ \A c \in Conns :
          handler[c] = "upgrade" /\ up[c] => conn[peer[c]] = c /\ ix[peer[c]] = "opening"

\* Every step keeps the two ends in agreement.
LEMMA LinkStep == TypeOK /\ LinkInv /\ [Next]_vars => LinkInv'
<1> SUFFICES ASSUME TypeOK, LinkInv, [Next]_vars PROVE LinkInv'
  OBVIOUS
<1> USE LinkAssumption DEF TypeOK, LinkInv, Linked
<1>1. ASSUME NEW g \in GameServers, Connect(g) PROVE LinkInv'
  <2>1. /\ ix[g] = "off" /\ ix' = [ix EXCEPT ![g] = "connect"]
        /\ target' = [target EXCEPT ![g] = next[g]]
        /\ UNCHANGED <<conn, hid, peer, handler, up>>
    BY <1>1, Zenon DEF Connect, apiVars
  <2>2. conn[g] = NoConn
    BY <2>1
  <2> QED BY <2>1, <2>2
<1>2. ASSUME NEW g \in GameServers, ServerThread(g), ~Connect(g) PROVE LinkInv'
  <2>1. UNCHANGED <<ix, conn, target, hid, peer, handler, up>>
    BY <1>2 DEF ServerThread, Boot, RegisterFailed, RegisterCheckLimit, RegisterCreate,
                BeginConnect, ProcessFunc, ProcessEnd, Frame, linkVars, apiVars
  <2> QED BY <2>1
<1>3. ASSUME NEW g \in GameServers, NEW c \in Conns, IxConnect(g, c) PROVE LinkInv'
  BY <1>3 DEF IxConnect
<1>4. ASSUME NEW g \in GameServers, IxGone(g) PROVE LinkInv'
  BY <1>4 DEF IxGone, apiVars
<1>5. ASSUME NEW g \in GameServers, IxQueue(g) PROVE LinkInv'
  BY <1>5 DEF IxQueue, apiVars
<1>6. ASSUME NEW g \in GameServers, IxClosed(g) PROVE LinkInv'
  BY <1>6 DEF IxClosed, apiVars
<1>7. ASSUME NEW g \in GameServers, IxStopped(g) PROVE LinkInv'
  BY <1>7 DEF IxStopped, apiVars
<1>8. ASSUME NEW c \in Conns, Upgrade(c) PROVE LinkInv'
  <2>1. UNCHANGED <<conn, target, hid, peer, up>> /\ handler[c] = "upgrade"
    BY <1>8, Zenon DEF Upgrade
  <2>2. CASE up[c] /\ handler' = [handler EXCEPT ![c] = "own"]
             /\ ix' = [ix EXCEPT ![peer[c]] = "open"]
    BY <2>1, <2>2
  <2>3. CASE handler' = [handler EXCEPT ![c] = "free"] /\ UNCHANGED <<ix, established>>
    BY <2>1, <2>3
  <2> QED BY <1>8, <2>2, <2>3, Zenon DEF Upgrade
<1>9. ASSUME NEW c \in Conns, ProcessServerEvent(c) PROVE LinkInv'
  BY <1>9 DEF ProcessServerEvent, apiVars
<1>10. ASSUME NEW c \in Conns, Own(c) \/ Read(c) \/ ReadFails(c) \/ LoopDelete(c)
                               \/ LoopTouch(c) \/ LoopClose(c) \/ Cut(c)
       PROVE  LinkInv'
  <2>1. /\ UNCHANGED <<ix, conn, target, hid, peer>>
        /\ \A d \in Conns : handler'[d] = "upgrade" => handler[d] = "upgrade"
        /\ \A d \in Conns : up'[d] => up[d]
    <3>1. CASE Own(c)
      BY <3>1 DEF Own, linkVars
    <3>2. CASE Read(c)
      BY <3>2 DEF Read, linkVars
    <3>3. CASE ReadFails(c) \/ LoopDelete(c) \/ LoopTouch(c)
      BY <3>3 DEF ReadFails, LoopDelete, LoopTouch, linkVars
    <3>4. CASE LoopClose(c)
      BY <3>4 DEF LoopClose, linkVars
    <3>5. CASE Cut(c)
      BY <3>5 DEF Cut, linkVars, apiVars
    <3> QED BY <1>10, <3>1, <3>2, <3>3, <3>4, <3>5
  <2> QED BY <2>1
<1>11. CASE CleanRead \/ CleanDelete \/ CleanFails \/ \E id \in Ids : Age(id)
  BY <1>11 DEF CleanRead, CleanDelete, CleanFails, Age, linkVars, apiVars
<1>12. CASE UNCHANGED vars
  BY <1>12 DEF vars, linkVars, apiVars
<1> QED
  BY <1>1, <1>2, <1>3, <1>4, <1>5, <1>6, <1>7, <1>8, <1>9, <1>10, <1>11, <1>12
  DEF Next, IxThread, Loop

\* Through every reconnect and re-registration, an open connection belongs to the
\* listing in the URL.
THEOREM LinkIsCurrentCorrect == Spec => []LinkIsCurrent
<1>1. Init => LinkInv
  BY LinkAssumption DEF Init, LinkInv, Linked
<1>2. TypeOK /\ LinkInv => LinkIsCurrent
  BY DEF TypeOK, LinkInv, Linked, LinkIsCurrent
<1> QED BY <1>1, <1>2, InitType, NextType, LinkStep, PTL DEF Spec

-----------------------------------------------------------------------------
(* The ownedServers map. A deferred delete goes by id, so SoleLinkOwned needs   *)
(* that two loops of the same id have both been marked as shared.               *)

Looping(c) == handler[c] \in {"read", "delete", "touch", "close"}

OwnInv ==
    /\ NoStaleOwner
    /\ SoleLinkOwned
    /\ \A c \in Conns : handler[c] # "free" => hid[c] \in Ids
    /\ \A c, d \in Conns :
          c # d /\ Looping(c) /\ Looping(d) /\ hid[c] = hid[d] => c \in shared /\ d \in shared

\* Every step keeps the map in agreement with the loops.
LEMMA OwnStep == TypeOK /\ OwnInv /\ [Next]_vars => OwnInv'
<1> SUFFICES ASSUME TypeOK, OwnInv, [Next]_vars PROVE OwnInv'
  OBVIOUS
<1> USE LinkAssumption DEF TypeOK, OwnInv, NoStaleOwner, SoleLinkOwned, Looping
<1>1. ASSUME UNCHANGED <<owned, handler, hid, shared>> PROVE OwnInv'
  BY <1>1
<1>2. ASSUME NEW g \in GameServers, ServerThread(g) PROVE OwnInv'
  BY <1>1, <1>2 DEF ServerThread, Boot, RegisterFailed, RegisterCheckLimit, RegisterCreate,
                    Connect, ProcessFunc, ProcessEnd, Frame, apiVars
<1>3. ASSUME NEW g \in GameServers, NEW c \in Conns, IxConnect(g, c) PROVE OwnInv'
  BY <1>3 DEF IxConnect
<1>4. ASSUME NEW g \in GameServers, IxGone(g) \/ IxQueue(g) \/ IxClosed(g) \/ IxStopped(g)
      PROVE  OwnInv'
  BY <1>1, <1>4 DEF IxGone, IxQueue, IxClosed, IxStopped, apiVars
<1>5. ASSUME NEW c \in Conns, Upgrade(c) PROVE OwnInv'
  <2>1. \A d \in Conns : d # c => handler'[d] = handler[d]
    BY <1>5 DEF Upgrade
  <2>2. handler'[c] \in {"own", "free"} /\ handler[c] = "upgrade"
    BY <1>5 DEF Upgrade
  <2>3. UNCHANGED <<owned, hid, shared>>
    BY <1>5 DEF Upgrade
  <2>4. NoStaleOwner'
    <3> SUFFICES ASSUME NEW i \in Ids, owned[i] # NoConn
                 PROVE  handler'[owned[i]] \in {"read", "delete"} /\ hid[owned[i]] = i
      BY <2>3
    <3>1. owned[i] \in Conns
      OBVIOUS
    <3>2. handler[owned[i]] \in {"read", "delete"} /\ hid[owned[i]] = i
      OBVIOUS
    <3>3. owned[i] # c
      BY <2>2, <3>2
    <3> QED BY <2>1, <3>1, <3>2, <3>3
  <2>5. SoleLinkOwned'
    BY <2>1, <2>2, <2>3
  <2>6. \A d \in Conns : (Looping(d)' => Looping(d)) /\ (handler'[d] # "free" => handler[d] # "free")
    BY <2>1, <2>2
  <2> QED BY <2>3, <2>4, <2>5, <2>6
<1>6. ASSUME NEW c \in Conns, Own(c) PROVE OwnInv'
  <2> DEFINE others == {d \in Conns \ {c} :
                          handler[d] \notin {"free", "upgrade"} /\ hid[d] = hid[c]}
  <2>1. /\ handler[c] = "own"
        /\ handler' = [handler EXCEPT ![c] = "read"]
        /\ owned' = [owned EXCEPT ![hid[c]] = c]
        /\ hid' = hid
    BY <1>6 DEF Own
  <2>2. shared' = IF others = {} THEN shared ELSE shared \cup others \cup {c}
    BY <1>6 DEF Own
  <2>3. others \subseteq shared' /\ shared \subseteq shared' /\ (others # {} => c \in shared')
    BY <2>2
  <2>4. NoStaleOwner'
    BY <2>1
  <2>5. SoleLinkOwned'
    BY <2>1, <2>3
  <2>6. \A d, e \in Conns :
          d # e /\ Looping(d)' /\ Looping(e)' /\ hid'[d] = hid'[e] => d \in shared' /\ e \in shared'
    BY <2>1, <2>3
  <2> QED BY <2>1, <2>4, <2>5, <2>6
<1>7. ASSUME NEW c \in Conns, LoopDelete(c) PROVE OwnInv'
  BY <1>7 DEF LoopDelete
<1>8. ASSUME NEW c \in Conns, Read(c) \/ ReadFails(c) \/ LoopTouch(c) \/ LoopClose(c)
      PROVE  OwnInv'
  <2>1. /\ UNCHANGED <<owned, hid, shared>>
        /\ \A d \in Conns : d # c => handler'[d] = handler[d]
        /\ \/ handler[c] = "read" /\ handler'[c] \in {"read", "delete"}
           \/ handler[c] = "touch" /\ handler'[c] = "close"
           \/ handler[c] = "close" /\ handler'[c] = "free"
    BY <1>8 DEF Read, ReadFails, LoopTouch, LoopClose
  <2>2. NoStaleOwner'
    <3> SUFFICES ASSUME NEW i \in Ids, owned[i] # NoConn
                 PROVE  handler'[owned[i]] \in {"read", "delete"} /\ hid[owned[i]] = i
      BY <2>1
    <3>1. owned[i] \in Conns
      OBVIOUS
    <3> QED BY <2>1, <3>1
  <2>3. SoleLinkOwned'
    BY <2>1
  <2>4. \A d \in Conns : (Looping(d)' => Looping(d)) /\ (handler'[d] # "free" => handler[d] # "free")
    BY <2>1
  <2>5. \A d \in Conns : handler'[d] # "free" => hid'[d] \in Ids
    BY <2>1, <2>4
  <2>6. \A d, e \in Conns :
          d # e /\ Looping(d)' /\ Looping(e)' /\ hid'[d] = hid'[e] => d \in shared' /\ e \in shared'
    <3> HIDE DEF Looping
    <3> QED BY <2>1, <2>4
  <2> QED BY <2>2, <2>3, <2>5, <2>6
<1>9. ASSUME NEW c \in Conns, ProcessServerEvent(c) \/ Cut(c) PROVE OwnInv'
  BY <1>1, <1>9 DEF ProcessServerEvent, Cut, apiVars
<1>10. CASE CleanRead \/ CleanDelete \/ CleanFails \/ \E id \in Ids : Age(id)
  BY <1>1, <1>10 DEF CleanRead, CleanDelete, CleanFails, Age, apiVars
<1>11. CASE UNCHANGED vars
  BY <1>1, <1>11 DEF vars, apiVars
<1> QED
  BY <1>2, <1>3, <1>4, <1>5, <1>6, <1>7, <1>8, <1>9, <1>10, <1>11 DEF Next, IxThread, Loop

\* Initially no connection exists.
LEMMA OwnInit == Init => OwnInv
BY LinkAssumption DEF Init, OwnInv, NoStaleOwner, SoleLinkOwned, Looping

\* ownedServers holds only connections whose loop has not cleaned up yet.
THEOREM NoStaleOwnerCorrect == Spec => []NoStaleOwner
<1>1. OwnInv => NoStaleOwner
  BY DEF OwnInv
<1> QED BY <1>1, OwnInit, InitType, NextType, OwnStep, PTL DEF Spec

\* A connection that met no other one of its server is in ownedServers while it reads.
THEOREM SoleLinkOwnedCorrect == Spec => []SoleLinkOwned
<1>1. OwnInv => SoleLinkOwned
  BY DEF OwnInv
<1> QED BY <1>1, OwnInit, InitType, NextType, OwnStep, PTL DEF Spec

-----------------------------------------------------------------------------
(* The write queue of one game server (WriteQueue), of which ServerLink only keeps whether *)
(* it is empty.                                                                            *)

\* The write thread alone takes events out, so what its predicate saw is still there.
QueueInv == QueueTypeOK /\ PopNonEmpty

\* The queue starts empty, with the write thread before its test.
LEMMA QueueInitInv == QueueInit => QueueInv
<1> SUFFICES ASSUME QueueInit PROVE QueueInv OBVIOUS
<1>1. {} \in Lists /\ <<>> \in Seq(Lists) BY DEF Lists
<1>2. sender = [at |-> "idle", list |-> {}] /\ writer = [at |-> "check", list |-> {}] BY DEF QueueInit, At
<1>3. writer.at = "check" BY <1>2
<1>4. sender \in [at : {"idle", "push", "notify"}, list : Lists] BY <1>1, <1>2
<1>5. writer \in [at : {"check", "block", "asleep", "pop", "sending"}, list : Lists] BY <1>1, <1>2
<1>6. QueueTypeOK BY <1>1, <1>4, <1>5 DEF QueueInit, QueueTypeOK
<1> QED BY <1>3, <1>6 DEF QueueInv, PopNonEmpty

\* The server thread puts at most one event behind the others.
LEMMA QueuePush == ASSUME QueueTypeOK, SendPush PROVE queue' \in Seq(Lists) /\ queue' # <<>>
<1>1. sender.list \in Lists BY DEF QueueTypeOK
<1>2. CASE queue # <<>> /\ queue' = queue BY <1>2 DEF QueueTypeOK
<1>3. CASE queue' = Append(queue, sender.list)
  <2>1. queue \in Seq(Lists) BY DEF QueueTypeOK
  <2>2. Append(queue, sender.list) \in Seq(Lists) /\ Append(queue, sender.list) # <<>> BY <1>1, <2>1
  <2> QED BY <1>3, <2>2
<1> QED BY <1>2, <1>3 DEF SendPush

\* Every step of the three threads keeps the invariant.
LEMMA QueueNextInv == QueueInv /\ [QueueNext]_queueVars => QueueInv'
<1> SUFFICES ASSUME QueueInv, [QueueNext]_queueVars PROVE QueueInv' OBVIOUS
<1> USE DEF QueueInv, QueueTypeOK, PopNonEmpty, At, Push, Sending, Lists
<1>1. ASSUME NEW p \in Players, Join(p) PROVE QueueInv'
  BY <1>1 DEF Join, SendPlayerList
<1>2. ASSUME NEW p \in Players, Disconnect(p) PROVE QueueInv'
  BY <1>2 DEF Disconnect, SendPlayerList
<1>3. CASE Heartbeat BY <1>3 DEF Heartbeat, SendPlayerList
<1>4. CASE SendPush
  <2>1. queue' \in Seq(Lists) /\ queue' # <<>> BY <1>4, QueuePush
  <2>2. /\ sender' = At("notify") /\ UNCHANGED <<players, connected, connectionEstablished, writer, apiPlayers>>
    BY <1>4 DEF SendPush
  <2> QED BY <2>1, <2>2
<1>5. CASE SendNotify BY <1>5 DEF SendNotify
<1>6. CASE WaitCheck BY <1>6 DEF WaitCheck
<1>7. CASE WaitBlock BY <1>7 DEF WaitBlock
<1>8. CASE Pop
  <2>1. Head(queue) \in Lists /\ Tail(queue) \in Seq(Lists) BY <1>8 DEF Pop
  <2> QED BY <1>8, <2>1 DEF Pop
<1>9. CASE SendBinary BY <1>9 DEF SendBinary
<1>10. CASE Open BY <1>10 DEF Open
<1>11. CASE Close BY <1>11 DEF Close
<1>12. CASE Receive BY <1>12 DEF Receive
<1>13. CASE UNCHANGED queueVars BY <1>13 DEF queueVars
<1> QED BY <1>1, <1>2, <1>3, <1>4, <1>5, <1>6, <1>7, <1>8, <1>9, <1>10, <1>11, <1>12, <1>13 DEF QueueNext, Write

\* So the invariant holds in every state of the queue.
LEMMA QueueInvariance == QueueSpec => []QueueInv
BY QueueInitInv, QueueNextInv, PTL DEF QueueSpec

\* Every variable of the write queue and its three threads keeps its type.
THEOREM QueueTypeCorrect == QueueSpec => []QueueTypeOK
<1>1. QueueInv => QueueTypeOK BY DEF QueueInv
<1> QED BY <1>1, QueueInvariance, PTL

\* The write thread never takes an event from an empty queue, although the queue is unlocked
\* between the predicate of its wait and the pop, for any number of players and events.
THEOREM PopNonEmptyHolds == QueueSpec => []PopNonEmpty
<1>1. QueueInv => PopNonEmpty BY DEF QueueInv
<1> QED BY <1>1, QueueInvariance, PTL

-----------------------------------------------------------------------------
(* PlayerFilter. The entries the loop still has to look at are shifted by as many places as   *)
(* entries were removed, and those it has looked at are what is kept of the list before them. *)

\* How far the entries in front of the loop have been shifted.
Shift == size - length

\* The entries the loop will look at: the shifted rest of the list, then copies of the last.
Ahead ==
    /\ \A k \in turn..length : slots[k] = k + Shift
    /\ \A k \in (length + 1)..size : slots[k] = size

\* The places of the slice the loop has passed hold entries of the list passed so far, in
\* their order, all the players of it, and nameless ones only behind nameless ones.
Passed ==
    /\ \A k \in 1..length : k < turn => slots[k] < turn + Shift
    /\ \A j, k \in 1..length : j < k /\ k < turn => slots[j] < slots[k]
    /\ \A e \in 1..size : e \notin nameless /\ e < turn + Shift =>
         \E k \in 1..length : k < turn /\ slots[k] = e
    /\ \A k \in 1..length : k < turn /\ slots[k] \in nameless => slots[k] - 1 \in nameless

\* Whether anything was removed tells whether a nameless entry was met, and the end of the
\* loop what the last entry was.
Met ==
    /\ Shift < turn
    /\ Shift > 0 => \E b \in nameless : b < turn
    /\ Shift = 0 => \A b \in nameless : b >= turn
    /\ loop # "panic" /\ turn = size + 1 => ~LastAndOther
    /\ loop = "panic" => LastAndOther
    /\ loop = "done" => turn = size + 1

FilterInv == FilterTypeOK /\ Ahead /\ Passed /\ Met

\* Before the first turn nothing is shifted and nothing is passed.
LEMMA FilterInitInv == FilterInit => FilterInv
<1> SUFFICES ASSUME FilterInit PROVE FilterInv OBVIOUS
<1>1. /\ size \in Nat /\ length = size /\ turn = 1 /\ loop = "running"
      /\ nameless \subseteq 1..size /\ slots \in [1..size -> 1..size]
      /\ \A k \in 1..size : slots[k] = k
  BY DEF FilterInit
<1>2. FilterTypeOK BY <1>1 DEF FilterTypeOK
<1>3. Shift = 0 BY <1>1 DEF Shift
<1>4. Ahead BY <1>1, <1>3 DEF Ahead
<1>5. Passed BY <1>1, <1>3 DEF Passed
<1>6. Met BY <1>1, <1>3 DEF Met, LastAndOther
<1> QED BY <1>2, <1>4, <1>5, <1>6 DEF FilterInv

\* The numbers of the loop, and what it reads when a turn starts.
LEMMA FilterReads ==
    ASSUME FilterInv
    PROVE  /\ size \in Nat /\ length \in Nat /\ turn \in Nat /\ Shift \in Nat
           /\ length <= size /\ 1 <= turn /\ turn <= size + 1
           /\ Shift = size - length /\ Shift < turn
           /\ nameless \subseteq 1..size /\ slots \in [1..size -> 1..size]
           /\ turn <= size /\ turn <= length => slots[turn] = turn + Shift
           /\ turn <= size /\ turn > length => slots[turn] = size
           /\ turn <= size => slots[size] = size
<1>1. /\ size \in Nat /\ length \in Nat /\ turn \in Nat /\ length <= size
      /\ 1 <= turn /\ turn <= size + 1 /\ nameless \subseteq 1..size /\ slots \in [1..size -> 1..size]
  BY DEF FilterInv, FilterTypeOK
<1>2. Shift = size - length /\ Shift \in Nat BY <1>1 DEF Shift
<1>3. Shift < turn BY DEF FilterInv, Met
<1>4. turn <= size /\ turn <= length => slots[turn] = turn + Shift
  BY <1>1 DEF FilterInv, Ahead
<1>5. turn <= size /\ turn > length => slots[turn] = size
  BY <1>1 DEF FilterInv, Ahead
<1>6. turn <= size => slots[size] = size
  <2> SUFFICES ASSUME turn <= size PROVE slots[size] = size OBVIOUS
  <2>1. CASE length = size BY <1>1, <1>2, <2>1 DEF FilterInv, Ahead
  <2>2. CASE length < size BY <1>1, <2>2 DEF FilterInv, Ahead
  <2> QED BY <1>1, <2>1, <2>2
<1> QED BY <1>1, <1>2, <1>3, <1>4, <1>5, <1>6

\* A turn that keeps its entry.
LEMMA KeepInv == ASSUME FilterInv, KeepPlayer PROVE FilterInv'
<1> USE FilterReads
<1>1. /\ turn <= size /\ slots[turn] \notin nameless /\ turn' = turn + 1 /\ loop = "running"
      /\ size' = size /\ nameless' = nameless /\ slots' = slots /\ length' = length /\ loop' = loop
  BY DEF KeepPlayer, Turn
<1>2. Shift' = Shift BY <1>1 DEF Shift
<1>3. FilterTypeOK' BY <1>1 DEF FilterInv, FilterTypeOK
<1>4. Ahead' BY <1>1, <1>2 DEF FilterInv, Ahead
<1>5. Passed'
  <2>1. \A k \in 1..length : k < turn + 1 => slots[k] < turn + 1 + Shift
    <3> SUFFICES ASSUME NEW k \in 1..length, k < turn + 1 PROVE slots[k] < turn + 1 + Shift OBVIOUS
    <3>1. slots[k] \in Nat OBVIOUS
    <3>2. CASE k = turn BY <1>1, <3>2
    <3>3. CASE k < turn BY <3>1, <3>3 DEF FilterInv, Passed
    <3> QED BY <3>2, <3>3
  <2>2. \A j, k \in 1..length : j < k /\ k < turn + 1 => slots[j] < slots[k]
    <3> SUFFICES ASSUME NEW j \in 1..length, NEW k \in 1..length, j < k, k < turn + 1
                 PROVE slots[j] < slots[k] OBVIOUS
    <3>1. CASE k < turn BY <3>1 DEF FilterInv, Passed
    <3>2. CASE k = turn
      <4>1. slots[k] = turn + Shift BY <1>1, <3>2
      <4>2. slots[j] < turn + Shift BY <3>2 DEF FilterInv, Passed
      <4> QED BY <4>1, <4>2
    <3> QED BY <3>1, <3>2
  <2>3. \A e \in 1..size : e \notin nameless /\ e < turn + 1 + Shift =>
          \E k \in 1..length : k < turn + 1 /\ slots[k] = e
    <3> SUFFICES ASSUME NEW e \in 1..size, e \notin nameless, e < turn + 1 + Shift
                 PROVE \E k \in 1..length : k < turn + 1 /\ slots[k] = e OBVIOUS
    <3>1. CASE e < turn + Shift
      <4>1. PICK k \in 1..length : k < turn /\ slots[k] = e BY <3>1 DEF FilterInv, Passed
      <4> QED BY <4>1
    <3>2. CASE e = turn + Shift
      <4>1. turn \in 1..length BY <3>2
      <4>2. slots[turn] = e BY <1>1, <3>2, <4>1
      <4> QED BY <4>1, <4>2
    <3> QED BY <3>1, <3>2
  <2>4. \A k \in 1..length : k < turn + 1 /\ slots[k] \in nameless => slots[k] - 1 \in nameless
    <3> SUFFICES ASSUME NEW k \in 1..length, k < turn + 1, slots[k] \in nameless
                 PROVE slots[k] - 1 \in nameless OBVIOUS
    <3>1. k # turn BY <1>1
    <3>2. k < turn BY <3>1
    <3> QED BY <3>2 DEF FilterInv, Passed
  <2> QED BY <1>1, <1>2, <2>1, <2>2, <2>3, <2>4 DEF Passed
<1>6. Met'
  <2>1. Shift > 0 => \E b \in nameless : b < turn + 1
    <3> SUFFICES ASSUME Shift > 0 PROVE \E b \in nameless : b < turn + 1 OBVIOUS
    <3>1. PICK b \in nameless : b < turn BY DEF FilterInv, Met
    <3> QED BY <3>1
  <2>2. Shift = 0 => \A b \in nameless : b >= turn + 1
    <3> SUFFICES ASSUME Shift = 0, NEW b \in nameless PROVE b >= turn + 1 OBVIOUS
    <3>1. b >= turn /\ b \in Nat BY DEF FilterInv, Met
    <3>2. slots[turn] = turn BY <1>1
    <3>3. b # turn BY <1>1, <3>2
    <3> QED BY <3>1, <3>3
  <2>3. turn + 1 = size + 1 => ~LastAndOther
    <3>1. turn = size => slots[turn] = size BY <1>1
    <3> QED BY <1>1, <3>1 DEF LastAndOther
  <2>4. LastAndOther' <=> LastAndOther BY <1>1 DEF LastAndOther
  <2>5. loop # "panic" /\ loop # "done" BY <1>1
  <2> QED BY <1>1, <1>2, <2>1, <2>2, <2>3, <2>4, <2>5 DEF Met
<1> QED BY <1>3, <1>4, <1>5, <1>6 DEF FilterInv

\* A turn that removes its entry.
LEMMA RemoveInv == ASSUME FilterInv, RemoveNameless PROVE FilterInv'
<1> USE FilterReads
<1>1. /\ turn <= size /\ slots[turn] \in nameless /\ turn <= length /\ turn' = turn + 1
      /\ slots' = Removed(turn) /\ length' = length - 1 /\ loop = "running"
      /\ size' = size /\ nameless' = nameless /\ loop' = loop
  BY DEF RemoveNameless, Turn
<1>2. Shift' = Shift + 1 BY <1>1 DEF Shift
<1>3. /\ slots' \in [1..size -> 1..size]
      /\ \A k \in 1..size : k < turn => slots'[k] = slots[k]
      /\ \A k \in 1..size : turn <= k /\ k <= length - 1 => slots'[k] = k + Shift + 1
      /\ \A k \in 1..size : length <= k => slots'[k] = size
  <2>1. \A k \in 1..size : k \in turn..(length - 1) => k + 1 \in 1..size OBVIOUS
  <2>2. slots' \in [1..size -> 1..size] BY <1>1, <2>1 DEF Removed
  <2>3. \A k \in 1..size : k < turn => slots'[k] = slots[k] BY <1>1 DEF Removed
  <2>4. \A k \in 1..size : turn <= k /\ k <= length - 1 => slots'[k] = slots[k + 1]
    BY <1>1 DEF Removed
  <2>5. \A k \in turn..length : slots[k] = k + Shift BY DEF FilterInv, Ahead
  <2>6. \A k \in 1..size : length <= k => slots'[k] = slots[k] BY <1>1 DEF Removed
  <2>7. slots[length] = size
    <3>1. length \in turn..length BY <1>1
    <3>2. slots[length] = length + Shift BY <2>5, <3>1
    <3>3. length + Shift = size OBVIOUS
    <3> QED BY <3>2, <3>3
  <2>8. \A k \in 1..size : length < k => slots[k] = size BY DEF FilterInv, Ahead
  <2>9. \A k \in 1..size : length <= k => slots[k] = size BY <2>7, <2>8
  <2>10. ASSUME NEW k \in 1..size, turn <= k, k <= length - 1 PROVE slots'[k] = k + Shift + 1
    <3>1. k + 1 \in turn..length BY <2>10
    <3>2. slots[k + 1] = (k + 1) + Shift BY <2>5, <3>1
    <3>3. slots'[k] = slots[k + 1] BY <2>4, <2>10
    <3> QED BY <3>2, <3>3
  <2>11. \A k \in 1..size : length <= k => slots'[k] = size BY <2>6, <2>9
  <2> QED BY <2>2, <2>3, <2>10, <2>11
<1>4. FilterTypeOK'
  <2>1. length - 1 \in 0..size /\ turn + 1 \in 1..(size + 1) BY <1>1
  <2> QED BY <1>1, <1>3, <2>1 DEF FilterInv, FilterTypeOK
<1>5. Ahead'
  <2>1. ASSUME NEW k \in (turn + 1)..(length - 1) PROVE slots'[k] = k + (Shift + 1)
    <3>1. k \in 1..size /\ turn <= k /\ k <= length - 1 BY <2>1
    <3>2. slots'[k] = k + Shift + 1 BY <1>3, <3>1
    <3> QED BY <3>2
  <2>2. \A k \in ((length - 1) + 1)..size : slots'[k] = size BY <1>1, <1>3
  <2> QED BY <1>1, <1>2, <2>1, <2>2 DEF Ahead
<1>6. \A k \in 1..(length - 1) : k < turn + 1 =>
         \/ k < turn /\ slots'[k] = slots[k] /\ k \in 1..length
         \/ k = turn /\ slots'[k] = turn + Shift + 1
  BY <1>1, <1>3
<1>7. Passed'
  <2>1. \A k \in 1..(length - 1) : k < turn + 1 => slots'[k] < turn + 1 + (Shift + 1)
    <3> SUFFICES ASSUME NEW k \in 1..(length - 1), k < turn + 1
                 PROVE slots'[k] < turn + 1 + (Shift + 1) OBVIOUS
    <3>1. CASE k < turn /\ slots'[k] = slots[k] /\ k \in 1..length
      <4>1. slots[k] < turn + Shift BY <3>1 DEF FilterInv, Passed
      <4>2. slots[k] \in Nat BY <3>1
      <4> QED BY <3>1, <4>1, <4>2
    <3>2. CASE slots'[k] = turn + Shift + 1 BY <3>2
    <3> QED BY <1>6, <3>1, <3>2
  <2>2. \A j, k \in 1..(length - 1) : j < k /\ k < turn + 1 => slots'[j] < slots'[k]
    <3> SUFFICES ASSUME NEW j \in 1..(length - 1), NEW k \in 1..(length - 1), j < k, k < turn + 1
                 PROVE slots'[j] < slots'[k] OBVIOUS
    <3>1. j < turn /\ slots'[j] = slots[j] /\ j \in 1..length BY <1>3
    <3>2. CASE k < turn /\ slots'[k] = slots[k] /\ k \in 1..length
      BY <3>1, <3>2 DEF FilterInv, Passed
    <3>3. CASE slots'[k] = turn + Shift + 1
      <4>1. slots[j] < turn + Shift BY <3>1 DEF FilterInv, Passed
      <4>2. slots[j] \in Nat BY <3>1
      <4> QED BY <3>1, <3>3, <4>1, <4>2
    <3> QED BY <1>6, <3>2, <3>3
  <2>3. \A e \in 1..size : e \notin nameless /\ e < turn + 1 + (Shift + 1) =>
          \E k \in 1..(length - 1) : k < turn + 1 /\ slots'[k] = e
    <3> SUFFICES ASSUME NEW e \in 1..size, e \notin nameless, e < turn + 1 + (Shift + 1)
                 PROVE \E k \in 1..(length - 1) : k < turn + 1 /\ slots'[k] = e OBVIOUS
    <3>1. CASE e < turn + Shift
      <4>1. PICK k \in 1..length : k < turn /\ slots[k] = e BY <3>1 DEF FilterInv, Passed
      <4>2. k \in 1..(length - 1) BY <1>1, <4>1
      <4>3. slots'[k] = e BY <1>3, <4>1
      <4> QED BY <4>1, <4>2, <4>3
    <3>2. e # turn + Shift BY <1>1
    <3>3. CASE e = turn + Shift + 1
      <4>1. turn \in 1..(length - 1) BY <1>1, <3>3
      <4>2. slots'[turn] = e BY <1>3, <3>3, <4>1
      <4> QED BY <4>1, <4>2
    <3>4. ASSUME NEW n \in Int, NEW a \in Int, NEW d \in Int, n < a + 1 + (d + 1)
          PROVE  n < a + d \/ n = a + d \/ n = a + d + 1
      BY <3>4
    <3>5. e \in Int /\ turn \in Int /\ Shift \in Int OBVIOUS
    <3> QED BY <3>1, <3>2, <3>3, <3>4, <3>5
  <2>4. \A k \in 1..(length - 1) : k < turn + 1 /\ slots'[k] \in nameless => slots'[k] - 1 \in nameless
    <3> SUFFICES ASSUME NEW k \in 1..(length - 1), k < turn + 1, slots'[k] \in nameless
                 PROVE slots'[k] - 1 \in nameless OBVIOUS
    <3>1. CASE k < turn /\ slots'[k] = slots[k] /\ k \in 1..length BY <3>1 DEF FilterInv, Passed
    <3>2. CASE slots'[k] = turn + Shift + 1
      <4>1. slots'[k] - 1 = turn + Shift BY <3>2
      <4> QED BY <1>1, <4>1
    <3> QED BY <1>6, <3>1, <3>2
  <2> QED BY <1>1, <1>2, <2>1, <2>2, <2>3, <2>4 DEF Passed
<1>8. Met'
  <2>1. \E b \in nameless : b < turn + 1
    <3>1. CASE Shift > 0
      <4>1. PICK b \in nameless : b < turn BY <3>1 DEF FilterInv, Met
      <4> QED BY <4>1
    <3>2. CASE Shift = 0
      <4>1. slots[turn] = turn BY <1>1, <3>2
      <4> QED BY <1>1, <4>1
    <3> QED BY <3>1, <3>2
  <2>2. turn + 1 = size + 1 => ~LastAndOther
    <3> SUFFICES ASSUME turn = size PROVE nameless = {size} BY DEF LastAndOther
    <3>1. Shift = 0 BY <1>1
    <3>2. slots[turn] = size BY <1>1
    <3>3. \A b \in nameless : b >= size BY <3>1 DEF FilterInv, Met
    <3>4. \A b \in nameless : b = size BY <3>3
    <3> QED BY <1>1, <3>2, <3>4
  <2>3. LastAndOther' <=> LastAndOther BY <1>1 DEF LastAndOther
  <2>4. loop # "panic" /\ loop # "done" BY <1>1
  <2> QED BY <1>1, <1>2, <2>1, <2>2, <2>3, <2>4 DEF Met
<1> QED BY <1>4, <1>5, <1>7, <1>8 DEF FilterInv

\* Every step of the loop keeps the invariant; a panic is one, of the list it is about.
LEMMA FilterNextInv == FilterInv /\ [FilterNext]_filterVars => FilterInv'
<1> SUFFICES ASSUME FilterInv, [FilterNext]_filterVars PROVE FilterInv' OBVIOUS
<1>1. CASE KeepPlayer BY <1>1, KeepInv
<1>2. CASE RemoveNameless BY <1>2, RemoveInv
<1>3. ASSUME UNCHANGED <<size, nameless, slots, length, turn>>,
             loop' \in {"running", "done", "panic"}
      PROVE  FilterTypeOK' /\ Ahead' /\ Passed' /\ Shift' = Shift /\ (LastAndOther' <=> LastAndOther)
  BY <1>3 DEF FilterInv, FilterTypeOK, Ahead, Passed, Shift, LastAndOther
<1>4. CASE SlicePanic
  <2>1. slots[turn] \in nameless /\ turn > length /\ turn <= size /\ loop' = "panic"
    BY <1>4 DEF SlicePanic, Turn
  <2>2. Shift > 0 /\ slots[turn] = size BY <2>1, FilterReads
  <2>3. PICK b \in nameless : b < turn BY <2>2 DEF FilterInv, Met
  <2>4. b # size BY <2>1, <2>3, FilterReads
  <2>5. LastAndOther BY <2>1, <2>2, <2>3, <2>4 DEF LastAndOther
  <2>6. Met' BY <1>3, <1>4, <2>1, <2>5 DEF SlicePanic, FilterInv, Met
  <2> QED BY <1>3, <1>4, <2>6 DEF SlicePanic, FilterInv
<1>5. CASE EndLoop
  <2>1. turn = size + 1 BY <1>5, FilterReads DEF EndLoop
  <2>2. ~LastAndOther BY <1>5, <2>1 DEF EndLoop, FilterInv, Met
  <2>3. Met' BY <1>3, <1>5, <2>1, <2>2 DEF EndLoop, FilterInv, Met
  <2> QED BY <1>3, <1>5, <2>3 DEF EndLoop, FilterInv
<1>6. CASE UNCHANGED filterVars
  BY <1>6 DEF filterVars, FilterInv, FilterTypeOK, Ahead, Passed, Met, Shift, LastAndOther
<1> QED BY <1>1, <1>2, <1>4, <1>5, <1>6 DEF FilterNext

\* So the invariant holds in every state of the loop.
LEMMA FilterInvariance == FilterSpec => []FilterInv
BY FilterInitInv, FilterNextInv, PTL DEF FilterSpec

\* The numbers of the loop stay in their bounds: it reads no place past the array, for lists
\* of any length.
THEOREM FilterTypeCorrect == FilterSpec => []FilterTypeOK
<1>1. FilterInv => FilterTypeOK BY DEF FilterInv
<1> QED BY <1>1, FilterInvariance, PTL

\* When the loop has ended, every place of the slice is one it has passed.
LEMMA FilterEnd ==
    ASSUME FilterInv, loop = "done"
    PROVE  /\ \A k \in 1..length : k < turn
           /\ \A e \in 1..size : e < turn + Shift
<1>1. turn = size + 1 BY DEF FilterInv, Met
<1> QED BY <1>1, FilterReads

\* The filter loses no player, repeats none and keeps their order, for lists of any length.
THEOREM PlayersKeptHolds == FilterSpec => []PlayersKept
<1>1. FilterInv => PlayersKept
  <2> SUFFICES ASSUME FilterInv, loop = "done"
               PROVE  /\ \A e \in 1..size : e \notin nameless => \E k \in 1..length : slots[k] = e
                      /\ \A j, k \in 1..length : j < k => slots[j] < slots[k]
    BY DEF PlayersKept
  <2> QED BY FilterEnd DEF FilterInv, Passed
<1> QED BY <1>1, FilterInvariance, PTL

\* What the filter leaves in by mistake stood behind another nameless entry.
THEOREM OnlyFollowersStayHolds == FilterSpec => []OnlyFollowersStay
<1>1. FilterInv => OnlyFollowersStay
  <2> SUFFICES ASSUME FilterInv, loop = "done", NEW k \in 1..length, slots[k] \in nameless
               PROVE  slots[k] - 1 \in nameless
    BY DEF OnlyFollowersStay
  <2> QED BY FilterEnd DEF FilterInv, Passed
<1> QED BY <1>1, FilterInvariance, PTL

\* The lists that make the filter panic are those with a nameless last entry and another.
THEOREM PanicsExactlyHolds == FilterSpec => []PanicsExactly
<1>1. FilterInv => PanicsExactly
  <2> SUFFICES ASSUME FilterInv PROVE PanicsExactly OBVIOUS
  <2>1. loop = "done" => loop # "panic" OBVIOUS
  <2> QED BY <2>1 DEF FilterInv, Met, PanicsExactly
<1> QED BY <1>1, FilterInvariance, PTL
==============================================================================
