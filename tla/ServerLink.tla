------------------------------ MODULE ServerLink ------------------------------
(***************************************************************************)
(* A game server's listing in the server browser and the management        *)
(* WebSocket that keeps it alive, both ends together:                      *)
(*   - the game process: the server thread, which registers the server and *)
(*     runs what other threads queued in the ThreadExecutor, and the       *)
(*     WebSocket thread, which reconnects for ever and calls back;         *)
(*   - the API: RegisterServer, HandleServerWS with its ownedServers map,  *)
(*     and the cleanup of servers that have not been updated for 40 s.     *)
(* One action is what a thread does between two points where it can block. *)
(* All the game servers here belong to one host, who has a hosting limit.  *)
(***************************************************************************)
EXTENDS Integers, Sequences, FiniteSets

CONSTANTS
    GameServers,   \* the game processes of one host
    Dedicated,     \* the ones that run as dedicated servers
    Ids,           \* server ids that GenerateToken can return (a bound)
    Conns,         \* management connections the API has at one time (a bound)
    Limit,         \* UserModel.GetServerLimit of the host
    MaxFuncs,      \* bound on the functions queued in the executor
    Dummy, NoId, NoConn

ASSUME LinkAssumption ==
    /\ IsFiniteSet(GameServers) /\ GameServers # {} /\ Dedicated \subseteq GameServers
    /\ IsFiniteSet(Ids)
    /\ Limit \in Nat \ {0} /\ MaxFuncs \in Nat \ {0}
    /\ Dummy \notin Ids /\ NoId \notin Ids \cup {Dummy} /\ NoConn \notin Conns

VARIABLES
    \* the game process
    svr,          \* where the server thread is
    lock,         \* the server thread holds the executor's mutex (Process)
    funcs,        \* ThreadData.delayedFuncs of the server thread
    onlineMode,   \* Server::m_onlineMode
    serverId,     \* Server::m_serverId
    next,         \* the argument of the Connect call in progress
    target,       \* the id in the WebSocket's URL
    ix,           \* where the WebSocket thread is
    stop,         \* ix::WebSocket::_stop
    established,  \* ServerManagementAPI::m_connectionEstablished
    writeQueue,   \* m_writeQueue is not empty
    conn,         \* the connection of the WebSocket
    \* the API
    servers,      \* the servers collection
    fresh,        \* the ones with last_updated within the last 40 s
    cleaner,      \* where cleanupStaleServers is
    staleList,    \* the servers its GetWithCutoff returned
    owned,        \* ServerManager.ownedServers
    handler,      \* where the read loop of each connection is
    hid,          \* the server id of the connection
    peer,         \* the game process at the other end
    up,           \* the socket between the two is still open
    shared        \* history: connections that met another one with the same id

gameVars == <<svr, lock, funcs, onlineMode, serverId, next>>
linkVars == <<target, ix, stop, established, conn>>
listVars == <<servers, fresh>>
cleanVars == <<cleaner, staleList>>
apiVars == <<owned, handler, hid, peer, shared>>
vars == <<gameVars, linkVars, writeQueue, listVars, cleanVars, apiVars, up>>

TypeOK ==
    /\ svr \in [GameServers -> {"boot", "frame", "process", "check", "create", "join"}]
    /\ lock \in [GameServers -> BOOLEAN]
    /\ funcs \in [GameServers -> Seq({"Register", "Event"})]
    /\ onlineMode \in [GameServers -> BOOLEAN]
    /\ serverId \in [GameServers -> Ids \cup {NoId}]
    /\ next \in [GameServers -> Ids \cup {Dummy, NoId}]
    /\ target \in [GameServers -> Ids \cup {Dummy, NoId}]
    /\ ix \in [GameServers -> {"off", "connect", "opening", "open", "gone", "message"}]
    /\ stop \in [GameServers -> BOOLEAN]
    /\ established \in [GameServers -> BOOLEAN]
    /\ writeQueue \in [GameServers -> BOOLEAN]
    /\ conn \in [GameServers -> Conns \cup {NoConn}]
    /\ servers \subseteq Ids
    /\ fresh \subseteq servers
    /\ cleaner \in {"tick", "delete"}
    /\ staleList \subseteq Ids
    /\ owned \in [Ids -> Conns \cup {NoConn}]
    /\ handler \in [Conns -> {"free", "upgrade", "own", "read", "delete", "touch", "close"}]
    /\ hid \in [Conns -> Ids \cup {NoId}]
    /\ peer \in [Conns -> GameServers]
    /\ up \in [Conns -> BOOLEAN]
    /\ shared \subseteq Conns

-----------------------------------------------------------------------------
(* The server thread: Register, Connect, and the frame that runs them. *)

\* An id nobody refers to any more stands for one that was never used.
Unused == {i \in Ids :
    /\ i \notin servers \cup staleList
    /\ \A g \in GameServers : i \notin {serverId[g], next[g], target[g]}
    /\ \A c \in Conns : handler[c] # "free" => hid[c] # i}

\* InitDedicatedServer and Server::Start register before the first frame.
Boot(g) ==
    /\ svr[g] = "boot"
    /\ svr' = [svr EXCEPT ![g] = "check"]
    /\ UNCHANGED <<lock, funcs, onlineMode, serverId, next, linkVars, writeQueue, listVars,
                   cleanVars, apiVars, up>>

\* Connect(id): stop() asks the WebSocket thread, if there is one, to end.
BeginConnect(g, id) ==
    /\ next' = [next EXCEPT ![g] = id]
    /\ svr' = [svr EXCEPT ![g] = "join"]
    /\ stop' = [stop EXCEPT ![g] = ix[g] # "off"]

\* The RPC was refused or failed: connect with the dummy id.
RegisterFailed(g) ==
    /\ svr[g] \in {"check", "create"}
    /\ BeginConnect(g, Dummy)
    /\ UNCHANGED <<lock, funcs, onlineMode, serverId, target, ix, established, conn, writeQueue,
                   listVars, cleanVars, apiVars, up>>

\* RegisterServer up to the insert: the host's servers are counted.
RegisterCheckLimit(g) ==
    /\ svr[g] = "check" /\ Cardinality(servers) < Limit
    /\ svr' = [svr EXCEPT ![g] = "create"]
    /\ UNCHANGED <<lock, funcs, onlineMode, serverId, next, linkVars, writeQueue, listVars,
                   cleanVars, apiVars, up>>

\* The insert. The answer may be lost: the server is listed and nobody knows its id.
RegisterCreate(g, id, answered) ==
    /\ svr[g] = "create" /\ id \in Unused
    /\ servers' = servers \cup {id}
    /\ fresh' = fresh \cup {id}
    /\ IF answered
       THEN /\ serverId' = [serverId EXCEPT ![g] = id]
            /\ onlineMode' = [onlineMode EXCEPT ![g] = TRUE]
            /\ BeginConnect(g, id)
       ELSE BeginConnect(g, Dummy) /\ UNCHANGED <<serverId, onlineMode>>
    /\ UNCHANGED <<lock, funcs, target, ix, established, conn, writeQueue, cleanVars, apiVars, up>>

\* Mutant: the new thread is started without waiting for the old one to end.
ConnectUnjoined(g) ==
    /\ svr[g] = "join"
    /\ target' = [target EXCEPT ![g] = next[g]]
    /\ ix' = [ix EXCEPT ![g] = "connect"]
    /\ stop' = [stop EXCEPT ![g] = FALSE]
    /\ svr' = [svr EXCEPT ![g] = IF lock[g] THEN "process" ELSE "frame"]
    /\ onlineMode' = [onlineMode EXCEPT ![g] =
          @ /\ (lock[g] \/ g \in Dedicated \/ serverId[g] # NoId)]
    /\ UNCHANGED <<lock, funcs, serverId, next, established, conn, writeQueue, listVars,
                   cleanVars, apiVars, up>>

\* stop() has joined the thread; the URL is set and a new one is started. A server
\* started from the game (Server::Start) that got no id stops being online.
Connect(g) ==
    /\ svr[g] = "join" /\ ix[g] = "off"
    /\ target' = [target EXCEPT ![g] = next[g]]
    /\ ix' = [ix EXCEPT ![g] = "connect"]
    /\ stop' = [stop EXCEPT ![g] = FALSE]
    /\ svr' = [svr EXCEPT ![g] = IF lock[g] THEN "process" ELSE "frame"]
    /\ onlineMode' = [onlineMode EXCEPT ![g] =
          @ /\ (lock[g] \/ g \in Dedicated \/ serverId[g] # NoId)]
    /\ UNCHANGED <<lock, funcs, serverId, next, established, conn, writeQueue, listVars,
                   cleanVars, apiVars, up>>

\* One frame of a running server: Heartbeat, when its timer has elapsed, and then
\* Process, which keeps the executor's mutex until every queued function has run.
Frame(g, elapsed) ==
    /\ svr[g] = "frame"
    /\ writeQueue' = [writeQueue EXCEPT ![g] =
          @ \/ (elapsed /\ onlineMode[g] /\ established[g])]
    /\ lock' = [lock EXCEPT ![g] = TRUE]
    /\ svr' = [svr EXCEPT ![g] = "process"]
    /\ UNCHANGED <<funcs, onlineMode, serverId, next, linkVars, listVars, cleanVars, apiVars, up>>

\* The next function of the queue: Register, which returns at once when offline, or
\* an event of the API, which answers with a console message.
ProcessFunc(g) ==
    /\ svr[g] = "process" /\ funcs[g] # <<>>
    /\ funcs' = [funcs EXCEPT ![g] = Tail(@)]
    /\ svr' = [svr EXCEPT ![g] =
          IF Head(funcs[g]) = "Register" /\ onlineMode[g] THEN "check" ELSE "process"]
    /\ writeQueue' = [writeQueue EXCEPT ![g] =
          @ \/ (Head(funcs[g]) = "Event" /\ established[g])]
    /\ UNCHANGED <<lock, onlineMode, serverId, next, linkVars, listVars, cleanVars, apiVars, up>>

ProcessEnd(g) ==
    /\ svr[g] = "process" /\ funcs[g] = <<>>
    /\ lock' = [lock EXCEPT ![g] = FALSE]
    /\ svr' = [svr EXCEPT ![g] = "frame"]
    /\ UNCHANGED <<funcs, onlineMode, serverId, next, linkVars, writeQueue, listVars, cleanVars,
                   apiVars, up>>

-----------------------------------------------------------------------------
(* The WebSocket thread: ix::WebSocket::run and the Receive callback. *)

\* HandleServerWS finds the server; the upgrade is still to come.
IxConnect(g, c) ==
    /\ ix[g] = "connect" /\ ~stop[g] /\ target[g] \in servers
    /\ handler[c] = "free" /\ \A h \in GameServers : conn[h] # c
    /\ ix' = [ix EXCEPT ![g] = "opening"]
    /\ conn' = [conn EXCEPT ![g] = c]
    /\ handler' = [handler EXCEPT ![c] = "upgrade"]
    /\ hid' = [hid EXCEPT ![c] = target[g]]
    /\ peer' = [peer EXCEPT ![c] = g]
    /\ up' = [up EXCEPT ![c] = TRUE]
    /\ shared' = shared \ {c}
    /\ UNCHANGED <<gameVars, target, stop, established, writeQueue, listVars, cleanVars, owned>>

\* HandleServerWS answers 410 and the error callback is about to queue Register.
IxGone(g) ==
    /\ ix[g] = "connect" /\ ~stop[g] /\ target[g] \notin servers
    /\ ix' = [ix EXCEPT ![g] = "gone"]
    /\ UNCHANGED <<gameVars, target, stop, established, conn, writeQueue, listVars, cleanVars,
                   apiVars, up>>

\* Queue takes the executor's mutex.
IxQueue(g) ==
    /\ ix[g] \in {"gone", "message"} /\ ~lock[g] /\ Len(funcs[g]) < MaxFuncs
    /\ funcs' = [funcs EXCEPT ![g] =
          Append(@, IF ix[g] = "gone" THEN "Register" ELSE "Event")]
    /\ ix' = [ix EXCEPT ![g] = IF @ = "gone" THEN "connect" ELSE "open"]
    /\ UNCHANGED <<svr, lock, onlineMode, serverId, next, target, stop, established, conn,
                   writeQueue, listVars, cleanVars, apiVars, up>>

\* The socket was closed under the thread: the Close callback, or a failed handshake.
IxClosed(g) ==
    /\ ix[g] \in {"opening", "open"} /\ ~up[conn[g]]
    /\ ix' = [ix EXCEPT ![g] = "connect"]
    /\ established' = [established EXCEPT ![g] = FALSE]
    /\ conn' = [conn EXCEPT ![g] = NoConn]
    /\ UNCHANGED <<gameVars, target, stop, writeQueue, listVars, cleanVars, apiVars, up>>

\* The thread sees _stop between two attempts, or closes its open connection first.
IxStopped(g) ==
    /\ stop[g] /\ ix[g] \in {"connect", "open"}
    /\ ix' = [ix EXCEPT ![g] = "off"]
    /\ established' = [established EXCEPT ![g] = FALSE]
    /\ up' = [c \in Conns |-> up[c] /\ c # conn[g]]
    /\ conn' = [conn EXCEPT ![g] = NoConn]
    /\ UNCHANGED <<gameVars, target, stop, writeQueue, listVars, cleanVars, apiVars>>

-----------------------------------------------------------------------------
(* The API: HandleServerWS and its read loop, cleanupStaleServers. *)

\* The upgrade reaches the client (the Open callback), or fails with the socket.
Upgrade(c) ==
    /\ handler[c] = "upgrade"
    /\ \/ /\ up[c]
          /\ handler' = [handler EXCEPT ![c] = "own"]
          /\ ix' = [ix EXCEPT ![peer[c]] = "open"]
          /\ established' = [established EXCEPT ![peer[c]] = TRUE]
       \/ ~up[c] /\ handler' = [handler EXCEPT ![c] = "free"] /\ UNCHANGED <<ix, established>>
    /\ UNCHANGED <<gameVars, target, stop, conn, writeQueue, listVars, cleanVars, owned, hid,
                   peer, shared, up>>

\* The entry of an older connection is replaced. The close frame written to that one, which
\* its client may have given up long ago, is one of the ends that Cut stands for.
Own(c) ==
    /\ handler[c] = "own"
    /\ handler' = [handler EXCEPT ![c] = "read"]
    /\ owned' = [owned EXCEPT ![hid[c]] = c]
    /\ LET others == {d \in Conns \ {c} : handler[d] \notin {"free", "upgrade"} /\ hid[d] = hid[c]}
       IN shared' = IF others = {} THEN shared ELSE shared \cup others \cup {c}
    /\ UNCHANGED <<gameVars, linkVars, writeQueue, listVars, cleanVars, hid, peer, up>>

\* A request for the server (kick, command) is written to the owned connection.
ProcessServerEvent(c) ==
    /\ hid[c] \in Ids /\ owned[hid[c]] = c /\ up[c] /\ ix[peer[c]] = "open"
    /\ ix' = [ix EXCEPT ![peer[c]] = "message"]
    /\ UNCHANGED <<gameVars, target, stop, established, conn, writeQueue, listVars, cleanVars,
                   apiVars, up>>

\* Mutant: a failed update of last_updated does not end the read loop.
ReadIgnoresError(c) ==
    /\ handler[c] = "read" /\ up[c] /\ writeQueue[peer[c]]
    /\ writeQueue' = [writeQueue EXCEPT ![peer[c]] = FALSE]
    /\ fresh' = fresh \cup ({hid[c]} \cap servers)
    /\ UNCHANGED <<gameVars, linkVars, servers, cleanVars, owned, hid, peer, shared, handler, up>>

\* The read loop gets what the game server wrote and updates last_updated; the update
\* fails when the server is not listed any more or the database does, and ends the loop.
Read(c) ==
    /\ handler[c] = "read" /\ up[c] /\ writeQueue[peer[c]]
    /\ writeQueue' = [writeQueue EXCEPT ![peer[c]] = FALSE]
    /\ \/ hid[c] \in servers /\ fresh' = fresh \cup {hid[c]} /\ UNCHANGED handler
       \/ handler' = [handler EXCEPT ![c] = "delete"] /\ UNCHANGED fresh
    /\ UNCHANGED <<gameVars, linkVars, servers, cleanVars, owned, hid, peer, shared, up>>

\* The socket is closed, or nothing came for 40 s.
ReadFails(c) ==
    /\ handler[c] = "read" /\ (~up[c] \/ ~writeQueue[peer[c]])
    /\ handler' = [handler EXCEPT ![c] = "delete"]
    /\ UNCHANGED <<gameVars, linkVars, writeQueue, listVars, cleanVars, owned, hid, peer, shared, up>>

\* Mutant: the deferred function does not remove the entry.
LoopDeleteForgets(c) ==
    /\ handler[c] = "delete"
    /\ handler' = [handler EXCEPT ![c] = "touch"]
    /\ UNCHANGED <<gameVars, linkVars, writeQueue, listVars, cleanVars, owned, hid, peer, shared, up>>

\* Mutant: the deferred function empties the whole map.
LoopDeleteAll(c) ==
    /\ handler[c] = "delete"
    /\ owned' = [i \in Ids |-> NoConn]
    /\ handler' = [handler EXCEPT ![c] = "touch"]
    /\ UNCHANGED <<gameVars, linkVars, writeQueue, listVars, cleanVars, hid, peer, shared, up>>

\* The deferred function removes the entry of the id, whoever it belongs to by now,
LoopDelete(c) ==
    /\ handler[c] = "delete"
    /\ owned' = [owned EXCEPT ![hid[c]] = NoConn]
    /\ handler' = [handler EXCEPT ![c] = "touch"]
    /\ UNCHANGED <<gameVars, linkVars, writeQueue, listVars, cleanVars, hid, peer, shared, up>>

\* gives the server 40 more seconds to come back,
LoopTouch(c) ==
    /\ handler[c] = "touch"
    /\ fresh' = fresh \cup ({hid[c]} \cap servers)
    /\ handler' = [handler EXCEPT ![c] = "close"]
    /\ UNCHANGED <<gameVars, linkVars, writeQueue, servers, cleanVars, owned, hid, peer, shared, up>>

\* and closes the socket.
LoopClose(c) ==
    /\ handler[c] = "close"
    /\ up' = [up EXCEPT ![c] = FALSE]
    /\ handler' = [handler EXCEPT ![c] = "free"]
    /\ UNCHANGED <<gameVars, linkVars, writeQueue, listVars, cleanVars, owned, hid, peer, shared>>

\* Mutant: the cutoff compared the wrong way round.
CleanReadFresh ==
    /\ cleaner = "tick" /\ fresh # {}
    /\ staleList' = fresh
    /\ cleaner' = "delete"
    /\ UNCHANGED <<gameVars, linkVars, writeQueue, listVars, apiVars, up>>

CleanRead ==
    /\ cleaner = "tick" /\ servers \ fresh # {}
    /\ staleList' = servers \ fresh
    /\ cleaner' = "delete"
    /\ UNCHANGED <<gameVars, linkVars, writeQueue, listVars, apiVars, up>>

\* DeleteMany goes by id alone: a server updated since CleanRead is deleted too. The
\* stale message published next changes nothing: the subscriber looks for it in a
\* branch that a message with a status never reaches.
CleanDelete ==
    /\ cleaner = "delete"
    /\ servers' = servers \ staleList
    /\ fresh' = fresh \ staleList
    /\ cleaner' = "tick" /\ staleList' = {}
    /\ UNCHANGED <<gameVars, linkVars, writeQueue, apiVars, up>>

CleanFails ==
    /\ cleaner = "delete"
    /\ cleaner' = "tick" /\ staleList' = {}
    /\ UNCHANGED <<gameVars, linkVars, writeQueue, listVars, apiVars, up>>

-----------------------------------------------------------------------------
(* The environment: the network and time. *)

Cut(c) ==
    /\ up[c] /\ up' = [up EXCEPT ![c] = FALSE]
    /\ UNCHANGED <<gameVars, linkVars, writeQueue, listVars, cleanVars, apiVars>>

\* 40 s have passed since the last update of the server.
Age(id) ==
    /\ id \in fresh /\ fresh' = fresh \ {id}
    /\ UNCHANGED <<gameVars, linkVars, writeQueue, servers, cleanVars, apiVars, up>>

Init ==
    /\ svr = [g \in GameServers |-> "boot"]
    /\ lock = [g \in GameServers |-> FALSE]
    /\ funcs = [g \in GameServers |-> <<>>]
    /\ onlineMode = [g \in GameServers |-> TRUE]
    /\ serverId = [g \in GameServers |-> NoId]
    /\ next = [g \in GameServers |-> NoId]
    /\ target = [g \in GameServers |-> NoId]
    /\ ix = [g \in GameServers |-> "off"]
    /\ stop = [g \in GameServers |-> FALSE]
    /\ established = [g \in GameServers |-> FALSE]
    /\ writeQueue = [g \in GameServers |-> FALSE]
    /\ conn = [g \in GameServers |-> NoConn]
    /\ servers = {} /\ fresh = {}
    /\ cleaner = "tick" /\ staleList = {}
    /\ owned = [i \in Ids |-> NoConn]
    /\ handler = [c \in Conns |-> "free"]
    /\ hid = [c \in Conns |-> NoId]
    /\ peer \in {[c \in Conns |-> g] : g \in GameServers}
    /\ up = [c \in Conns |-> FALSE]
    /\ shared = {}

ServerThread(g) ==
    \/ Boot(g) \/ RegisterFailed(g) \/ RegisterCheckLimit(g)
    \/ \E id \in Ids, answered \in BOOLEAN : RegisterCreate(g, id, answered)
    \/ Connect(g) \/ ProcessFunc(g) \/ ProcessEnd(g)
    \/ \E elapsed \in BOOLEAN : Frame(g, elapsed)

IxThread(g) ==
    \/ \E c \in Conns : IxConnect(g, c)
    \/ IxGone(g) \/ IxQueue(g) \/ IxClosed(g) \/ IxStopped(g)

\* What the goroutine of a connection does without waiting for a message.
Loop(c) == Upgrade(c) \/ Own(c) \/ LoopDelete(c) \/ LoopTouch(c) \/ LoopClose(c)

Next ==
    \/ \E g \in GameServers : ServerThread(g) \/ IxThread(g)
    \/ \E c \in Conns : Loop(c) \/ Read(c) \/ ReadFails(c) \/ ProcessServerEvent(c) \/ Cut(c)
    \/ CleanRead \/ CleanDelete \/ CleanFails
    \/ \E id \in Ids : Age(id)

Spec == Init /\ [][Next]_vars

\* Every thread that can run runs, and gets a mutex that is free again and again
\* (a frame holds it for microseconds). A read loop gets a message or times out. A server
\* nobody is connected to ages; one whose heartbeats arrive need not. The database
\* does not fail every deletion.
Fairness ==
    /\ \A g \in GameServers : WF_vars(ServerThread(g)) /\ WF_vars(IxThread(g)) /\ SF_vars(IxQueue(g))
    /\ \A c \in Conns : WF_vars(Loop(c)) /\ WF_vars(Read(c) \/ ReadFails(c))
    /\ WF_vars(CleanRead) /\ SF_vars(CleanDelete)
    /\ \A id \in Ids :
          WF_vars(Age(id) /\ \A c \in Conns : handler[c] # "free" => hid[c] # id)

FairSpec == Spec /\ Fairness

-----------------------------------------------------------------------------
(* Properties. *)

\* RegisterServer counts the host's servers and inserts the new one later. Each game
\* server has one call in flight at a time, so a host with n of them exceeds the
\* limit by at most n - 1, and with one never. (Proved; TLC does not check it, since the
\* state space with two game servers and two connections is out of its reach.)
LimitHolds == Cardinality(servers) <= Limit + Cardinality(GameServers) - 1

\* The connection a game server has open is for the id its server thread connected with
\* last, through every reconnect and every new registration: no late handshake of the
\* previous WebSocket thread survives into the new one.
LinkIsCurrent ==
    \A g \in GameServers :
        ix[g] \in {"opening", "open", "message"} =>
            conn[g] \in Conns /\ hid[conn[g]] = target[g]

\* ownedServers never keeps a connection whose read loop has ended: a kick is not
\* written to a closed socket for longer than the loop takes to clean up.
NoStaleOwner ==
    \A i \in Ids : owned[i] # NoConn =>
        handler[owned[i]] \in {"read", "delete"} /\ hid[owned[i]] = i

\* A connection that never met another one of its server stays in ownedServers until
\* its own loop ends. (One that did meet another can be removed by it: the deferred
\* delete goes by id.)
SoleLinkOwned ==
    \A c \in Conns : handler[c] = "read" /\ c \notin shared => owned[hid[c]] = c

\* A connection for a server that was deleted is closed, although the stale message
\* is ignored: the next heartbeat fails to update the server, or none comes.
DelistedCloses ==
    \A c \in Conns :
        (handler[c] = "read" /\ hid[c] \notin servers) ~> handler[c] = "free"

\* A listing no game server uses (the answer of RegisterServer was lost, or a second
\* registration replaced it) leaves the server browser.
OrphanDelisted ==
    \A id \in Ids :
        (id \in servers /\ \A g \in GameServers : id \notin {next[g], target[g]})
            ~> id \notin servers

\* "Connect to server management with a dummy server id so automatic reconnection
\* occurs" (Server.cpp:671): after a failed registration the server registers again.
AutomaticReconnection ==
    \A g \in GameServers : (svr[g] = "join" /\ next[g] = Dummy) ~> svr[g] = "check"
==============================================================================
