-------------------------------- MODULE Proxy --------------------------------
(***************************************************************************)
(* The relay between players and game servers (Proxy/src/main.rs and       *)
(* user_manager.rs). Every WebSocket connection is one tokio task; the     *)
(* tasks share two maps, users (by 16-bit identifier) and servers (by      *)
(* server id), whose entries hold the sending half of the task's channel.  *)
(*                                                                         *)
(* Only the map operations, channel operations and awaits of a task are    *)
(* seen by the others: they are the steps here. A connection that was      *)
(* replaced or dropped finds out from its own channel, and every           *)
(* connection cleans up by key: those are the races of this component.     *)
(***************************************************************************)
EXTENDS Naturals, Sequences, FiniteSets

CONSTANTS
    Clients, Servers,   \* the connections of a behaviour, each used once
    UserIds, ServerIds,
    UserIdOf,           \* convert_token(token) of a client connection
    ServerIdOf,         \* claims.server_id of a connection
    MaxPackets,         \* packets a peer sends, by connection (a bound)
    None

Conns == Clients \cup Servers

\* n is the place of the packet in what its sender sent; id the identifier in front.
Packet == [from: Conns, id: UserIds, n: Nat \ {0}]

ASSUME ProxyAssumption ==
    /\ Clients \cap Servers = {}
    /\ UserIdOf \in [Clients -> UserIds]
    /\ ServerIdOf \in [Conns -> ServerIds]
    /\ MaxPackets \in [Conns -> Nat]
    /\ None \notin Conns

VARIABLES
    users,      \* UserManager.users: the client registered under an identifier
    servers,    \* UserManager.servers: the server registered under a server id
    pc,         \* where the task of a connection is
    link,       \* is the peer's side of the socket still open
    queue,      \* rx: packets sent to this connection, not written to it yet
    target,     \* client: the connection whose sender `server` holds
    timer,      \* client: server_disconnect_time
    cancelled,  \* server: cancel_rx holds a message
    remove,     \* server: remove_server
    sent,       \* packets read from this peer so far
    written,    \* packets written to this peer, in order
    shared      \* history: keys that two live connections had at once

maps == <<users, servers>>
clientVars == <<target, timer>>
serverVars == <<cancelled, remove>>
traffic == <<queue, sent, written>>
vars == <<maps, pc, link, clientVars, serverVars, traffic, shared>>

ClientPC == {"start", "get_user", "remove_user", "add_user", "insert", "loop", "exit", "done"}
ServerPC == {"start", "add_server", "loop", "exit", "done"}

TypeOK ==
    /\ users \in [UserIds -> Clients \cup {None}]
    /\ servers \in [ServerIds -> Servers \cup {None}]
    /\ pc \in [Conns -> ClientPC \cup ServerPC]
    /\ \A c \in Clients : pc[c] \in ClientPC
    /\ \A s \in Servers : pc[s] \in ServerPC
    /\ link \in [Conns -> BOOLEAN]
    /\ queue \in [Conns -> Seq(Packet)]
    /\ target \in [Clients -> Servers \cup {None}]
    /\ timer \in [Clients -> {"none", "running", "elapsed"}]
    /\ cancelled \in [Servers -> BOOLEAN]
    /\ remove \in [Servers -> BOOLEAN]
    /\ sent \in [Conns -> Nat] /\ \A x \in Conns : sent[x] <= MaxPackets[x]
    /\ written \in [Conns -> Seq(Packet)]
    /\ shared \subseteq UserIds \cup ServerIds

Init ==
    /\ users = [u \in UserIds |-> None]
    /\ servers = [i \in ServerIds |-> None]
    /\ pc = [x \in Conns |-> "start"]
    /\ link = [x \in Conns |-> TRUE]
    /\ queue = [x \in Conns |-> <<>>]
    /\ target = [c \in Clients |-> None]
    /\ timer = [c \in Clients |-> "none"]
    /\ cancelled = [s \in Servers |-> FALSE]
    /\ remove = [s \in Servers |-> TRUE]
    /\ sent = [x \in Conns |-> 0]
    /\ written = [x \in Conns |-> <<>>]
    /\ shared = {}

-----------------------------------------------------------------------------
(* Channels. rx lives until its task returns, so the packets sent to a task that *)
(* has left its loop are accepted and lost.                                      *)

Goto(x, label) == pc' = [pc EXCEPT ![x] = label]
Receiving(x) == pc[x] \in {"loop", "exit"}

\* Who can still send to a connection: its map entry and, for a server, the clones
\* of that entry in the tasks of clients.
ClientReachable(c) == users[UserIdOf[c]] = c
ServerReachable(s) ==
    \/ servers[ServerIdOf[s]] = s
    \/ \E c \in Clients : target[c] = s /\ pc[c] # "done"

Put(q, x, p) == [q EXCEPT ![x] = Append(@, p)]

\* history: a live connection with this key other than x
AlsoLive(x, key) ==
    \E y \in Conns \ {x} :
        /\ pc[y] \notin {"start", "done"}
        /\ IF x \in Clients THEN y \in Clients /\ UserIdOf[y] = key
                            ELSE y \in Servers /\ ServerIdOf[y] = key
Share(x, key) == shared' = IF AlsoLive(x, key) THEN shared \cup {key} ELSE shared

-----------------------------------------------------------------------------
(* A client connection, after its token was validated. *)

\* get_server_by_id, then close or go on with a clone of the server's entry.
ClientLookup(c) ==
    /\ pc[c] = "start"
    /\ LET s == servers[ServerIdOf[c]]
       IN /\ target' = [target EXCEPT ![c] = s]
          /\ Goto(c, IF s = None THEN "done" ELSE "get_user")
          /\ IF s = None THEN UNCHANGED shared ELSE Share(c, UserIdOf[c])
    /\ UNCHANGED <<maps, link, timer, serverVars, traffic>>

\* get_user_by_id. The message on the old entry's cancel_token is read by nobody.
ClientGetUser(c) ==
    /\ pc[c] = "get_user"
    /\ Goto(c, IF users[UserIdOf[c]] = None THEN "add_user" ELSE "remove_user")
    /\ UNCHANGED <<maps, link, clientVars, serverVars, traffic, shared>>

ClientRemoveOld(c) ==
    /\ pc[c] = "remove_user" /\ Goto(c, "add_user")
    /\ users' = [users EXCEPT ![UserIdOf[c]] = None]
    /\ UNCHANGED <<servers, link, clientVars, serverVars, traffic, shared>>

\* add_user first removes whoever is registered under the identifier by now,
ClientDropOther(c) ==
    /\ pc[c] = "add_user" /\ Goto(c, "insert")
    /\ users' = [users EXCEPT ![UserIdOf[c]] = None]
    /\ UNCHANGED <<servers, link, clientVars, serverVars, traffic, shared>>

\* then inserts, over an entry that was inserted in between.
ClientAddUser(c) ==
    /\ pc[c] = "insert" /\ Goto(c, "loop")
    /\ users' = [users EXCEPT ![UserIdOf[c]] = c]
    /\ UNCHANGED <<servers, link, clientVars, serverVars, traffic, shared>>

\* Mutant: the packet also goes to the registered server when the send succeeded.
ClientReadTwice(c) ==
    /\ pc[c] = "loop" /\ link[c] /\ sent[c] < MaxPackets[c]
    /\ sent' = [sent EXCEPT ![c] = @ + 1]
    /\ LET p == [from |-> c, id |-> UserIdOf[c], n |-> sent[c] + 1]
           new == servers[ServerIdOf[c]]
           first == IF Receiving(target[c]) THEN Put(queue, target[c], p) ELSE queue
       IN /\ new # None /\ target' = [target EXCEPT ![c] = new]
          /\ queue' = IF Receiving(new) THEN Put(first, new, p) ELSE first
    /\ UNCHANGED <<pc, timer, maps, link, serverVars, written, shared>>

\* A packet from the player: send it to the server held, or look the server up again.
ClientRead(c) ==
    /\ pc[c] = "loop" /\ link[c] /\ sent[c] < MaxPackets[c]
    /\ sent' = [sent EXCEPT ![c] = @ + 1]
    /\ LET p == [from |-> c, id |-> UserIdOf[c], n |-> sent[c] + 1]
           new == servers[ServerIdOf[c]]
       IN \/ /\ Receiving(target[c])
             /\ queue' = Put(queue, target[c], p)
             /\ UNCHANGED <<pc, clientVars>>
          \/ /\ ~Receiving(target[c]) /\ new = None
             /\ timer' = [timer EXCEPT ![c] = IF @ = "none" THEN "running" ELSE @]
             /\ Goto(c, IF timer[c] = "elapsed" THEN "exit" ELSE "loop")
             /\ UNCHANGED <<queue, target>>
          \/ /\ ~Receiving(target[c]) /\ new # None
             /\ timer' = [timer EXCEPT ![c] = "none"]
             /\ target' = [target EXCEPT ![c] = new]
             /\ queue' = IF Receiving(new) THEN Put(queue, new, p) ELSE queue
             /\ UNCHANGED pc
    /\ UNCHANGED <<maps, link, serverVars, written, shared>>

\* SERVER_RECONNECT_TIMEOUT passes after server_disconnect_time.
ReconnectTimeout(c) ==
    /\ timer[c] = "running" /\ timer' = [timer EXCEPT ![c] = "elapsed"]
    /\ UNCHANGED <<maps, pc, link, target, serverVars, traffic, shared>>

ClientWrite(c) ==
    /\ pc[c] = "loop" /\ queue[c] # <<>>
    /\ queue' = [queue EXCEPT ![c] = Tail(@)]
    /\ written' = Put(written, c, Head(queue[c]))
    /\ UNCHANGED <<maps, pc, link, clientVars, serverVars, sent, shared>>

\* Mutant: rx.recv() returning None does not leave the loop.
ClientClosedSocketOnly(c) ==
    /\ pc[c] = "loop" /\ ~link[c] /\ Goto(c, "exit")
    /\ UNCHANGED <<maps, link, clientVars, serverVars, traffic, shared>>

\* The socket ended, or rx.recv() returned None: every sender is gone.
ClientClosed(c) ==
    /\ pc[c] = "loop" /\ (~link[c] \/ (~ClientReachable(c) /\ queue[c] = <<>>))
    /\ Goto(c, "exit")
    /\ UNCHANGED <<maps, link, clientVars, serverVars, traffic, shared>>

\* Mutant: the task returns without remove_user.
ClientExitForgets(c) ==
    /\ pc[c] = "exit" /\ Goto(c, "done")
    /\ queue' = [queue EXCEPT ![c] = <<>>]
    /\ UNCHANGED <<maps, link, clientVars, serverVars, sent, written, shared>>

\* Mutant: remove_server instead of remove_user.
ClientExitRemovesServer(c) ==
    /\ pc[c] = "exit" /\ Goto(c, "done")
    /\ users' = [users EXCEPT ![UserIdOf[c]] = None]
    /\ servers' = [servers EXCEPT ![ServerIdOf[c]] = None]
    /\ queue' = [queue EXCEPT ![c] = <<>>]
    /\ UNCHANGED <<link, clientVars, serverVars, sent, written, shared>>

\* remove_user, by identifier; then the task returns and drops its channel.
ClientExit(c) ==
    /\ pc[c] = "exit" /\ Goto(c, "done")
    /\ users' = [users EXCEPT ![UserIdOf[c]] = None]
    /\ queue' = [queue EXCEPT ![c] = <<>>]
    /\ UNCHANGED <<servers, link, clientVars, serverVars, sent, written, shared>>

-----------------------------------------------------------------------------
(* A server connection. *)

\* get_server_by_id; a connection registered under this id is told to stop.
ServerLookup(s) ==
    /\ pc[s] = "start" /\ Goto(s, "add_server")
    /\ LET old == servers[ServerIdOf[s]]
       IN cancelled' = IF old = None THEN cancelled ELSE [cancelled EXCEPT ![old] = TRUE]
    /\ Share(s, ServerIdOf[s])
    /\ UNCHANGED <<maps, link, clientVars, remove, traffic>>

ServerAdd(s) ==
    /\ pc[s] = "add_server" /\ Goto(s, "loop")
    /\ servers' = [servers EXCEPT ![ServerIdOf[s]] = s]
    /\ UNCHANGED <<users, link, clientVars, serverVars, traffic, shared>>

\* The identifiers the game server has had a packet from on this connection. An assumption on
\* the game server, whose engine answers peers it has heard from: the proxy checks nothing and
\* forwards to any identifier.
Known(s) == {written[s][k].id : k \in DOMAIN written[s]}

\* Mutant: the packet goes to every registered client.
ServerReadBroadcast(s, u) ==
    /\ pc[s] = "loop" /\ link[s] /\ sent[s] < MaxPackets[s] /\ u \in Known(s)
    /\ sent' = [sent EXCEPT ![s] = @ + 1]
    /\ LET p == [from |-> s, id |-> u, n |-> sent[s] + 1]
       IN queue' = [x \in Conns |-> IF \E v \in UserIds : users[v] = x
                                    THEN Append(queue[x], p) ELSE queue[x]]
    /\ UNCHANGED <<maps, pc, link, clientVars, serverVars, written, shared>>

ServerRead(s, u) ==
    /\ pc[s] = "loop" /\ link[s] /\ sent[s] < MaxPackets[s] /\ u \in Known(s)
    /\ sent' = [sent EXCEPT ![s] = @ + 1]
    /\ LET p == [from |-> s, id |-> u, n |-> sent[s] + 1]
       IN queue' = IF users[u] = None THEN queue ELSE Put(queue, users[u], p)
    /\ UNCHANGED <<maps, pc, link, clientVars, serverVars, written, shared>>

\* Mutant: the newest packet is written first.
ServerWriteNewest(s) ==
    /\ pc[s] = "loop" /\ queue[s] # <<>>
    /\ queue' = [queue EXCEPT ![s] = SubSeq(@, 1, Len(@) - 1)]
    /\ written' = Put(written, s, queue[s][Len(queue[s])])
    /\ UNCHANGED <<maps, pc, link, clientVars, serverVars, sent, shared>>

ServerWrite(s) ==
    /\ pc[s] = "loop" /\ queue[s] # <<>>
    /\ queue' = [queue EXCEPT ![s] = Tail(@)]
    /\ written' = Put(written, s, Head(queue[s]))
    /\ UNCHANGED <<maps, pc, link, clientVars, serverVars, sent, shared>>

\* The socket ended, or rx.recv() returned None.
ServerClosed(s) ==
    /\ pc[s] = "loop" /\ (~link[s] \/ (~ServerReachable(s) /\ queue[s] = <<>>))
    /\ Goto(s, "exit")
    /\ UNCHANGED <<maps, link, clientVars, serverVars, traffic, shared>>

\* cancel_rx.recv() returned: a successor's message, or None as every sender is gone.
\* tokio::select! takes any branch that is ready, this one or ServerClosed.
ServerCancelled(s) ==
    /\ pc[s] = "loop" /\ (cancelled[s] \/ ~ServerReachable(s))
    /\ remove' = [remove EXCEPT ![s] = FALSE] /\ Goto(s, "exit")
    /\ UNCHANGED <<maps, link, clientVars, cancelled, traffic, shared>>

\* Mutant: a server takes its clients' entries with it.
ServerExitDropsClients(s) ==
    /\ pc[s] = "exit" /\ Goto(s, "done")
    /\ servers' = IF remove[s] THEN [servers EXCEPT ![ServerIdOf[s]] = None] ELSE servers
    /\ users' = [u \in UserIds |-> IF users[u] # None /\ ServerIdOf[users[u]] = ServerIdOf[s]
                                   THEN None ELSE users[u]]
    /\ queue' = [queue EXCEPT ![s] = <<>>]
    /\ UNCHANGED <<link, clientVars, serverVars, sent, written, shared>>

\* Mutant: the task waits for its channel to be drained.
ServerExitFlush(s) ==
    /\ pc[s] = "exit" /\ queue[s] = <<>> /\ Goto(s, "done")
    /\ servers' = IF remove[s] THEN [servers EXCEPT ![ServerIdOf[s]] = None] ELSE servers
    /\ UNCHANGED <<users, link, clientVars, serverVars, traffic, shared>>

\* remove_server by id, unless the task was cancelled; then it returns.
ServerExit(s) ==
    /\ pc[s] = "exit" /\ Goto(s, "done")
    /\ servers' = IF remove[s] THEN [servers EXCEPT ![ServerIdOf[s]] = None] ELSE servers
    /\ queue' = [queue EXCEPT ![s] = <<>>]
    /\ UNCHANGED <<users, link, clientVars, serverVars, sent, written, shared>>

-----------------------------------------------------------------------------

\* The peer closes its socket, crashes, or the network drops the connection.
Disconnect(x) ==
    /\ link[x] /\ pc[x] = "loop" /\ link' = [link EXCEPT ![x] = FALSE]
    /\ UNCHANGED <<maps, pc, clientVars, serverVars, traffic, shared>>

ClientTask(c) ==
    \/ ClientGetUser(c) \/ ClientRemoveOld(c) \/ ClientDropOther(c) \/ ClientAddUser(c)
    \/ ClientWrite(c) \/ ClientClosed(c) \/ ClientExit(c)

ServerTask(s) ==
    \/ ServerAdd(s) \/ ServerWrite(s) \/ ServerClosed(s) \/ ServerCancelled(s) \/ ServerExit(s)

Next ==
    \/ \E c \in Clients : ClientTask(c) \/ ClientLookup(c) \/ ClientRead(c) \/ ReconnectTimeout(c)
    \/ \E s \in Servers :
          ServerTask(s) \/ ServerLookup(s) \/ \E u \in UserIds : ServerRead(s, u)
    \/ \E x \in Conns : Disconnect(x)

Spec == Init /\ [][Next]_vars

\* tokio polls a woken task, and select! starts at a random branch, so a branch that
\* stays ready is taken. Peers and the network owe nothing.
Fairness ==
    /\ \A c \in Clients :
          /\ WF_vars(ClientGetUser(c)) /\ WF_vars(ClientRemoveOld(c))
          /\ WF_vars(ClientDropOther(c)) /\ WF_vars(ClientAddUser(c))
          /\ WF_vars(ClientWrite(c)) /\ WF_vars(ClientClosed(c)) /\ WF_vars(ClientExit(c))
    /\ \A s \in Servers :
          /\ WF_vars(ServerAdd(s)) /\ WF_vars(ServerWrite(s))
          /\ WF_vars(ServerClosed(s) \/ ServerCancelled(s)) /\ WF_vars(ServerExit(s))

FairSpec == Spec /\ Fairness

-----------------------------------------------------------------------------
(* Properties. *)

\* A finished client task leaves no entry behind in users, however often entries were
\* replaced under it; a finished server task leaves one only to a successor that has
\* cancelled it and is about to overwrite it.
NoGhosts ==
    /\ \A u \in UserIds : users[u] # None => Receiving(users[u])
    /\ \A i \in ServerIds : servers[i] # None /\ ~Receiving(servers[i]) =>
          \E s \in Servers : pc[s] = "add_server" /\ ServerIdOf[s] = i

\* As long as no two connections with the same identifier were alive at once, a client
\* in its loop is reachable under its identifier.
SoleClientRegistered ==
    \A c \in Clients :
        pc[c] = "loop" /\ UserIdOf[c] \notin shared => users[UserIdOf[c]] = c

\* The same for servers: the entry of a server in its loop is only lost to another
\* connection for the same server id.
SoleServerRegistered ==
    \A s \in Servers :
        pc[s] = "loop" /\ ServerIdOf[s] \notin shared => servers[ServerIdOf[s]] = s

\* What a peer has been given and will be given.
Relayed(x) == written[x] \o queue[x]

\* The packets of one peer that reach another arrive in the order they were sent, and no
\* packet arrives twice anywhere: a failed send is repeated on the new server's channel,
\* never on both.
InOrder ==
    \A x, y \in Conns : \A j \in DOMAIN Relayed(x), k \in DOMAIN Relayed(y) :
        Relayed(x)[j].from = Relayed(y)[k].from =>
            /\ x = y /\ j < k => Relayed(x)[j].n < Relayed(y)[k].n
            /\ x # y => Relayed(x)[j].n # Relayed(y)[k].n

\* Packets cross between connections of the same server id only, as long as no two
\* tokens for different servers are folded to the same identifier and a game server sends only
\* to identifiers it has heard from (Known).
NoCrossTalk ==
    (\A c, d \in Clients : UserIdOf[c] = UserIdOf[d] => ServerIdOf[c] = ServerIdOf[d]) =>
        \A x \in Conns : \A k \in DOMAIN Relayed(x) :
            ServerIdOf[Relayed(x)[k].from] = ServerIdOf[x]

\* A player's packets may go to the connections of the server in their token, under the
\* player's identifier; a server's to the connections with the identifier of such a player.
Route(y, u, x) ==
    \/ /\ y \in Clients /\ x \in Servers
       /\ u = UserIdOf[y] /\ ServerIdOf[y] = ServerIdOf[x]
    \/ /\ y \in Servers /\ x \in Clients
       /\ u = UserIdOf[x] /\ \E c \in Clients : UserIdOf[c] = u /\ ServerIdOf[c] = ServerIdOf[y]

RelayView == INSTANCE Relay WITH
    Peers <- Conns, got <- written,
    Routes <- {r \in Conns \X UserIds \X Conns : Route(r[1], r[2], r[3])}

\* The tasks with their maps and channels implement a network that loses packets but neither
\* repeats, reorders nor misdirects them, whichever connections come and go, and whether or
\* not identifiers are shared.
ImplementsRelay == RelayView!Spec

\* A client whose entry was removed or overwritten does not linger: it closes, and the
\* player's game can connect again.
EvictedCloses ==
    \A c \in Clients : (pc[c] = "loop" /\ ~ClientReachable(c)) ~> (pc[c] = "done")

\* A server connection that nobody can send to any more closes, so that the game
\* server notices and registers again.
OrphanCloses ==
    \A s \in Servers : (pc[s] = "loop" /\ ~ServerReachable(s)) ~> (pc[s] = "done")

=============================================================================
