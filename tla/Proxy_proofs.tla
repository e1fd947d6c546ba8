---------------------------- MODULE Proxy_proofs ----------------------------
(***************************************************************************)
(* Proofs about Proxy, for any number of connections, identifiers, server  *)
(* ids and packets, and whichever connections share an identifier.         *)
(***************************************************************************)
EXTENDS Proxy, SequenceTheorems, TLAPS

-----------------------------------------------------------------------------
(* The inductive invariant. *)

\* The task runs: the connection got past its lookup and has not returned.
Live(x) == pc[x] \notin {"start", "done"}

\* The tokens of one identifier are all for one server id.
Apart == \A c, d \in Clients : UserIdOf[c] = UserIdOf[d] => ServerIdOf[c] = ServerIdOf[d]

\* A client past its lookup holds the sender of a server with the id of its token.
Aimed ==
    \A c \in Clients :
        /\ Live(c) => target[c] # None
        /\ target[c] # None => ServerIdOf[target[c]] = ServerIdOf[c]

\* Entries are under the key of their connection, which came as far as adding itself.
Entered ==
    /\ \A u \in UserIds : users[u] # None => UserIdOf[users[u]] = u /\ Receiving(users[u])
    /\ \A i \in ServerIds : servers[i] # None =>
          ServerIdOf[servers[i]] = i /\ pc[servers[i]] \in {"loop", "exit", "done"}

\* Only a registered connection is cancelled.
Fresh ==
    \A s \in Servers : pc[s] \in {"start", "add_server"} => ~cancelled[s] /\ remove[s]

\* An entry stays behind only if its task did not remove it, and a task that was cancelled
\* while it is registered has a successor on the way.
Succeeded ==
    \A s \in Servers : servers[ServerIdOf[s]] = s =>
        /\ pc[s] = "done" => ~remove[s]
        /\ cancelled[s] \/ ~remove[s] =>
              \E t \in Servers : pc[t] = "add_server" /\ ServerIdOf[t] = ServerIdOf[s]

\* Two live connections with the same key were noticed when the second one started.
Noticed ==
    /\ \A c, d \in Clients :
          c # d /\ Live(c) /\ Live(d) /\ UserIdOf[c] = UserIdOf[d] => UserIdOf[c] \in shared
    /\ \A s, t \in Servers :
          s # t /\ Live(s) /\ Live(t) /\ ServerIdOf[s] = ServerIdOf[t] => ServerIdOf[s] \in shared

\* Every packet is on a route.
Routed ==
    \A x \in Conns : \A k \in DOMAIN Relayed(x) :
        Route(Relayed(x)[k].from, Relayed(x)[k].id, x)

\* No packet is ahead of what its sender has sent.
Counted ==
    \A x \in Conns : \A k \in DOMAIN Relayed(x) : Relayed(x)[k].n <= sent[Relayed(x)[k].from]

\* The maps and the tasks.
Control ==
    /\ TypeOK /\ Aimed /\ Entered /\ Fresh /\ Succeeded /\ Noticed
    /\ SoleClientRegistered /\ SoleServerRegistered

\* The packets.
Delivery == Routed /\ Counted /\ InOrder

IInv == Control /\ Delivery

-----------------------------------------------------------------------------
(* Type correctness. *)

\* A packet put in a channel keeps the channels' type, whoever it is for.
LEMMA PutType ==
    ASSUME NEW q \in [Conns -> Seq(Packet)], NEW x, NEW p \in Packet
    PROVE  Put(q, x, p) \in [Conns -> Seq(Packet)]
<1>1. ASSUME NEW y \in Conns PROVE Put(q, x, p)[y] \in Seq(Packet)
  <2>1. q[y] \in Seq(Packet) OBVIOUS
  <2>2. Append(q[y], p) \in Seq(Packet) BY <2>1
  <2> QED BY <2>1, <2>2 DEF Put
<1> QED BY <1>1 DEF Put

\* The first packet of a channel is a packet, and what is left is a channel.
LEMMA HeadType ==
    ASSUME NEW q \in [Conns -> Seq(Packet)], NEW x \in Conns, q[x] # <<>>
    PROVE  /\ Head(q[x]) \in Packet
           /\ [q EXCEPT ![x] = Tail(@)] \in [Conns -> Seq(Packet)]
<1>1. q[x] \in Seq(Packet) OBVIOUS
<1>2. Head(q[x]) \in Packet /\ Tail(q[x]) \in Seq(Packet) BY <1>1
<1> QED BY <1>2

LEMMA ClientReadType == ASSUME TypeOK, NEW c \in Clients, ClientRead(c) PROVE TypeOK'
<1> DEFINE p == [from |-> c, id |-> UserIdOf[c], n |-> sent[c] + 1]
           new == servers[ServerIdOf[c]]
<1>1. c \in Conns /\ new \in Servers \cup {None} BY ProxyAssumption DEF TypeOK, Conns
<1>2. p \in Packet BY <1>1, ProxyAssumption DEF Packet, TypeOK
<1>3. sent' \in [Conns -> Nat] /\ \A x \in Conns : sent'[x] <= MaxPackets[x]
  <2>1. sent[c] < MaxPackets[c] /\ sent' = [sent EXCEPT ![c] = sent[c] + 1] BY DEF ClientRead
  <2>2. sent \in [Conns -> Nat] /\ (\A x \in Conns : sent[x] <= MaxPackets[x]) BY DEF TypeOK
  <2>3. MaxPackets \in [Conns -> Nat] BY ProxyAssumption
  <2> QED BY <1>1, <2>1, <2>2, <2>3
<1>4. Put(queue, target[c], p) \in [Conns -> Seq(Packet)] /\ Put(queue, new, p) \in [Conns -> Seq(Packet)]
  BY <1>2, PutType DEF TypeOK
<1>5. UNCHANGED <<users, servers, link, cancelled, remove, written, shared>>
  BY DEF ClientRead, maps, serverVars
<1>6. queue' \in [Conns -> Seq(Packet)] BY <1>4 DEF ClientRead, TypeOK
<1>7. target' \in [Clients -> Servers \cup {None}] BY <1>1 DEF ClientRead, TypeOK, clientVars
<1>8. timer' \in [Clients -> {"none", "running", "elapsed"}] BY DEF ClientRead, TypeOK, clientVars
<1>9. pc' \in [Conns -> ClientPC \cup ServerPC] /\ (pc' = pc \/ pc' = [pc EXCEPT ![c] = "exit"] \/ pc' = [pc EXCEPT ![c] = "loop"])
  BY <1>1 DEF ClientRead, TypeOK, Goto, ClientPC, ServerPC
<1>10. (\A d \in Clients : pc'[d] \in ClientPC) /\ (\A s \in Servers : pc'[s] \in ServerPC)
  BY <1>1, <1>9, ProxyAssumption DEF TypeOK, ClientPC, ServerPC, Conns
<1> QED BY <1>3, <1>5, <1>6, <1>7, <1>8, <1>9, <1>10 DEF TypeOK

\* The other steps of a client.
LEMMA ClientType ==
    ASSUME TypeOK, NEW c \in Clients,
           ClientTask(c) \/ ClientLookup(c) \/ ReconnectTimeout(c)
    PROVE  TypeOK'
<1> USE ProxyAssumption DEF TypeOK, Conns, Goto, ClientPC, ServerPC, maps, clientVars, serverVars, traffic
<1>1. CASE ClientGetUser(c) BY <1>1 DEF ClientGetUser
<1>2. CASE ClientRemoveOld(c) BY <1>2 DEF ClientRemoveOld
<1>3. CASE ClientDropOther(c) BY <1>3 DEF ClientDropOther
<1>4. CASE ClientAddUser(c) BY <1>4 DEF ClientAddUser
<1>5. CASE ClientWrite(c)
  <2>1. Head(queue[c]) \in Packet /\ queue' \in [Conns -> Seq(Packet)]
    BY <1>5, HeadType DEF ClientWrite
  <2>2. written' \in [Conns -> Seq(Packet)] BY <1>5, <2>1, PutType DEF ClientWrite
  <2> QED BY <1>5, <2>1, <2>2 DEF ClientWrite
<1>6. CASE ClientClosed(c) BY <1>6 DEF ClientClosed
<1>7. CASE ClientExit(c) BY <1>7 DEF ClientExit
<1>8. CASE ClientLookup(c)
  <2>1. shared' \subseteq UserIds \cup ServerIds BY <1>8 DEF ClientLookup, Share
  <2> QED BY <1>8, <2>1 DEF ClientLookup
<1>9. CASE ReconnectTimeout(c) BY <1>9 DEF ReconnectTimeout
<1> QED BY <1>1, <1>2, <1>3, <1>4, <1>5, <1>6, <1>7, <1>8, <1>9 DEF ClientTask

\* The steps of a server.
LEMMA ServerType ==
    ASSUME TypeOK, NEW s \in Servers,
           ServerTask(s) \/ ServerLookup(s) \/ \E u \in UserIds : ServerRead(s, u)
    PROVE  TypeOK'
<1> USE ProxyAssumption DEF TypeOK, Conns, Goto, ClientPC, ServerPC, maps, clientVars, serverVars, traffic
<1>1. CASE ServerAdd(s) BY <1>1 DEF ServerAdd
<1>2. CASE ServerWrite(s)
  <2>1. Head(queue[s]) \in Packet /\ queue' \in [Conns -> Seq(Packet)]
    BY <1>2, HeadType DEF ServerWrite
  <2>2. written' \in [Conns -> Seq(Packet)] BY <1>2, <2>1, PutType DEF ServerWrite
  <2> QED BY <1>2, <2>1, <2>2 DEF ServerWrite
<1>3. CASE ServerClosed(s) BY <1>3 DEF ServerClosed
<1>4. CASE ServerCancelled(s) BY <1>4 DEF ServerCancelled
<1>5. CASE ServerExit(s) BY <1>5 DEF ServerExit
<1>6. CASE ServerLookup(s)
  <2>1. shared' \subseteq UserIds \cup ServerIds BY <1>6 DEF ServerLookup, Share
  <2> QED BY <1>6, <2>1 DEF ServerLookup
<1>7. ASSUME NEW u \in UserIds, ServerRead(s, u) PROVE TypeOK'
  <2> DEFINE p == [from |-> s, id |-> u, n |-> sent[s] + 1]
  <2>1. p \in Packet BY DEF Packet
  <2>2. Put(queue, users[u], p) \in [Conns -> Seq(Packet)] BY <2>1, PutType
  <2>3. queue' \in [Conns -> Seq(Packet)] BY <1>7, <2>2 DEF ServerRead
  <2> QED BY <1>7, <2>3 DEF ServerRead
<1> QED BY <1>1, <1>2, <1>3, <1>4, <1>5, <1>6, <1>7 DEF ServerTask

LEMMA InitType == Init => TypeOK
BY ProxyAssumption DEF Init, TypeOK, Conns, ClientPC, ServerPC

LEMMA NextType == TypeOK /\ [Next]_vars => TypeOK'
<1> SUFFICES ASSUME TypeOK, [Next]_vars PROVE TypeOK' OBVIOUS
<1>1. ASSUME NEW x \in Conns, Disconnect(x) PROVE TypeOK'
  BY <1>1 DEF Disconnect, TypeOK, maps, clientVars, serverVars, traffic
<1>2. CASE UNCHANGED vars
  BY <1>2 DEF vars, TypeOK, maps, clientVars, serverVars, traffic
<1> QED BY <1>1, <1>2, ClientType, ClientReadType, ServerType DEF Next

\* Every variable of the relay keeps its type, and no peer is read past its packets.
THEOREM TypeCorrect == Spec => []TypeOK
BY InitType, NextType, PTL DEF Spec

-----------------------------------------------------------------------------
(* The maps and the tasks. *)

\* What is left of Control once the types are known.
Rest ==
    /\ Aimed /\ Entered /\ Fresh /\ Succeeded /\ Noticed
    /\ SoleClientRegistered /\ SoleServerRegistered

\* Reading from and writing to a peer concerns neither the maps nor the other tasks.
LEMMA StillControl ==
    ASSUME Control, UNCHANGED <<users, servers, pc, target, cancelled, remove, shared>>
    PROVE  Rest'
<1>1. Aimed' /\ Fresh' BY DEF Control, Aimed, Fresh, Live
<1>2. Entered' /\ Succeeded' BY DEF Control, Entered, Succeeded, Receiving
<1>3. Noticed' BY DEF Control, Noticed, Live
<1>4. SoleClientRegistered' /\ SoleServerRegistered'
  BY DEF Control, SoleClientRegistered, SoleServerRegistered
<1> QED BY <1>1, <1>2, <1>3, <1>4 DEF Rest

\* The steps of a client keep the maps and the tasks in step.
LEMMA ClientControl ==
    ASSUME Control, NEW c \in Clients,
           ClientTask(c) \/ ClientLookup(c) \/ ClientRead(c) \/ ReconnectTimeout(c)
    PROVE  Rest'
<1> USE ProxyAssumption DEF TypeOK, Conns, Goto, ClientPC, ServerPC, maps, clientVars, serverVars, Live, Receiving
<1>1. CASE ClientGetUser(c)
  <2>1. Aimed' BY <1>1 DEF ClientGetUser, Aimed, Control
  <2>2. Entered'
    <3>1. c # None /\ pc[c] = "get_user" BY <1>1 DEF ClientGetUser
    <3>2. ASSUME NEW u \in UserIds, users[u] = c PROVE FALSE BY <3>1, <3>2 DEF Entered, Control
    <3> QED BY <1>1, <3>2 DEF ClientGetUser, Entered, Control
  <2>3. Fresh' BY <1>1 DEF ClientGetUser, Fresh, Control
  <2>4. Succeeded' BY <1>1 DEF ClientGetUser, Succeeded, Control
  <2>5. Noticed' BY <1>1 DEF ClientGetUser, Noticed, Control
  <2>6. SoleClientRegistered' BY <1>1 DEF ClientGetUser, SoleClientRegistered, Control
  <2>7. SoleServerRegistered' BY <1>1 DEF ClientGetUser, SoleServerRegistered, Control
  <2> QED BY <2>1, <2>2, <2>3, <2>4, <2>5, <2>6, <2>7 DEF Rest
<1>2. CASE ClientRemoveOld(c)
  <2>1. Aimed' BY <1>2 DEF ClientRemoveOld, Aimed, Control
  <2>2. Entered' BY <1>2 DEF ClientRemoveOld, Entered, Control
  <2>3. Fresh' BY <1>2 DEF ClientRemoveOld, Fresh, Control
  <2>4. Succeeded' BY <1>2 DEF ClientRemoveOld, Succeeded, Control
  <2>5. Noticed' BY <1>2 DEF ClientRemoveOld, Noticed, Control
  <2>6. SoleClientRegistered' BY <1>2 DEF ClientRemoveOld, SoleClientRegistered, Control, Noticed
  <2>7. SoleServerRegistered' BY <1>2 DEF ClientRemoveOld, SoleServerRegistered, Control
  <2> QED BY <2>1, <2>2, <2>3, <2>4, <2>5, <2>6, <2>7 DEF Rest
<1>3. CASE ClientDropOther(c)
  <2>1. Aimed' BY <1>3 DEF ClientDropOther, Aimed, Control
  <2>2. Entered' BY <1>3 DEF ClientDropOther, Entered, Control
  <2>3. Fresh' BY <1>3 DEF ClientDropOther, Fresh, Control
  <2>4. Succeeded' BY <1>3 DEF ClientDropOther, Succeeded, Control
  <2>5. Noticed' BY <1>3 DEF ClientDropOther, Noticed, Control
  <2>6. SoleClientRegistered' BY <1>3 DEF ClientDropOther, SoleClientRegistered, Control, Noticed
  <2>7. SoleServerRegistered' BY <1>3 DEF ClientDropOther, SoleServerRegistered, Control
  <2> QED BY <2>1, <2>2, <2>3, <2>4, <2>5, <2>6, <2>7 DEF Rest
<1>4. CASE ClientAddUser(c)
  <2>1. Aimed' BY <1>4 DEF ClientAddUser, Aimed, Control
  <2>2. Entered' BY <1>4 DEF ClientAddUser, Entered, Control
  <2>3. Fresh' BY <1>4 DEF ClientAddUser, Fresh, Control
  <2>4. Succeeded' BY <1>4 DEF ClientAddUser, Succeeded, Control
  <2>5. Noticed' BY <1>4 DEF ClientAddUser, Noticed, Control
  <2>6. SoleClientRegistered' BY <1>4 DEF ClientAddUser, SoleClientRegistered, Control, Noticed
  <2>7. SoleServerRegistered' BY <1>4 DEF ClientAddUser, SoleServerRegistered, Control
  <2> QED BY <2>1, <2>2, <2>3, <2>4, <2>5, <2>6, <2>7 DEF Rest
<1>5. CASE ClientClosed(c)
  <2>1. Aimed' BY <1>5 DEF ClientClosed, Aimed, Control
  <2>2. Entered' BY <1>5 DEF ClientClosed, Entered, Control
  <2>3. Fresh' BY <1>5 DEF ClientClosed, Fresh, Control
  <2>4. Succeeded' BY <1>5 DEF ClientClosed, Succeeded, Control
  <2>5. Noticed' BY <1>5 DEF ClientClosed, Noticed, Control
  <2>6. SoleClientRegistered' BY <1>5 DEF ClientClosed, SoleClientRegistered, Control
  <2>7. SoleServerRegistered' BY <1>5 DEF ClientClosed, SoleServerRegistered, Control
  <2> QED BY <2>1, <2>2, <2>3, <2>4, <2>5, <2>6, <2>7 DEF Rest
<1>6. CASE ClientExit(c)
  <2>1. Aimed' BY <1>6 DEF ClientExit, Aimed, Control
  <2>2. Entered' BY <1>6 DEF ClientExit, Entered, Control
  <2>3. Fresh' BY <1>6 DEF ClientExit, Fresh, Control
  <2>4. Succeeded' BY <1>6 DEF ClientExit, Succeeded, Control
  <2>5. Noticed' BY <1>6 DEF ClientExit, Noticed, Control
  <2>6. SoleClientRegistered' BY <1>6 DEF ClientExit, SoleClientRegistered, Control, Noticed
  <2>7. SoleServerRegistered' BY <1>6 DEF ClientExit, SoleServerRegistered, Control
  <2> QED BY <2>1, <2>2, <2>3, <2>4, <2>5, <2>6, <2>7 DEF Rest
<1>7. CASE ClientLookup(c)
  <2>1. target' = [target EXCEPT ![c] = servers[ServerIdOf[c]]] /\ UNCHANGED <<users, servers, cancelled, remove>>
    BY <1>7 DEF ClientLookup
  <2>2. pc[c] = "start" /\ pc' = [pc EXCEPT ![c] = IF servers[ServerIdOf[c]] = None THEN "done" ELSE "get_user"]
    BY <1>7 DEF ClientLookup
  <2>3. shared \subseteq shared' BY <1>7 DEF ClientLookup, Share
  <2>4. ASSUME NEW d \in Clients, d # c, Live(d), UserIdOf[d] = UserIdOf[c], pc'[c] # "done"
        PROVE  UserIdOf[c] \in shared'
    BY <1>7, <2>4 DEF ClientLookup, Share, AlsoLive, Control
  <2>5. Aimed' BY <2>1, <2>2 DEF Aimed, Entered, Control
  <2>6. Entered' BY <2>1, <2>2 DEF Entered, Control
  <2>7. Fresh' BY <2>1, <2>2 DEF Fresh, Control
  <2>8. Succeeded' BY <2>1, <2>2 DEF Succeeded, Control
  <2>9. Noticed'
    <3>1. \A x \in Conns : x # c => pc'[x] = pc[x] BY <2>2 DEF Control
    <3>2. ASSUME NEW d \in Clients, NEW e \in Clients, d # e, Live(d)', Live(e)', UserIdOf[d] = UserIdOf[e]
          PROVE  UserIdOf[d] \in shared'
      <4>1. CASE d = c BY <2>4, <3>1, <3>2, <4>1
      <4>2. CASE e = c BY <2>4, <3>1, <3>2, <4>2
      <4>3. CASE d # c /\ e # c BY <2>3, <3>1, <3>2, <4>3 DEF Noticed, Control
      <4> QED BY <4>1, <4>2, <4>3
    <3>3. ASSUME NEW s \in Servers, NEW t \in Servers, s # t, Live(s)', Live(t)', ServerIdOf[s] = ServerIdOf[t]
          PROVE  ServerIdOf[s] \in shared'
      BY <2>3, <3>1, <3>3 DEF Noticed, Control
    <3> QED BY <3>2, <3>3 DEF Noticed
  <2>10. SoleClientRegistered' BY <2>1, <2>2, <2>3 DEF SoleClientRegistered, Control
  <2>11. SoleServerRegistered' BY <2>1, <2>2, <2>3 DEF SoleServerRegistered, Control
  <2> QED BY <2>5, <2>6, <2>7, <2>8, <2>9, <2>10, <2>11 DEF Rest
<1>8. CASE ClientRead(c)
  <2>1. pc[c] = "loop" /\ \A x \in Conns : pc'[x] = pc[x] \/ (x = c /\ pc'[x] = "exit")
    BY <1>8 DEF ClientRead, Control
  <2>2. \A d \in Clients : target'[d] = target[d] \/ (target'[d] # None /\ target'[d] = servers[ServerIdOf[d]])
    BY <1>8 DEF ClientRead, Control
  <2>3. UNCHANGED <<users, servers, cancelled, remove, shared>> BY <1>8 DEF ClientRead
  <2>4. Aimed'
    <3> SUFFICES ASSUME NEW d \in Clients
                 PROVE  /\ Live(d)' => target'[d] # None
                        /\ target'[d] # None => ServerIdOf[target'[d]] = ServerIdOf[d]
      BY DEF Aimed
    <3>1. Live(d)' => Live(d) BY <2>1
    <3>2. CASE target'[d] = target[d] BY <3>1, <3>2 DEF Aimed, Control
    <3>3. CASE target'[d] # None /\ target'[d] = servers[ServerIdOf[d]]
      <4>1. ServerIdOf[servers[ServerIdOf[d]]] = ServerIdOf[d] BY <3>3 DEF Entered, Control
      <4> QED BY <3>3, <4>1
    <3> QED BY <2>2, <3>2, <3>3
  <2>5. Entered' BY <2>1, <2>2, <2>3 DEF Entered, Control
  <2>6. Fresh' BY <2>1, <2>2, <2>3 DEF Fresh, Entered, Control
  <2>7. Succeeded'
    <3>1. \A s \in Servers : pc'[s] = pc[s] BY <2>1
    <3> QED BY <2>3, <3>1 DEF Succeeded, Control
  <2>8. Noticed' BY <2>1, <2>2, <2>3 DEF Noticed, Entered, Control
  <2>9. SoleClientRegistered' BY <2>1, <2>2, <2>3 DEF SoleClientRegistered, Entered, Control
  <2>10. SoleServerRegistered' BY <2>1, <2>2, <2>3 DEF SoleServerRegistered, Entered, Control
  <2> QED BY <2>4, <2>5, <2>6, <2>7, <2>8, <2>9, <2>10 DEF Rest
<1>9. CASE ClientWrite(c) \/ ReconnectTimeout(c)
  BY <1>9, StillControl DEF ClientWrite, ReconnectTimeout
<1> QED BY <1>1, <1>2, <1>3, <1>4, <1>5, <1>6, <1>7, <1>8, <1>9 DEF ClientTask

\* So do the steps of a server.
LEMMA ServerControl ==
    ASSUME Control, NEW s \in Servers,
           ServerTask(s) \/ ServerLookup(s) \/ \E u \in UserIds : ServerRead(s, u)
    PROVE  Rest'
<1> USE ProxyAssumption DEF TypeOK, Conns, Goto, ClientPC, ServerPC, maps, clientVars, serverVars, Live, Receiving
<1>1. CASE ServerAdd(s)
  <2>1. Aimed' BY <1>1 DEF ServerAdd, Aimed, Control
  <2>2. Entered' BY <1>1 DEF ServerAdd, Entered, Control
  <2>3. Fresh' BY <1>1 DEF ServerAdd, Fresh, Control
  <2>4. Succeeded'
    <3> SUFFICES ASSUME NEW t \in Servers, servers'[ServerIdOf[t]] = t
                 PROVE  /\ pc'[t] = "done" => ~remove'[t]
                        /\ cancelled'[t] \/ ~remove'[t] =>
                              \E x \in Servers : pc'[x] = "add_server" /\ ServerIdOf[x] = ServerIdOf[t]
      BY DEF Succeeded
    <3>1. CASE t = s BY <1>1, <3>1 DEF ServerAdd, Fresh, Control
    <3>2. CASE t # s
      <4>1. ServerIdOf[t] # ServerIdOf[s] /\ servers[ServerIdOf[t]] = t BY <1>1, <3>2 DEF ServerAdd, Control
      <4> QED BY <1>1, <3>2, <4>1 DEF ServerAdd, Succeeded, Control
    <3> QED BY <3>1, <3>2
  <2>5. Noticed' BY <1>1 DEF ServerAdd, Noticed, Control
  <2>6. SoleClientRegistered' BY <1>1 DEF ServerAdd, SoleClientRegistered, Control
  <2>7. SoleServerRegistered' BY <1>1 DEF ServerAdd, SoleServerRegistered, Control, Noticed
  <2> QED BY <2>1, <2>2, <2>3, <2>4, <2>5, <2>6, <2>7 DEF Rest
<1>2. CASE ServerClosed(s)
  <2>1. Aimed' BY <1>2 DEF ServerClosed, Aimed, Control
  <2>2. Entered' BY <1>2 DEF ServerClosed, Entered, Control
  <2>3. Fresh' BY <1>2 DEF ServerClosed, Fresh, Control
  <2>4. Succeeded' BY <1>2 DEF ServerClosed, Succeeded, Control
  <2>5. Noticed' BY <1>2 DEF ServerClosed, Noticed, Control
  <2>6. SoleClientRegistered' BY <1>2 DEF ServerClosed, SoleClientRegistered, Control
  <2>7. SoleServerRegistered' BY <1>2 DEF ServerClosed, SoleServerRegistered, Control
  <2> QED BY <2>1, <2>2, <2>3, <2>4, <2>5, <2>6, <2>7 DEF Rest
<1>3. CASE ServerCancelled(s)
  <2>1. Aimed' BY <1>3 DEF ServerCancelled, ServerReachable, Aimed, Control
  <2>2. Entered' BY <1>3 DEF ServerCancelled, ServerReachable, Entered, Control
  <2>3. Fresh' BY <1>3 DEF ServerCancelled, ServerReachable, Fresh, Control
  <2>4. Succeeded' BY <1>3 DEF ServerCancelled, ServerReachable, Succeeded, Control
  <2>5. Noticed' BY <1>3 DEF ServerCancelled, ServerReachable, Noticed, Control
  <2>6. SoleClientRegistered' BY <1>3 DEF ServerCancelled, ServerReachable, SoleClientRegistered, Control
  <2>7. SoleServerRegistered' BY <1>3 DEF ServerCancelled, ServerReachable, SoleServerRegistered, Control
  <2> QED BY <2>1, <2>2, <2>3, <2>4, <2>5, <2>6, <2>7 DEF Rest
<1>4. CASE ServerExit(s)
  <2>1. Aimed' BY <1>4 DEF ServerExit, Aimed, Control
  <2>2. Entered' BY <1>4 DEF ServerExit, Entered, Control
  <2>3. Fresh' BY <1>4 DEF ServerExit, Fresh, Control
  <2>4. Succeeded' BY <1>4 DEF ServerExit, Succeeded, Control
  <2>5. Noticed' BY <1>4 DEF ServerExit, Noticed, Control
  <2>6. SoleClientRegistered' BY <1>4 DEF ServerExit, SoleClientRegistered, Control
  <2>7. SoleServerRegistered' BY <1>4 DEF ServerExit, SoleServerRegistered, Control, Noticed
  <2> QED BY <2>1, <2>2, <2>3, <2>4, <2>5, <2>6, <2>7 DEF Rest
<1>5. CASE ServerLookup(s)
  <2>1. pc[s] = "start" /\ pc' = [pc EXCEPT ![s] = "add_server"] /\ UNCHANGED <<users, servers, target, remove>>
    BY <1>5 DEF ServerLookup
  <2>2. \A t \in Servers : cancelled'[t] = cancelled[t] \/ (t = servers[ServerIdOf[s]] /\ t # None)
    BY <1>5 DEF ServerLookup, Control
  <2>3. shared \subseteq shared' BY <1>5 DEF ServerLookup, Share
  <2>4. ASSUME NEW t \in Servers, t # s, Live(t), ServerIdOf[t] = ServerIdOf[s]
        PROVE  ServerIdOf[s] \in shared'
    BY <1>5, <2>4 DEF ServerLookup, Share, AlsoLive, Control
  <2>5. Aimed' BY <2>1 DEF Aimed, Control
  <2>6. Entered' BY <2>1 DEF Entered, Control
  <2>7. Fresh'
    <3> SUFFICES ASSUME NEW t \in Servers, pc'[t] \in {"start", "add_server"} PROVE ~cancelled'[t] /\ remove'[t]
      BY DEF Fresh
    <3>1. pc[t] \in {"start", "add_server"} BY <2>1 DEF Control
    <3>2. t = servers[ServerIdOf[s]] /\ t # None => pc[t] \in {"loop", "exit", "done"}
      BY DEF Entered, Control
    <3>3. cancelled'[t] = cancelled[t] BY <2>2, <3>1, <3>2
    <3> QED BY <2>1, <3>1, <3>3 DEF Fresh, Control
  <2>8. Succeeded'
    <3> SUFFICES ASSUME NEW t \in Servers, servers'[ServerIdOf[t]] = t
                 PROVE  /\ pc'[t] = "done" => ~remove'[t]
                        /\ cancelled'[t] \/ ~remove'[t] =>
                              \E x \in Servers : pc'[x] = "add_server" /\ ServerIdOf[x] = ServerIdOf[t]
      BY DEF Succeeded
    <3>1. servers[ServerIdOf[t]] = t /\ (pc'[t] = "done" => pc[t] = "done") BY <2>1 DEF Control
    <3>2. \A x \in Servers : pc[x] = "add_server" => pc'[x] = "add_server" BY <2>1 DEF Control
    <3>3. pc'[s] = "add_server" BY <2>1 DEF Control
    <3>4. CASE ServerIdOf[t] = ServerIdOf[s] BY <2>1, <3>1, <3>3, <3>4 DEF Succeeded, Control
    <3>5. CASE ServerIdOf[t] # ServerIdOf[s]
      <4>1. ServerIdOf[servers[ServerIdOf[s]]] = ServerIdOf[s] \/ servers[ServerIdOf[s]] = None
        BY DEF Entered, Control
      <4>2. cancelled'[t] = cancelled[t] BY <2>2, <3>5, <4>1
      <4> QED BY <2>1, <3>1, <3>2, <4>2 DEF Succeeded, Control
    <3> QED BY <3>4, <3>5
  <2>9. Noticed' BY <2>1, <2>3, <2>4 DEF Noticed, Control
  <2>10. SoleClientRegistered' BY <2>1, <2>3 DEF SoleClientRegistered, Control
  <2>11. SoleServerRegistered' BY <2>1, <2>3 DEF SoleServerRegistered, Control
  <2> QED BY <2>5, <2>6, <2>7, <2>8, <2>9, <2>10, <2>11 DEF Rest
<1>6. CASE ServerWrite(s) \/ \E u \in UserIds : ServerRead(s, u)
  BY <1>6, StillControl DEF ServerWrite, ServerRead
<1> QED BY <1>1, <1>2, <1>3, <1>4, <1>5, <1>6 DEF ServerTask

LEMMA InitControl == Init => Control
<1> SUFFICES ASSUME Init PROVE Control OBVIOUS
<1> USE ProxyAssumption DEF Init, Conns
<1>1. TypeOK BY InitType
<1>2. Aimed /\ Noticed BY DEF Aimed, Noticed, Live
<1>3. Entered /\ Fresh BY DEF Entered, Fresh
<1>4. Succeeded BY DEF Succeeded
<1>5. SoleClientRegistered /\ SoleServerRegistered BY DEF SoleClientRegistered, SoleServerRegistered
<1> QED BY <1>1, <1>2, <1>3, <1>4, <1>5 DEF Control

LEMMA NextControl == Control /\ [Next]_vars => Control'
<1> SUFFICES ASSUME Control, [Next]_vars PROVE Control' OBVIOUS
<1>1. TypeOK' BY NextType DEF Control
<1>2. ASSUME NEW x \in Conns, Disconnect(x) PROVE Rest'
  BY <1>2, StillControl DEF Disconnect, maps, clientVars, serverVars
<1>3. CASE UNCHANGED vars
  <2>1. UNCHANGED <<users, servers, pc, target, cancelled, remove, shared>>
    BY <1>3 DEF vars, maps, clientVars, serverVars
  <2>2. Rest' BY <2>1, StillControl
  <2> QED BY <1>1, <2>2 DEF Control, Rest
<1>4. CASE Next
  <2>1. Rest' BY <1>2, <1>4, ClientControl, ServerControl DEF Next
  <2> QED BY <1>1, <2>1 DEF Control, Rest
<1> QED BY <1>3, <1>4

-----------------------------------------------------------------------------
(* The packets. A step reads one packet, writes one, drops those of a task that returns, *)
(* or leaves the traffic alone.                                                          *)

\* A packet p of y is read and put in z's channel, or in none.
Reads(y, z, p) ==
    /\ p.from = y /\ p.n = sent[y] + 1
    /\ sent' = [sent EXCEPT ![y] = @ + 1] /\ written' = written
    /\ queue' = queue \/ queue' = Put(queue, z, p)

Writes(x) ==
    /\ queue[x] # <<>> /\ queue' = [queue EXCEPT ![x] = Tail(@)]
    /\ written' = Put(written, x, Head(queue[x])) /\ sent' = sent

Drops(x) == queue' = [queue EXCEPT ![x] = <<>>] /\ UNCHANGED <<sent, written>>

\* Sequences: what follows does not change what comes first, ...
LEMMA ConcatLeft ==
    ASSUME NEW S, NEW w \in Seq(S), NEW q \in Seq(S), NEW k \in DOMAIN w
    PROVE  k \in DOMAIN (w \o q) /\ (w \o q)[k] = w[k]
<1>1. Len(w \o q) = Len(w) + Len(q) /\ w \o q \in Seq(S) BY ConcatProperties
<1>2. k \in 1 .. Len(w) /\ Len(w) \in Nat /\ Len(q) \in Nat BY LenProperties
<1>3. k \in 1 .. Len(w \o q) BY <1>1, <1>2
<1>4. (w \o q)[k] = w[k] BY <1>2, <1>3, ConcatProperties
<1> QED BY <1>1, <1>3, <1>4, LenProperties

\* ... an element appended to the second part is appended to the whole, ...
LEMMA ConcatAppend ==
    ASSUME NEW S, NEW w \in Seq(S), NEW q \in Seq(S), NEW p \in S
    PROVE  w \o Append(q, p) = Append(w \o q, p)
<1>1. Append(q, p) = q \o <<p>> /\ <<p>> \in Seq(S) BY AppendIsConcat
<1>2. w \o (q \o <<p>>) = (w \o q) \o <<p>> BY <1>1, ConcatAssociative
<1>3. w \o q \in Seq(S) BY ConcatProperties
<1>4. Append(w \o q, p) = (w \o q) \o <<p>> BY <1>3, AppendIsConcat
<1> QED BY <1>1, <1>2, <1>4

\* ... the first of the second part follows the last of the first, ...
LEMMA ConcatNext ==
    ASSUME NEW S, NEW w \in Seq(S), NEW q \in Seq(S), q # <<>>
    PROVE  Len(w) + 1 \in DOMAIN (w \o q) /\ (w \o q)[Len(w) + 1] = Head(q)
<1>1. Len(w) \in Nat /\ Len(q) \in Nat \ {0} BY EmptySeq, LenProperties
<1>2. w \o q \in Seq(S) /\ Len(w \o q) = Len(w) + Len(q) BY ConcatProperties
<1>3. Len(w) + 1 \in 1..(Len(w) + Len(q)) BY <1>1
<1>4. Len(w) + 1 \in 1..Len(w \o q) BY <1>2, <1>3
<1>5. (w \o q)[Len(w) + 1] = q[Len(w) + 1 - Len(w)] BY <1>1, <1>4, ConcatProperties
<1>6. Len(w) + 1 - Len(w) = 1 BY <1>1
<1>7. (w \o q)[Len(w) + 1] = q[1] BY <1>5, <1>6
<1>8. DOMAIN (w \o q) = 1..Len(w \o q) BY <1>2, LenProperties
<1> QED BY <1>4, <1>7, <1>8

\* ... and may as well be the last of the first itself.
LEMMA ConcatMove ==
    ASSUME NEW S, NEW w \in Seq(S), NEW q \in Seq(S), q # <<>>
    PROVE  Append(w, Head(q)) \o Tail(q) = w \o q
<1>1. Head(q) \in S /\ Tail(q) \in Seq(S) OBVIOUS
<1>2. <<Head(q)>> \in Seq(S) BY <1>1
<1>3. Append(w, Head(q)) = w \o <<Head(q)>> BY <1>1, AppendIsConcat
<1>4. q = <<Head(q)>> \o Tail(q) OBVIOUS
<1>5. (w \o <<Head(q)>>) \o Tail(q) = w \o (<<Head(q)>> \o Tail(q)) BY <1>1, <1>2, ConcatAssociative
<1> QED BY <1>3, <1>4, <1>5

\* A client's packet goes to a server with the id of its token.
LEMMA ClientReads ==
    ASSUME Control, NEW c \in Clients, ClientRead(c)
    PROVE  \E z \in Conns, p \in Packet : Reads(c, z, p) /\ Route(c, p.id, z)
<1> DEFINE p == [from |-> c, id |-> UserIdOf[c], n |-> sent[c] + 1]
           new == servers[ServerIdOf[c]]
<1>1. c \in Conns /\ p \in Packet BY ProxyAssumption DEF Packet, Control, TypeOK, Conns
<1>2. pc[c] = "loop" /\ target[c] \in Servers /\ ServerIdOf[target[c]] = ServerIdOf[c]
  <2>1. pc[c] = "loop" BY DEF ClientRead
  <2>2. target[c] # None BY <2>1 DEF Control, Aimed, Live
  <2> QED BY <2>1, <2>2 DEF Control, Aimed, TypeOK
<1>3. sent' = [sent EXCEPT ![c] = @ + 1] /\ written' = written BY DEF ClientRead
<1>4. new # None => new \in Servers /\ ServerIdOf[new] = ServerIdOf[c]
  BY ProxyAssumption DEF Control, Entered, TypeOK, Conns
<1>5. \A z \in Servers : ServerIdOf[z] = ServerIdOf[c] => z \in Conns /\ Route(c, p.id, z)
  BY ProxyAssumption DEF Route, Conns
<1>6. queue' = queue \/ queue' = Put(queue, target[c], p) \/ (new # None /\ queue' = Put(queue, new, p))
  BY DEF ClientRead
<1>7. CASE queue' = queue \/ queue' = Put(queue, target[c], p)
  BY <1>1, <1>2, <1>3, <1>5, <1>7 DEF Reads
<1>8. CASE new # None /\ queue' = Put(queue, new, p)
  BY <1>1, <1>3, <1>4, <1>5, <1>8 DEF Reads
<1> QED BY <1>6, <1>7, <1>8

\* A server's packet goes to the client registered under an identifier it heard of.
LEMMA ServerReads ==
    ASSUME Control, Routed, NEW s \in Servers, NEW u \in UserIds, ServerRead(s, u)
    PROVE  \E z \in Conns, p \in Packet : Reads(s, z, p) /\ Route(s, p.id, z)
<1> DEFINE p == [from |-> s, id |-> u, n |-> sent[s] + 1]
<1>1. s \in Conns /\ p \in Packet BY ProxyAssumption DEF Packet, Control, TypeOK, Conns
<1>2. sent' = [sent EXCEPT ![s] = @ + 1] /\ written' = written BY DEF ServerRead
<1>3. PICK k \in DOMAIN written[s] : written[s][k].id = u BY DEF ServerRead, Known
<1>4. written[s] \in Seq(Packet) /\ queue[s] \in Seq(Packet) BY <1>1 DEF Control, TypeOK
<1>5. k \in DOMAIN Relayed(s) /\ Relayed(s)[k] = written[s][k] BY <1>3, <1>4, ConcatLeft DEF Relayed
<1>6. PICK c \in Clients : UserIdOf[c] = u /\ ServerIdOf[c] = ServerIdOf[s]
  BY <1>1, <1>3, <1>5, ProxyAssumption DEF Routed, Route
<1>7. CASE users[u] = None
  <2>1. queue' = queue BY <1>7 DEF ServerRead
  <2>2. c \in Conns /\ Route(s, p.id, c) BY <1>6, ProxyAssumption DEF Route, Conns
  <2> QED BY <1>1, <1>2, <2>1, <2>2 DEF Reads
<1>8. CASE users[u] # None
  <2>1. queue' = Put(queue, users[u], p) BY <1>8 DEF ServerRead
  <2>2. users[u] \in Clients /\ UserIdOf[users[u]] = u BY <1>8 DEF Control, Entered, TypeOK
  <2>3. users[u] \in Conns /\ Route(s, p.id, users[u]) BY <1>6, <2>2 DEF Route, Conns
  <2> QED BY <1>1, <1>2, <2>1, <2>3 DEF Reads
<1> QED BY <1>7, <1>8

\* The four kinds of steps.
LEMMA TrafficStep ==
    ASSUME Control, Routed, [Next]_vars
    PROVE  \/ UNCHANGED traffic
           \/ \E x \in Conns : Writes(x) \/ Drops(x)
           \/ \E y, z \in Conns, p \in Packet : Reads(y, z, p) /\ Route(y, p.id, z)
<1> USE DEF Conns
<1>1. ASSUME NEW c \in Clients, ClientTask(c) \/ ClientLookup(c) \/ ReconnectTimeout(c)
      PROVE  UNCHANGED traffic \/ Writes(c) \/ Drops(c)
  BY <1>1 DEF ClientTask, ClientGetUser, ClientRemoveOld, ClientDropOther, ClientAddUser, ClientWrite,
     ClientClosed, ClientExit, ClientLookup, ReconnectTimeout, Writes, Drops, traffic
<1>2. ASSUME NEW s \in Servers, ServerTask(s) \/ ServerLookup(s)
      PROVE  UNCHANGED traffic \/ Writes(s) \/ Drops(s)
  BY <1>2 DEF ServerTask, ServerAdd, ServerWrite, ServerClosed, ServerCancelled, ServerExit,
     ServerLookup, Writes, Drops, traffic
<1>3. ASSUME NEW x \in Conns, Disconnect(x) PROVE UNCHANGED traffic BY <1>3 DEF Disconnect
<1>4. CASE UNCHANGED vars BY <1>4 DEF vars
<1>5. CASE Next BY <1>1, <1>2, <1>3, <1>5, ClientReads, ServerReads DEF Next
<1> QED BY <1>4, <1>5

\* What a peer is given is a sequence of packets.
LEMMA RelayedType ==
    ASSUME TypeOK, NEW x \in Conns
    PROVE  Relayed(x) \in Seq(Packet) /\ written[x] \in Seq(Packet) /\ queue[x] \in Seq(Packet)
<1>1. written[x] \in Seq(Packet) /\ queue[x] \in Seq(Packet) BY DEF TypeOK
<1> QED BY <1>1, ConcatProperties DEF Relayed

\* Nothing is taken back, moved or added, except at the end of a channel that is dropped.
Shrinks ==
    /\ sent' = sent
    /\ \A v \in Conns : \A k \in DOMAIN Relayed(v)' :
          k \in DOMAIN Relayed(v) /\ Relayed(v)'[k] = Relayed(v)[k]

LEMMA WriteShrinks == ASSUME TypeOK, NEW x \in Conns, Writes(x) PROVE Shrinks
<1>1. ASSUME NEW v \in Conns PROVE Relayed(v)' = Relayed(v)
  <2>1. CASE v = x
    <3>1. queue'[x] = Tail(queue[x]) /\ written'[x] = Append(written[x], Head(queue[x]))
      BY DEF Writes, Put, TypeOK
    <3>2. Append(written[x], Head(queue[x])) \o Tail(queue[x]) = written[x] \o queue[x]
      BY ConcatMove, RelayedType DEF Writes
    <3> QED BY <2>1, <3>1, <3>2 DEF Relayed
  <2>2. CASE v # x BY <2>2 DEF Writes, Put, TypeOK, Relayed
  <2> QED BY <2>1, <2>2
<1> QED BY <1>1 DEF Shrinks, Writes

LEMMA DropShrinks == ASSUME TypeOK, NEW x \in Conns, Drops(x) PROVE Shrinks
<1>1. ASSUME NEW v \in Conns, NEW k \in DOMAIN Relayed(v)'
      PROVE  k \in DOMAIN Relayed(v) /\ Relayed(v)'[k] = Relayed(v)[k]
  <2>1. CASE v = x
    <3>1. queue'[x] = <<>> /\ written'[x] = written[x] BY DEF Drops, TypeOK
    <3>2. Relayed(x)' = written[x] BY <3>1, RelayedType, ConcatEmptySeq DEF Relayed
    <3>3. k \in DOMAIN written[x] BY <1>1, <2>1, <3>2
    <3>4. k \in DOMAIN (written[x] \o queue[x]) /\ (written[x] \o queue[x])[k] = written[x][k]
      BY <3>3, RelayedType, ConcatLeft
    <3> QED BY <2>1, <3>2, <3>4 DEF Relayed
  <2>2. CASE v # x BY <2>2 DEF Drops, TypeOK, Relayed
  <2> QED BY <2>1, <2>2
<1> QED BY <1>1 DEF Shrinks, Drops

\* Fewer packets are as good.
LEMMA ShrinksDelivery == ASSUME Delivery, Shrinks PROVE Delivery'
<1>1. Routed' BY DEF Delivery, Shrinks, Routed, Route
<1>2. Counted' BY DEF Delivery, Shrinks, Counted
<1>3. InOrder' BY DEF Delivery, Shrinks, InOrder
<1> QED BY <1>1, <1>2, <1>3 DEF Delivery

\* A packet that is read comes last in what one peer is given, and is newer than any other
\* of its sender.
LEMMA ReadRelayed ==
    ASSUME TypeOK, NEW y \in Conns, NEW z \in Conns, NEW p \in Packet, Reads(y, z, p)
    PROVE  \A x \in Conns : Relayed(x)' = Relayed(x) \/ (x = z /\ Relayed(x)' = Append(Relayed(x), p))
<1> SUFFICES ASSUME NEW x \in Conns
             PROVE  Relayed(x)' = Relayed(x) \/ (x = z /\ Relayed(x)' = Append(Relayed(x), p))
  OBVIOUS
<1>1. CASE queue' = queue BY <1>1 DEF Reads, Relayed
<1>2. CASE queue' = Put(queue, z, p)
  <2>1. CASE x = z
    <3>1. queue'[x] = Append(queue[x], p) /\ written'[x] = written[x] BY <1>2, <2>1 DEF Reads, Put, TypeOK
    <3>2. written[x] \in Seq(Packet) /\ queue[x] \in Seq(Packet) BY RelayedType
    <3>3. written[x] \o Append(queue[x], p) = Append(written[x] \o queue[x], p)
      <4>1. \A w, q \in Seq(Packet) : w \o Append(q, p) = Append(w \o q, p) BY ConcatAppend
      <4> QED BY <3>2, <4>1
    <3> QED BY <2>1, <3>1, <3>3 DEF Relayed
  <2>2. CASE x # z BY <1>2, <2>2 DEF Reads, Put, TypeOK, Relayed
  <2> QED BY <2>1, <2>2
<1> QED BY <1>1, <1>2 DEF Reads

\* The packets in what a peer is given after a read: the old ones and perhaps the new one.
LEMMA ReadEntries ==
    ASSUME TypeOK, NEW y \in Conns, NEW z \in Conns, NEW p \in Packet, Reads(y, z, p),
           NEW x \in Conns, NEW k \in DOMAIN Relayed(x)'
    PROVE  \/ k \in DOMAIN Relayed(x) /\ Relayed(x)'[k] = Relayed(x)[k]
           \/ x = z /\ k = Len(Relayed(x)) + 1 /\ Relayed(x)'[k] = p
<1>1. Relayed(x) \in Seq(Packet) BY RelayedType
<1>2. CASE Relayed(x)' = Relayed(x) BY <1>2
<1>3. CASE x = z /\ Relayed(x)' = Append(Relayed(x), p)
  <2>1. k \in 1 .. Len(Relayed(x)) + 1 BY <1>1, <1>3
  <2> QED BY <1>1, <1>3, <2>1
<1> QED BY <1>2, <1>3, ReadRelayed

LEMMA ReadDelivery ==
    ASSUME TypeOK, Delivery, NEW y \in Conns, NEW z \in Conns, NEW p \in Packet,
           Reads(y, z, p), Route(y, p.id, z)
    PROVE  Delivery'
<1>1. p.from = y /\ p.n = sent[y] + 1 BY DEF Reads
<1>2. sent \in [Conns -> Nat] /\ sent' = [sent EXCEPT ![y] = sent[y] + 1] BY DEF TypeOK, Reads
<1>3. \A x \in Conns : \A k \in DOMAIN Relayed(x)' :
         \/ k \in DOMAIN Relayed(x) /\ Relayed(x)'[k] = Relayed(x)[k]
         \/ x = z /\ k = Len(Relayed(x)) + 1 /\ Relayed(x)'[k] = p
  BY ReadEntries
<1>4. \A x \in Conns : \A k \in DOMAIN Relayed(x) :
         k \in 1 .. Len(Relayed(x)) /\ Relayed(x)[k] \in Packet
  BY RelayedType
<1>5. Routed' BY <1>1, <1>3 DEF Delivery, Routed, Route
<1>6. Counted' BY <1>1, <1>2, <1>3, <1>4 DEF Delivery, Counted, Packet
<1>7. InOrder' BY <1>1, <1>2, <1>3, <1>4 DEF Delivery, Counted, InOrder, Packet
<1> QED BY <1>5, <1>6, <1>7 DEF Delivery

-----------------------------------------------------------------------------
(* The invariant holds. *)

LEMMA InitInv == Init => IInv
<1> SUFFICES ASSUME Init PROVE IInv OBVIOUS
<1>1. Control BY InitControl
<1>2. \A x \in Conns : Relayed(x) = <<>> BY DEF Init, Relayed
<1>3. \A x \in Conns : DOMAIN Relayed(x) = {} BY <1>2
<1>4. Routed BY <1>3 DEF Routed
<1>5. Counted /\ InOrder BY <1>3 DEF Counted, InOrder
<1> QED BY <1>1, <1>4, <1>5 DEF IInv, Delivery

LEMMA NextInv == IInv /\ [Next]_vars => IInv'
<1> SUFFICES ASSUME IInv, [Next]_vars PROVE IInv' OBVIOUS
<1>1. Control' BY NextControl DEF IInv
<1>2. TypeOK /\ Delivery BY DEF IInv, Control
<1>3. CASE UNCHANGED traffic
  <2>1. Shrinks BY <1>3 DEF traffic, Shrinks, Relayed
  <2> QED BY <1>1, <1>2, <2>1, ShrinksDelivery DEF IInv
<1>4. ASSUME NEW x \in Conns, Writes(x) \/ Drops(x) PROVE IInv'
  <2>1. Shrinks BY <1>2, <1>4, WriteShrinks, DropShrinks
  <2> QED BY <1>1, <1>2, <2>1, ShrinksDelivery DEF IInv
<1>5. ASSUME NEW y \in Conns, NEW z \in Conns, NEW p \in Packet, Reads(y, z, p), Route(y, p.id, z)
      PROVE  IInv'
  <2>1. Delivery' BY <1>2, <1>5, ReadDelivery
  <2> QED BY <1>1, <2>1 DEF IInv
<1> QED BY <1>3, <1>4, <1>5, TrafficStep DEF IInv, Delivery

LEMMA Invariance == Spec => []IInv
BY InitInv, NextInv, PTL DEF Spec

\* No task leaves an entry behind: the client registered under any identifier still receives,
\* and the server registered under any id does, unless its successor is about to replace it.
THEOREM NoGhostsHolds == Spec => []NoGhosts
<1>1. IInv => NoGhosts
  <2> SUFFICES ASSUME Control PROVE NoGhosts BY DEF IInv
  <2>1. \A u \in UserIds : users[u] # None => Receiving(users[u]) BY DEF Control, Entered
  <2>2. ASSUME NEW i \in ServerIds, servers[i] # None, ~Receiving(servers[i])
        PROVE  \E s \in Servers : pc[s] = "add_server" /\ ServerIdOf[s] = i
    <3>1. servers[i] \in Servers /\ ServerIdOf[servers[i]] = i BY <2>2 DEF Control, Entered, TypeOK
    <3>2. pc[servers[i]] = "done" BY <2>2 DEF Control, Entered, Receiving
    <3> QED BY <3>1, <3>2 DEF Control, Succeeded
  <2> QED BY <2>1, <2>2 DEF NoGhosts
<1> QED BY <1>1, Invariance, PTL

\* A client in its loop is registered under its identifier, if nobody shared the identifier.
THEOREM SoleClientHolds == Spec => []SoleClientRegistered
<1>1. IInv => SoleClientRegistered BY DEF IInv, Control
<1> QED BY <1>1, Invariance, PTL

\* A server in its loop is registered under its id, if no other connection had the id.
THEOREM SoleServerHolds == Spec => []SoleServerRegistered
<1>1. IInv => SoleServerRegistered BY DEF IInv, Control
<1> QED BY <1>1, Invariance, PTL

\* Packets arrive in the order they were sent and at one connection only, over any number of
\* reconnects of servers and clients.
THEOREM InOrderHolds == Spec => []InOrder
<1>1. IInv => InOrder BY DEF IInv, Delivery
<1> QED BY <1>1, Invariance, PTL

\* Packets stay between the connections of one server id, if each identifier is for one.
THEOREM NoCrossTalkHolds == Spec => []NoCrossTalk
<1>1. IInv => NoCrossTalk
  <2> SUFFICES ASSUME IInv, Apart, NEW x \in Conns, NEW k \in DOMAIN Relayed(x)
               PROVE  ServerIdOf[Relayed(x)[k].from] = ServerIdOf[x]
    BY DEF NoCrossTalk, Apart
  <2>1. Route(Relayed(x)[k].from, Relayed(x)[k].id, x) BY DEF IInv, Delivery, Routed
  <2> QED BY <2>1 DEF Route, Apart
<1> QED BY <1>1, Invariance, PTL

-----------------------------------------------------------------------------
(* The relay implements the network of Relay. *)

\* Written packets are the first part of what a peer is given.
LEMMA WrittenRelayed ==
    ASSUME TypeOK, NEW x \in Conns, NEW k \in DOMAIN written[x]
    PROVE  k \in DOMAIN Relayed(x) /\ Relayed(x)[k] = written[x][k]
<1>1. written[x] \in Seq(Packet) /\ queue[x] \in Seq(Packet) BY RelayedType
<1> QED BY <1>1, ConcatLeft DEF Relayed

\* The packet about to be written comes right after them.
LEMMA HeadRelayed ==
    ASSUME TypeOK, NEW x \in Conns, queue[x] # <<>>
    PROVE  LET k == Len(written[x]) + 1
           IN  k \in DOMAIN Relayed(x) /\ Relayed(x)[k] = Head(queue[x])
<1>1. written[x] \in Seq(Packet) /\ queue[x] \in Seq(Packet) BY RelayedType
<1> QED BY <1>1, ConcatNext DEF Relayed

\* Writing a packet delivers it: it is on a route, was sent, is the newest of its sender here
\* and was given to nobody else.
LEMMA WriteDelivers ==
    ASSUME IInv, NEW x \in Conns, Writes(x) PROVE RelayView!Next
<1> DEFINE h == Head(queue[x])
           last == Len(written[x]) + 1
<1>1. TypeOK /\ Routed /\ Counted /\ InOrder BY DEF IInv, Control, Delivery
<1>2. last \in DOMAIN Relayed(x) /\ Relayed(x)[last] = h BY <1>1, HeadRelayed DEF Writes
<1>3. h \in Packet BY <1>1, HeadType DEF Writes, TypeOK
<1>4. Route(h.from, h.id, x) /\ h.n <= sent[h.from] BY <1>1, <1>2 DEF Routed, Counted
<1>5. h.from \in Conns /\ h.id \in UserIds /\ h.n \in Nat \ {0} BY <1>3 DEF Packet
<1>6. sent[h.from] \in Nat BY <1>1, <1>5 DEF TypeOK
<1>7. h.n \in 1..sent[h.from] BY <1>4, <1>5, <1>6
<1>8. ASSUME NEW k \in DOMAIN written[x], written[x][k].from = h.from PROVE written[x][k].n < h.n
  <2>1. k \in DOMAIN Relayed(x) /\ Relayed(x)[k] = written[x][k] BY <1>1, WrittenRelayed
  <2>2. k < last
    <3>1. written[x] \in Seq(Packet) BY <1>1, RelayedType
    <3> QED BY <3>1, LenProperties
  <2> QED BY <1>1, <1>2, <1>8, <2>1, <2>2 DEF InOrder
<1>9. ASSUME NEW z \in Conns PROVE ~RelayView!Given(z, h.from, h.n)
  <2> SUFFICES ASSUME NEW k \in DOMAIN written[z], written[z][k].from = h.from PROVE written[z][k].n # h.n
    BY DEF RelayView!Given
  <2>1. k \in DOMAIN Relayed(z) /\ Relayed(z)[k] = written[z][k] BY <1>1, WrittenRelayed
  <2>2. CASE z # x BY <1>1, <1>2, <2>1, <2>2 DEF InOrder
  <2>3. CASE z = x
    <3>1. written[z][k] \in Packet BY <1>1, RelayedType
    <3> QED BY <1>5, <1>8, <2>3, <3>1 DEF Packet
  <2> QED BY <2>2, <2>3
<1>10. ASSUME NEW m \in h.n..sent[h.from] PROVE ~RelayView!Given(x, h.from, m)
  <2> SUFFICES ASSUME NEW k \in DOMAIN written[x], written[x][k].from = h.from PROVE written[x][k].n # m
    BY DEF RelayView!Given
  <2>1. written[x][k].n < h.n BY <1>8
  <2>2. written[x][k] \in Packet BY <1>1, RelayedType
  <2>3. written[x][k].n \in Nat BY <2>2 DEF Packet
  <2> QED BY <1>5, <1>6, <2>1, <2>3
<1>11. h = [from |-> h.from, id |-> h.id, n |-> h.n] BY <1>3 DEF Packet
<1>12. written' = [written EXCEPT ![x] = Append(@, h)] /\ sent' = sent BY DEF Writes, Put
<1>13. RelayView!Deliver(h.from, h.id, x, h.n)
  BY <1>9, <1>10, <1>11, <1>12 DEF RelayView!Deliver
<1>14. <<h.from, h.id, x>> \in {r \in Conns \X UserIds \X Conns : Route(r[1], r[2], r[3])}
  BY <1>4, <1>5
<1> QED BY <1>7, <1>13, <1>14 DEF RelayView!Next

LEMMA RelayInit == Init => RelayView!Init
BY DEF Init, RelayView!Init

\* Reading a packet sends it, writing one delivers it, and nothing else is seen.
LEMMA RelayStep == IInv /\ [Next]_vars => [RelayView!Next]_(RelayView!vars)
<1> SUFFICES ASSUME IInv, [Next]_vars PROVE [RelayView!Next]_(RelayView!vars) OBVIOUS
<1>1. CASE UNCHANGED traffic BY <1>1 DEF traffic, RelayView!vars
<1>2. ASSUME NEW x \in Conns, Writes(x) PROVE RelayView!Next BY <1>2, WriteDelivers
<1>3. ASSUME NEW x \in Conns, Drops(x) PROVE UNCHANGED RelayView!vars BY <1>3 DEF Drops, RelayView!vars
<1>4. ASSUME NEW y \in Conns, NEW z \in Conns, NEW p \in Packet, Reads(y, z, p) PROVE RelayView!Next
  <2>1. RelayView!Send(y) BY <1>4 DEF Reads, RelayView!Send
  <2> QED BY <2>1 DEF RelayView!Next
<1> QED BY <1>1, <1>2, <1>3, <1>4, TrafficStep DEF IInv, Delivery

\* The proxy implements a network that loses packets but neither repeats, reorders nor
\* misdirects them, for any number of connections that come, go and share identifiers.
THEOREM ImplementsRelayHolds == Spec => ImplementsRelay
<1>1. Init => RelayView!Init BY RelayInit
<1>2. IInv /\ [Next]_vars => [RelayView!Next]_(RelayView!vars) BY RelayStep
<1>3. Spec => RelayView!Spec BY <1>1, <1>2, Invariance, PTL DEF Spec, RelayView!Spec
<1> QED BY <1>3 DEF ImplementsRelay
=============================================================================
