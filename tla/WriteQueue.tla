----------------------------- MODULE WriteQueue -----------------------------
(***************************************************************************)
(* How a game server's player list reaches the API. The server thread puts *)
(* events in ServerManagementAPI's write queue and notifies a condition    *)
(* variable; the write thread waits for a non-empty queue and an open      *)
(* connection, takes one event out and sends it; the WebSocket's thread    *)
(* sets and clears m_connectionEstablished. The queue has a mutex of its   *)
(* own, so neither a push nor the flag is covered by the mutex the write   *)
(* thread waits with. Events without a player list are left out. The names *)
(* of its parts carry a prefix because the proofs extend it next to        *)
(* ServerLink.                                                             *)
(***************************************************************************)
EXTENDS Naturals, Sequences

CONSTANTS
    Players,
    MaxQueue     \* nobody joins or leaves with this many lists queued

ASSUME WriteQueueAssumption == MaxQueue \in Nat

VARIABLES
    players,      \* m_playerManager->m_players
    connected,    \* the state of the WebSocket
    connectionEstablished,  \* m_connectionEstablished, set and cleared by its callbacks
    queue,        \* m_writeQueue; of equal consecutive lists only one is kept
    sender,       \* the server thread: "idle", the list it is about to push, or "notify"
    writer,       \* the write thread: "check" its predicate, about to "block", "asleep",
                  \* about to "pop" an event, or the list it is "sending"
    apiPlayers    \* the list the API has

queueVars == <<players, connected, connectionEstablished, queue, sender, writer, apiPlayers>>

Lists == SUBSET Players
Push(l) == [at |-> "push", list |-> l]
Sending(l) == [at |-> "sending", list |-> l]
At(label) == [at |-> label, list |-> {}]

QueueTypeOK ==
    /\ players \in Lists /\ apiPlayers \in Lists
    /\ connected \in BOOLEAN /\ connectionEstablished \in BOOLEAN
    /\ queue \in Seq(Lists)
    /\ sender \in [at : {"idle", "push", "notify"}, list : Lists]
    /\ writer \in [at : {"check", "block", "asleep", "pop", "sending"}, list : Lists]

QueueInit ==
    /\ players = {} /\ apiPlayers = {} /\ queue = <<>>
    /\ connected = FALSE /\ connectionEstablished = FALSE
    /\ sender = At("idle") /\ writer = At("check")

-----------------------------------------------------------------------------
(* The server thread. *)

\* SendPlayerList: nothing is queued without a connection.
SendPlayerList(l) == sender' = IF connectionEstablished THEN Push(l) ELSE At("idle")

\* A player has joined (the callback of ConsumeJoinToken).
Join(p) ==
    /\ sender = At("idle") /\ p \notin players /\ Len(queue) < MaxQueue
    /\ players' = players \cup {p}
    /\ SendPlayerList(players')
    /\ UNCHANGED <<connected, connectionEstablished, queue, writer, apiPlayers>>

\* ServerPlayerDisconnectMessage: the list is sent while the player is still in it.
Disconnect(p) ==
    /\ sender = At("idle") /\ p \in players /\ Len(queue) < MaxQueue
    /\ players' = players \ {p}
    /\ SendPlayerList(players)
    /\ UNCHANGED <<connected, connectionEstablished, queue, writer, apiPlayers>>

\* Mutant of Heartbeat: only a keep-alive is sent.
HeartbeatKeepAliveOnly ==
    /\ sender = At("idle")
    /\ sender' = IF connectionEstablished THEN At("notify") ELSE At("idle")
    /\ UNCHANGED <<players, connected, connectionEstablished, queue, writer, apiPlayers>>

\* Server::Heartbeat, every ten seconds.
Heartbeat ==
    /\ sender = At("idle")
    /\ SendPlayerList(players)
    /\ UNCHANGED <<players, connected, connectionEstablished, queue, writer, apiPlayers>>

\* ServerManagementAPI::Send pushes, once the write thread has let go of the queue, ...
SendPush ==
    /\ sender.at = "push" /\ writer.at # "sending"
    /\ queue' = IF queue # <<>> /\ queue[Len(queue)] = sender.list THEN queue
                ELSE Append(queue, sender.list)
    /\ sender' = At("notify")
    /\ UNCHANGED <<players, connected, connectionEstablished, writer, apiPlayers>>

\* Mutant of SendNotify: nobody is notified.
SendNotifyNobody ==
    /\ sender.at = "notify"
    /\ sender' = At("idle")
    /\ UNCHANGED <<players, connected, connectionEstablished, queue, writer, apiPlayers>>

\* ... and notifies: only a thread that is asleep hears it.
SendNotify ==
    /\ sender.at = "notify"
    /\ sender' = At("idle")
    /\ writer' = IF writer.at = "asleep" THEN At("check") ELSE writer
    /\ UNCHANGED <<players, connected, connectionEstablished, queue, apiPlayers>>

-----------------------------------------------------------------------------
(* The write thread, ProcessWriteQueue. *)

\* Mutant of WaitCheck: the predicate only looks at the connection.
WaitCheckConnection ==
    /\ writer.at = "check"
    /\ writer' = IF connectionEstablished THEN At("pop") ELSE At("block")
    /\ UNCHANGED <<players, connected, connectionEstablished, queue, sender, apiPlayers>>

\* The predicate of the wait, which locks the queue for a moment.
WaitCheck ==
    /\ writer.at = "check"
    /\ writer' = IF queue # <<>> /\ connectionEstablished THEN At("pop") ELSE At("block")
    /\ UNCHANGED <<players, connected, connectionEstablished, queue, sender, apiPlayers>>

WaitBlock ==
    /\ writer.at = "block"
    /\ writer' = At("asleep")
    /\ UNCHANGED <<players, connected, connectionEstablished, queue, sender, apiPlayers>>

\* The first event is taken out; the queue stays locked while it is sent. Taking one from an
\* empty queue is undefined.
Pop ==
    /\ writer.at = "pop" /\ queue # <<>>
    /\ writer' = Sending(Head(queue)) /\ queue' = Tail(queue)
    /\ UNCHANGED <<players, connected, connectionEstablished, sender, apiPlayers>>

\* sendBinary: without a connection the event is lost.
SendBinary ==
    /\ writer.at = "sending"
    /\ apiPlayers' = IF connected THEN writer.list ELSE apiPlayers
    /\ writer' = At("check")
    /\ UNCHANGED <<players, connected, connectionEstablished, queue, sender>>

-----------------------------------------------------------------------------
(* The WebSocket's thread. *)

Open ==
    /\ ~connected /\ ~connectionEstablished
    /\ connected' = TRUE
    /\ UNCHANGED <<players, connectionEstablished, queue, sender, writer, apiPlayers>>

Close ==
    /\ connected /\ connectionEstablished
    /\ connected' = FALSE
    /\ UNCHANGED <<players, connectionEstablished, queue, sender, writer, apiPlayers>>

\* Receive, for WebSocketMessageType::Open and Close. Nobody is notified.
Receive ==
    /\ connectionEstablished # connected
    /\ connectionEstablished' = connected
    /\ UNCHANGED <<players, connected, queue, sender, writer, apiPlayers>>

Write == WaitCheck \/ WaitBlock \/ Pop \/ SendBinary

QueueNext ==
    \/ \E p \in Players : Join(p) \/ Disconnect(p)
    \/ Heartbeat \/ SendPush \/ SendNotify
    \/ Write
    \/ Open \/ Close \/ Receive

QueueSpec == QueueInit /\ [][QueueNext]_queueVars

\* The threads run, and the timer of the heartbeat goes on. Connections need not open.
QueueFairness ==
    /\ WF_queueVars(Heartbeat) /\ WF_queueVars(SendPush) /\ WF_queueVars(SendNotify)
    /\ WF_queueVars(Write) /\ WF_queueVars(Receive)

QueueFairSpec == QueueSpec /\ QueueFairness

-----------------------------------------------------------------------------
(* Properties. *)

\* The write thread never takes an event from an empty queue, although the queue was unlocked
\* between the test and the pop.
PopNonEmpty == writer.at = "pop" => queue # <<>>

\* A queued event is taken up as long as the connection lasts: a wake-up that got lost (a
\* notification before the write thread slept, a connection that opened without one) is made
\* good by the next heartbeat.
QueueMoves == queue # <<>> ~> (writer.at = "sending" \/ ~connectionEstablished)

\* While the connection lasts and nobody joins or leaves, the API's list becomes the server's,
\* although the list sent when a player leaves still has them, and lists of an earlier
\* connection are sent on the next one.
ListReaches == \A l \in Lists :
    <>[](connected /\ connectionEstablished /\ players = l) => <>[](apiPlayers = l)
=============================================================================
