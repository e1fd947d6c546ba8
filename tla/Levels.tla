------------------------------- MODULE Levels -------------------------------
(***************************************************************************)
(* Which level a dedicated server of the module runs, queues and lists.    *)
(* A level is asked for by the end of a round (map rotation) and by the    *)
(* console, on the server thread, and by the local gRPC interface, on      *)
(* threads of its own. ServerLoadLevelMessagePostHk hands it to the engine *)
(* or, while a level loads, keeps it in m_latestLoadLevelRequest until     *)
(* OnLevelLoaded. One action is the code between two accesses to what the  *)
(* threads share.                                                          *)
(***************************************************************************)
EXTENDS Naturals, Sequences, FiniteSets

CONSTANTS
    LevelSet,     \* a level and its mode
    Rotation,     \* the map rotation the server is started with
    RpcThreads,   \* the threads of the gRPC interface service
    MaxEntries,   \* bound on the map rotation (AddLevel)
    MaxUpdates,   \* no call starts with this many calls in progress and UpdateServer calls
                  \* in flight,
    MaxLoads,     \* or with this many levels loading (more than one after a race)
    Server,       \* the server thread
    None          \* no level: the empty string

Threads == RpcThreads \cup {Server}

ASSUME LevelsAssumption ==
    /\ None \notin LevelSet /\ Server \notin RpcThreads
    /\ Rotation \in Seq(LevelSet) /\ Rotation # <<>>
    /\ MaxEntries \in Nat /\ MaxUpdates \in Nat /\ MaxLoads \in Nat

VARIABLES
    entries, cursor,   \* MapRotation: m_entries, m_current
    currentLevel,      \* m_currentLevel
    levelLoaded,       \* m_levelLoaded
    request,           \* m_latestLoadLevelRequest
    held,              \* OnLevelLoaded holds the mutex of m_latestLoadLevelRequest
    pc, level,         \* of the threads: the next step, and the level it is about
    running, loading,  \* the engine: the level it runs, the ones it was told to load
    messages,          \* ServerLevelLoadedMessages not yet handled
    registered,        \* m_serverId is not empty
    updates, listed,   \* UpdateServer calls in flight; the level the API lists
    fresh,             \* history: no UpdateServer call since the last registration
    asked,             \* history: the level asked for last
    raced,             \* history: a call acted after another one had overtaken it
    missed             \* history: the last update failed, or an older one came after it

rotation == <<entries, cursor>>
request_ == <<request, held>>
engine == <<running, loading, messages>>
listing == <<registered, updates, listed, missed, fresh>>
vars == <<rotation, currentLevel, levelLoaded, request_, pc, level, engine, listing,
          asked, raced>>

TypeOK ==
    /\ entries \in Seq(LevelSet) /\ entries # <<>> /\ cursor \in 0..Len(entries)
    /\ currentLevel \in LevelSet /\ levelLoaded \in BOOLEAN
    /\ request \in LevelSet \cup {None} /\ held \in BOOLEAN
    /\ pc \in [Threads -> {"idle", "queue", "start", "update", "lock", "clear", "stuck"}]
    /\ level \in [Threads -> LevelSet \cup {None}]
    /\ running \in LevelSet \cup {None} /\ loading \in Seq(LevelSet) /\ messages \in Nat
    /\ registered \in BOOLEAN /\ updates \in Seq(LevelSet) /\ missed \in BOOLEAN
    /\ listed \in LevelSet \cup {None} /\ fresh \in BOOLEAN
    /\ asked \in LevelSet /\ raced \in BOOLEAN

-----------------------------------------------------------------------------
(* The map rotation. *)

\* MapRotation::GetNextEntry: the index of the entry returned (from 1), and m_current after.
NextIndex(c, n) == IF c + 1 > n THEN 1 ELSE c + 1

\* The launcher's Initialize takes the first entry as the level to start with;
\* GameSimulationInitDedicatedServerHk takes another one and does not use it.
InitialIndex == NextIndex(0, Len(Rotation))
InitialCursor == NextIndex(InitialIndex, Len(Rotation))

\* The level of m_creationInfo, which no later load changes.
CreationLevel == Rotation[InitialIndex]

Init ==
    /\ entries = Rotation /\ cursor = InitialCursor
    /\ currentLevel = CreationLevel /\ asked = currentLevel
    /\ levelLoaded = FALSE /\ request = None /\ held = FALSE
    /\ pc = [t \in Threads |-> "idle"] /\ level = [t \in Threads |-> None]
    /\ running = None /\ loading = <<currentLevel>> /\ messages = 0
    /\ registered \in BOOLEAN /\ updates = <<>> /\ missed = FALSE
    /\ listed = (IF registered THEN CreationLevel ELSE None) /\ fresh = TRUE
    /\ raced = FALSE

-----------------------------------------------------------------------------
(* LoadNextLevel, with InitLevelSetup and ServerLoadLevelMessagePostHk.    *)

Goto(t, label) == pc' = [pc EXCEPT ![t] = label]

\* What the call of t goes by has been overtaken: another call came after it, m_levelLoaded is
\* no longer what it read, or no longer what OnLevelLoaded, its caller, set it to.
Overtaken(t) ==
    \/ currentLevel # level[t]
    \/ pc[t] = "queue" /\ (levelLoaded \/ held)
    \/ pc[t] = "start" /\ ~levelLoaded

\* InitLevelSetup, and the test of m_levelLoaded.
Enter(t, l) ==
    /\ currentLevel' = l
    /\ level' = [level EXCEPT ![t] = l]
    /\ Goto(t, IF levelLoaded THEN "start" ELSE "queue")

\* Mutant of Queue: the first request stays.
QueueFirst(t) ==
    /\ pc[t] = "queue"
    /\ held => t = Server
    /\ raced' = (raced \/ Overtaken(t))
    /\ \/ request' = (IF request = None THEN level[t] ELSE request) /\ Goto(t, "update")
       \/ held /\ Goto(t, "stuck") /\ UNCHANGED request
    /\ UNCHANGED <<rotation, currentLevel, levelLoaded, held, level, engine, listing, asked>>

\* A level is loading: the request is kept. In OnLevelLoaded the server thread holds the
\* mutex already; locking it again is undefined and may block for ever or succeed.
Queue(t) ==
    /\ pc[t] = "queue"
    /\ held => t = Server
    /\ raced' = (raced \/ Overtaken(t))
    /\ \/ request' = level[t] /\ Goto(t, "update")
       \/ held /\ Goto(t, "stuck") /\ UNCHANGED request
    /\ UNCHANGED <<rotation, currentLevel, levelLoaded, held, level, engine, listing, asked>>

\* Mutant of Start: m_levelLoaded stays set.
StartKeepsFlag(t) ==
    /\ pc[t] = "start"
    /\ loading' = Append(loading, level[t])
    /\ raced' = (raced \/ Overtaken(t))
    /\ Goto(t, "update")
    /\ UNCHANGED <<rotation, currentLevel, levelLoaded, request_, level, running, messages,
                   listing, asked>>

\* The engine is told to load the level.
Start(t) ==
    /\ pc[t] = "start"
    /\ levelLoaded' = FALSE
    /\ loading' = Append(loading, level[t])
    /\ raced' = (raced \/ Overtaken(t))
    /\ Goto(t, "update")
    /\ UNCHANGED <<rotation, currentLevel, request_, level, running, messages, listing, asked>>

\* Mutant of Update: only a level handed to the engine is listed.
UpdateIfStarted(t) ==
    /\ pc[t] = "update"
    /\ IF registered /\ request # level[t]
       THEN updates' = Append(updates, level[t]) /\ missed' = FALSE /\ fresh' = FALSE
       ELSE UNCHANGED <<updates, missed, fresh>>
    /\ raced' = (raced \/ Overtaken(t))
    /\ level' = [level EXCEPT ![t] = None]
    /\ Goto(t, IF t = Server /\ held THEN "clear" ELSE "idle")
    /\ UNCHANGED <<rotation, currentLevel, levelLoaded, request_, engine, registered, listed,
                   asked>>

\* UpdateServerLevelSetup: an asynchronous call tells the API, if the server is registered.
Update(t) ==
    /\ pc[t] = "update"
    /\ IF registered
       THEN updates' = Append(updates, level[t]) /\ missed' = FALSE /\ fresh' = FALSE
       ELSE UNCHANGED <<updates, missed, fresh>>
    /\ raced' = (raced \/ Overtaken(t))
    /\ level' = [level EXCEPT ![t] = None]
    /\ Goto(t, IF t = Server /\ held THEN "clear" ELSE "idle")
    /\ UNCHANGED <<rotation, currentLevel, levelLoaded, request_, engine, registered, listed,
                   asked>>

LoadNextLevel(t, l) ==
    /\ pc[t] = "idle"
    /\ Len(updates) + Cardinality({u \in Threads : pc[u] \in {"queue", "start", "update"}})
         < MaxUpdates
    /\ Len(loading) + messages < MaxLoads
    /\ asked' = l
    /\ Enter(t, l)

-----------------------------------------------------------------------------
(* Who asks. *)

\* ServerInterfaceService::LoadLevel.
RpcLoadLevel(t, l) ==
    /\ LoadNextLevel(t, l)
    /\ UNCHANGED <<rotation, levelLoaded, request_, engine, listing, raced>>

\* The console commands that load a level.
LoadLevelCommand(l) ==
    /\ LoadNextLevel(Server, l)
    /\ UNCHANGED <<rotation, levelLoaded, request_, engine, listing, raced>>

\* ServerLevelCompletedMessage: the round is over.
LevelCompleted ==
    /\ running # None /\ loading = <<>>
    /\ cursor' = NextIndex(cursor, Len(entries))
    /\ LoadNextLevel(Server, entries[cursor'])
    /\ UNCHANGED <<entries, levelLoaded, request_, engine, listing, raced>>

AddLevelCommand(l) ==
    /\ pc[Server] = "idle"
    /\ Len(entries) < MaxEntries
    /\ entries' = Append(entries, l)
    /\ UNCHANGED <<cursor, currentLevel, levelLoaded, request_, pc, level, engine, listing,
                   asked, raced>>

-----------------------------------------------------------------------------
(* OnLevelLoaded, on ServerLevelLoadedMessage. *)

OnLevelLoaded ==
    /\ pc[Server] = "idle" /\ messages > 0
    /\ messages' = messages - 1
    /\ levelLoaded' = TRUE
    /\ Goto(Server, "lock")
    /\ UNCHANGED <<rotation, currentLevel, request_, level, running, loading, listing, asked,
                   raced>>

\* The mutex is locked; a kept request is loaded while it is held.
LoadRequested ==
    /\ pc[Server] = "lock"
    /\ IF request = None
       THEN Goto(Server, "idle") /\ UNCHANGED <<currentLevel, level, held>>
       ELSE Enter(Server, request) /\ held' = TRUE
    /\ UNCHANGED <<rotation, levelLoaded, request, engine, listing, asked, raced>>

\* Mutant of ClearRequest: the request stays.
ClearForgotten ==
    /\ pc[Server] = "clear"
    /\ held' = FALSE
    /\ Goto(Server, "idle")
    /\ UNCHANGED <<rotation, currentLevel, levelLoaded, request, level, engine, listing,
                   asked, raced>>

ClearRequest ==
    /\ pc[Server] = "clear"
    /\ request' = None
    /\ held' = FALSE
    /\ Goto(Server, "idle")
    /\ UNCHANGED <<rotation, currentLevel, levelLoaded, level, engine, listing, asked, raced>>

-----------------------------------------------------------------------------
(* The engine and the API. *)

\* The engine has loaded a level and posts ServerLevelLoadedMessage.
LoadDone ==
    /\ loading # <<>>
    /\ running' = Head(loading) /\ loading' = Tail(loading)
    /\ messages' = messages + 1
    /\ UNCHANGED <<rotation, currentLevel, levelLoaded, request_, pc, level, listing, asked,
                   raced>>

\* Server::Register, queued for the server thread by a 410 of the WebSocket: the first
\* registration failed, or the API no longer knows the listing. The new listing has a new
\* m_serverId, which calls in flight do not carry, and the level of m_creationInfo. A
\* registration that fails changes nothing here.
Register ==
    /\ pc[Server] = "idle"
    /\ registered' = TRUE /\ listed' = CreationLevel /\ updates' = <<>>
    /\ missed' = FALSE /\ fresh' = TRUE
    /\ UNCHANGED <<rotation, currentLevel, levelLoaded, request_, pc, level, engine, asked,
                   raced>>

\* The API deletes the listing; m_serverId stays.
Delist ==
    /\ listed # None
    /\ listed' = None
    /\ UNCHANGED <<rotation, currentLevel, levelLoaded, request_, pc, level, engine, registered,
                   updates, missed, fresh, asked, raced>>

\* An UpdateServer call reaches the API or fails, in no particular order; it fails if the
\* listing is gone.
UpdateServer ==
    \E i \in 1..Len(updates), ok \in BOOLEAN :
        /\ ok => listed # None
        /\ updates' = SubSeq(updates, 1, i - 1) \o SubSeq(updates, i + 1, Len(updates))
        /\ listed' = IF ok THEN updates[i] ELSE listed
        /\ missed' = (missed \/ (i = Len(updates) /\ (~ok \/ i > 1)))
        /\ UNCHANGED <<rotation, currentLevel, levelLoaded, request_, pc, level, engine,
                       registered, fresh, asked, raced>>

Step(t) == Queue(t) \/ Start(t) \/ Update(t)

Next ==
    \/ \E t \in Threads : Step(t)
    \/ \E t \in RpcThreads, l \in LevelSet : RpcLoadLevel(t, l)
    \/ \E l \in LevelSet : LoadLevelCommand(l) \/ AddLevelCommand(l)
    \/ LevelCompleted \/ OnLevelLoaded \/ LoadRequested \/ ClearRequest
    \/ LoadDone \/ UpdateServer \/ Register \/ Delist

Spec == Init /\ [][Next]_vars

\* The threads run, the engine finishes loading, calls end. A posted message is handled in
\* the next frame, however many console commands the frame also runs: strong fairness.
Fairness ==
    /\ \A t \in Threads : WF_vars(Step(t))
    /\ SF_vars(OnLevelLoaded) /\ WF_vars(LoadRequested) /\ WF_vars(ClearRequest)
    /\ WF_vars(LoadDone) /\ WF_vars(UpdateServer)

FairSpec == Spec /\ Fairness

-----------------------------------------------------------------------------
(* Properties. *)

Idle == \A t \in Threads : pc[t] = "idle"

\* Nothing is being asked for, loaded, or waiting to be loaded.
Settled == Idle /\ loading = <<>> /\ messages = 0 /\ request = None

\* ServerLoadLevelMessagePostHk never has the engine load a level while another one is
\* loading, or while the module has not yet been told that it is loaded. Exempt is what follows
\* a call that another thread's call overtook (raced): the two share m_levelLoaded without a lock.
OneLoad == ~raced => Len(loading) + messages <= 1

\* Of several requests made while levels load, the last one wins: once nothing is left to
\* load, the server runs the level asked for last, which is also what m_currentLevel says.
\* Exempt is what follows a call that another thread's call overtook (raced).
LatestWins == Settled /\ ~raced => running = asked /\ currentLevel = asked

\* Once no call is in flight, the server browser lists the level of m_currentLevel, queued or
\* running, if a level was asked for since the server last registered; a listing made since
\* shows the level the server was created with, whatever it runs. Exempt are the time after
\* calls of two threads overtook each other (raced), and until the next one an UpdateServer
\* call that failed or that an older one came after (missed).
ListingAgrees ==
    listed # None /\ Idle /\ updates = <<>> /\ ~raced /\ ~missed
        => listed = IF fresh THEN CreationLevel ELSE currentLevel

\* A level kept in m_latestLoadLevelRequest is taken out again once the level that
\* was loading is loaded, even if more requests keep coming. Exempt is what follows a call
\* that another thread's call overtook (raced): the server thread may then hang.
RequestServed == (request # None /\ ~raced) ~> (request = None \/ raced)
=============================================================================
