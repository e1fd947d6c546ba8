# Kyber: specifications of the online services and the game module

Kyber runs private servers for a game it does not own. A module injected into the
game talks to an API, a launcher and a command-line tool prepare the game, and a
proxy relays the traffic between players and servers. This directory holds TLA+
specifications of the parts in which several processes change shared state, the
TLC configurations that check them on small instances, and TLAPS proofs.

## 1. The system

| Part | State | Operations | Interacts with |
|---|---|---|---|
| API, `ClientServer` | `join_tokens` collection (TTL 15 min) | `CreateJoinToken`, `ConsumeJoinToken` | launcher and game (create), game server (consume), bans, TTL index |
| API, `ServerBrowser` | `servers` collection with `last_updated` | `RegisterServer`, `UpdateServer`, `CanJoinServer`, listing, `cleanupStaleServers` every 10 s | game server, `ServerManager` |
| API, `ServerManagement` | `punishments`, moderator lists | ban, unban, kick, commands, moderators | web clients, `ServerManager` |
| API, `ServerManager` | `ownedServers`, `ownedClients`, `playerCache` under one RW mutex | `HandleServerWS`, `HandleClientWS`, AMQP subscriber | game servers and web clients over WebSockets, other API instances over AMQP |
| API, `ReportService` | `reports` collection | create, approve (creates a global ban), reject, update the status | players, staff |
| API, `Statistics` | one document of statistics per player | `GetStats`, `UpdateStats` | game servers |
| API, the rest | users, images, Redis keys | sign-in, launcher data, voice tokens, HTTP redirects | EA, Patreon, Discord, Vivox |
| Proxy | two concurrent maps, one channel and one cancel channel per connection | one tokio task per WebSocket | game servers, players |
| Module, server | `m_serverId`, `m_onlineMode`, the WebSocket and its thread, the executor's queue of functions | `Register`, `Connect`, `Heartbeat`, `Receive`, `Process` | API |
| Module, write queue | `m_writeQueue`, `m_connectionEstablished`, a condition variable | `Send`, `ProcessWriteQueue`, `Receive` | server thread, write thread, WebSocket thread |
| Module, levels | map rotation, `m_currentLevel`, `m_levelLoaded`, `m_latestLoadLevelRequest` | `LoadNextLevel`, `OnLevelLoaded`, console and gRPC commands | the engine, API (`UpdateServer`) |
| Module, players | the engine's players and their statistics | join hook, kick, disconnect, load and save of statistics | API |
| Module, voice | `m_currentChannel`, `m_isEnabled`, push to talk, Vivox sessions | `AttemptJoinVoip`, `AddSession`, `RemoveSession`, `SetVoipSettings`, events of Vivox | game thread, gRPC thread, Vivox listener thread, API |
| Module, the rest | engine objects | events, scripts, mod loading, sockets | the closed game engine |
| Launcher, CLI, packages | preferences, downloads | user interface | API |

What is hard: requests on any number of API instances interleave at single
database calls, without transactions; game servers and their API connection fail
separately and clean up after each other by id; the proxy's tasks clean up by key;
in the game, the threads of the server, the WebSocket, the write queue, gRPC and
Vivox share state, sometimes under a mutex and often under none, and answers of
asynchronous calls come when the state they were asked for is gone. What makes the parts correct:

- **join tokens**: one admission per token, a new token supersedes the old ones, a
  ban in force stops the join;
- **the server link**: a host stays near its limit; a listing nobody serves
  disappears; the open connection belongs to the current listing; the map of owned
  connections holds live ones only; a server that lost its listing registers again; the
  list of players the API stores has every player the server sent;
- **the proxy**: a live connection stays reachable, a finished one leaves nothing
  behind, packets stay in their game, in order and at most once, and a connection
  nobody can reach closes;
- **moderation**: no edit of a moderator list is lost, a player has one ban in force and
  an unban lifts it;
- **reports**: none is closed without a ban or a decision, none is banned for twice or
  both banned for and rejected, limits and notes hold;
- **levels**: one level loads at a time, the last request wins, none is forgotten, and
  the browser lists what runs;
- **players**: a ban removes the player, what a player earned is saved, a save loses
  nothing that was stored;
- **write queue**: nothing is taken from an empty queue, no event waits for ever while a
  connection is open, and the API's player list becomes the server's;
- **voice**: no session is lost track of, a client that disabled the chat is in none,
  nobody is in another server's channel, and push to talk keeps the microphone closed.

`PROJECT.json` lists every part, modelled or not, and the hazards with their lines.

## 2. The modules

### JoinTokens (with Tickets)

`JoinTokens.tla` models `API/internal/rpc/client_server.go` and the repositories it
uses. The variables are the collections (`joinTokens`, `servers`, `bans`,
`playerCount`, `joined`) and the locals of each request. An action is one database
call and the code up to the next, because that is where goroutines of any API
instance interleave: `CreateGetServer`, `CreateIsBanned`, `CreateGetExisting`,
`CreateDeleteExisting` (one step per document of the list), `CreateInsert`;
`ConsumeGetToken` … `ConsumeUpdateUser`; `CreateError` and `ConsumeError` are a
database error at any of these calls. `BanPlayer`, `BanEnds`, `BanGlobally`,
`CleanupServer`, `UpdatePlayerCount`, `ExpireToken` and `Tick` are what other parts
do to the same collections. A signed token is a record of its claims with the issue
time in clock units, so two tokens made in the same unit are equal, as they are in
the code. `FindOneAndDelete` fails on a missing document: `DeleteByToken`. Only tokens that
were signed are presented; an empty or forged one ends at the first lookup.

`Tickets.tla` is the abstract promise: a ticket is issued once, then used by one
agent or voided. `ImplementsTickets` maps a document to its ticket.

### ServerLink

`ServerLink.tla` composes the two ends of a game server's presence:

- the server thread (`svr`, `lock`, `funcs`): `Boot`, `RegisterCheckLimit`,
  `RegisterCreate`, `RegisterFailed`, `Connect`, `Frame`, `ProcessFunc`,
  `ProcessEnd`, from `Server.cpp`, `ServerBrowser.cpp`, `ServerManagement.cpp` and
  `ThreadExecutor.cpp`;
- the WebSocket thread (`ix`, `stop`, `conn`, `established`): `IxConnect`, `IxGone`
  (the API's 410), `IxQueue`, `IxClosed`, `IxStopped`, from the callbacks in
  `ServerManagement.cpp` and the reconnect loop of the vendored library;
- the API: `Upgrade`, `Own`, `Read`, `ReadFails`, `LoopDelete`, `LoopTouch`,
  `LoopClose` are `HandleServerWS` and its read loop; `ProcessServerEvent` a request
  for the server; `CleanRead`, `CleanDelete`, `CleanFails` the cleanup.

A step is what a thread does between two points where it can block or be seen.
`last_updated` is abstracted to a set `fresh` that `Age` takes ids out of. An id
nobody refers to any more may be used again, standing for a new one. The close frame that a
new connection writes to the one it replaces is one of the ends `Cut` stands for. The write
thread's queue is one bit, "something is to be read". A `RegisterServer` call that
the game server gave up is assumed to have ended at the API (its context is
cancelled). The model covers one API instance; a server started again from the
game's menu is not modelled. Both `Server::Start` (a server started from the game)
and the dedicated start-up are: `Dedicated` says which.

### Proxy

`Proxy.tla` models `Proxy/src/main.rs` and `user_manager.rs`. Every connection is a
task with a `pc`; its steps are single operations on the concurrent maps (`users`,
`servers`), channel operations, and the branches of `tokio::select!`, each enabled
when its future is ready. `ClientReachable` and `ServerReachable` say who still
holds a sender: a channel whose last sender is dropped ends its receiver, which is
how an evicted connection finds out. Connections are used once; a reconnect is
another connection with the same key. `shared` is a history variable: the keys that
two live connections had at once. A game server is assumed to send only to identifiers it
has had a packet from on its connection (`Known`), as the engine answers its peers; the proxy
itself checks nothing there (`main.rs:297`), and `NoCrossTalk` rests on it.

`Relay.tla` is the abstract promise: a network that may lose packets, but gives a
connection only what was sent, to one connection at most, after everything older that it
has of the same sender, and along the routes it is told. `ImplementsRelay` maps the packets
a connection has written to the ones it was given. `Route` leads from a client to the
servers of its server id, and from a server to the clients whose identifier some client of
its id has: those of its own id, unless the 16-bit identifiers of two games collide. The
maps, the channels, the retries and the evictions are not part of the promise.

### Moderation

`Moderation.tla` models the writing calls of `API/internal/rpc/server_management.go` for
the servers of one host. `EditRead` and `EditWrite` are `AddModerator` and
`RemoveModerator`: the interceptor reads the caller's document, the handler changes its
copy of the list and writes it back whole. `IsModerator` begins a ban, a kick or an
unban; `BanLookup` and `Create`, or `UnbanLookup` and `UnbanUpdate`, follow. A punishment
is identified with the call that inserts it. `Error` is a database call that fails
without effect, `Answer` one whose effect is there although the answer may be lost.
The list is a sequence, as in the code, since `RemoveModerator` removes one entry.
`clashed` and `raced` are histories of overlapping calls.

### Reports

`Reports.tla` models `API/internal/rpc/report.go` and `report_repository.go`:
`CreateCheck` and `CreateInsert`; `ApproveRead`, `ApproveBan` and `ApproveResolve`;
`RejectRead` and `RejectWrite`; `UpdateRead`, `UpdateFilter` and `UpdateWrite`. A report
is identified with the call that creates it, a ban with its approval, a note with the
update that adds it. A call that is refused before its first write is no step. An
`UpdateMany` is one step, so one that stops half way is not modelled. Descriptions, evidence
and dates are left out. The histories
(`contested`, `racing`, `reopened`) say which calls overlapped, so that the properties can
state exactly what the missing transactions cost.

### Levels

`Levels.tla` models which level a dedicated server runs, from the level hooks in
`Server.cpp`, `MapRotation` in `Settings.h`, the message handlers in `Program.cpp`, the
console commands and `ServerInterfaceService::LoadLevel`. A call of `LoadNextLevel` is
cut where threads can meet: `Enter` (`InitLevelSetup` and the test of `m_levelLoaded`),
`Queue` or `Start`, then `Update` (the `UpdateServer` call). `OnLevelLoaded`,
`LoadRequested` and `ClearRequest` are the handler of the engine's message, which holds
the request's mutex while it loads a kept request. If the flag was cleared behind its
back, `Queue` locks the mutex a second time on the same thread; that is undefined, so the
step may succeed or leave the thread `"stuck"`. The engine (`LoadDone`) and the API
(`UpdateServer`, in any order, with failures; `Delist`) are external. `Register` is a
registration at run time, after a 410: it lists the level of `m_creationInfo`, which is the
one the server started with (`CreationLevel`), and `fresh` remembers that no update has
followed. `raced` records that a call acted on something another call had overtaken, `missed`
that the last update failed or came out of order: the properties say what holds without. A
request is a level; that a queued one also forgets its start point (`Server.cpp:71-72`) is
left out with the start points.

### Players

`Players.tla` models the sessions of players on a game server: the join hook and its
callback, `LoadPlayerStats` and `ApplyPlayerStats`, the save at a disconnect, and the
API's `GetStats`, `UpdateStats` and `Stats.Upsert`, one action per database call. A
failed `GetStats` comes back as an empty map, because `Statistics.cpp` tests the response
for null and the asynchronous call always passes one. `BanPlayer` sets the ban and sends
the event, `ProcessReceivedEvent` kicks whoever it finds. `Crash` ends the process.
Servers differ in the statistics their storage has room for (`template`): `ApplyPlayerStats`
skips the others, and all of them if the player has no storage, and the save replaces the
whole map. `lossy`, `unguarded` and `slipped` name the players for whom something in the
comments of these variables went wrong; `lossy` has the most causes: failed calls, a session
that reads before another one's save, a load that comes after progress or never, a skipped
statistic and a crash. A callback that comes after its connection is gone is taken to have no
effect. The `SaveData` console command (`PersistenceManager.cpp:161`), which saves in the
middle of a session, is not modelled.

### WriteQueue

`WriteQueue.tla` models `ServerManagementAPI`'s write queue and the player list it
carries. The server thread pushes and notifies in two steps; the write thread checks its
predicate, blocks, sleeps, takes an event and sends it in separate steps, since the mutex
it waits with guards neither the queue nor the flag; the WebSocket's thread sets and
clears the flag after the connection changed. It is the detail behind ServerLink's bit
"something is to be read". Equal lists that follow each other in the queue are one.

### PlayerFilter

`PlayerFilter.tla` models the loop of `processServerSocketEvent` that takes nil entries and ids
of `""` or `"0"` out of a player list (`server_manager.go:518`), one action per turn. A
`range` over a slice keeps its length and array, and `append(players[:i], players[i+1:]...)`
moves the array's entries under it: so `slots` is the array, `length` the slice that
shrinks, `turn` the place the loop reads, which may be past that slice. Entries are named
by the place they had in the list. The module has no run: what it promises is proved for
lists of any length.

### Voice

`Voice.tla` models proximity chat of a client: `VoipManager`, and what `Client.cpp` and
`SetVoipSettings` do with it. The game thread (`game`), the gRPC thread (`rpc`) and the
listener thread each take one step per access to `m_currentChannel`, `m_isEnabled` or the
push-to-talk flags. Vivox is external: requests take effect in order, an add may fail, a
session may end by itself. The constructor leaves four flags uninitialised, so `Init`
takes any value for them. Two simplifications: `SetVoipSettings` writes its two flags in one
step, and `AddSession` sets the channel and sends its request in one; a meeting of the two
threads in between belongs to `disturbed`. `disturbed` and `stray` are histories of the
meetings that the missing lock makes possible; `heard` says that Vivox took the last mute
request, which it does not before the login.

`MC_*.tla` give the constants of the runs; no definition is replaced.

## 3. What is checked

| Run | Instance | Shows |
|---|---|---|
| `join_tokens` | 2 creates, 2 consumes, 1 player, 1 server | `SingleUse`, `OneLiveToken`, `BanRespected` through every interleaving with bans, cleanup, TTL and errors; the collection implements one-shot tickets |
| `proxy_clients` | 2 connections of a player, 1 of a player of another game, both games' servers | `NoGhosts`, `NoCrossTalk`; a client's entry is only lost to a client with the same key; an evicted client's connection closes |
| `proxy_servers` | 1 client, 2 connections of its server, 3 packets | the same for a server's entry; `InOrder` (no packet twice, none overtaken) across a reconnect; a server connection nobody can reach closes; `ImplementsRelay` |
| `link` | 1 game server, 4 ids, 2 connections | `LinkIsCurrent`, `NoStaleOwner`, `SoleLinkOwned` |
| `link_live` | 1 dedicated server, 2 ids | `DelistedCloses`, `OrphanDelisted` |
| `link_dedicated` | 1 game server | the finding below |
| `moderation` | 2 edits of the list, 2 bans, 1 kick, 1 unban, 2 users | `OneActiveBan`, `UnbanLifts`, `EditsKept` |
| `reports` | 3 reports of a reporter about 3 players, 2 approvals, 1 rejection, 1 update; at most 2 open, 1 per player | `NoSilentClose`, `OneBanPerReport`, `VerdictsAgree`, `OpenLimit` |
| `levels` | 2 levels, the server thread and a gRPC thread, 2 calls in flight, any number of registrations | `OneLoad`, `LatestWins`, `ListingAgrees`, `RequestServed` |
| `players` | 3 sessions of a player, 2 statistics, servers with one or both | `BanHolds`, `ProgressSaved`, `KeysKept` |
| `write_queue` | 2 players, 3 queued lists | `PopNonEmpty`, `QueueMoves`, `ListReaches` |
| `voice` | 2 servers, 2 things in flight | `NoLeak`, `DisabledIsSilent`, `RightServer`, `MicClosed` |

Bounds. Two requests of a kind suffice for every race here, since each step of a
request reads or writes one document; two connections with a key are an old and a
new one; three packets distinguish loss, duplication and overtaking. `TTL = MaxTime =
1` lets a token expire and lets two be signed at the same time. `PlayerCounts = {1}` on a
server of two makes it full or not with the tokens still unused. `MaxFuncs` bounds the
executor's queue at two functions, enough for a registration queued behind another.
The limits of 6 and 2 open reports are 2 and 1: of three reports, the third meets the first
limit if it is about a third player, and a second one about the same player meets the other.
`MaxUpdates` counts the calls of `LoadNextLevel` in progress and the updates in flight.
A rotation of one entry that grows to two wraps around at either length; two levels are
the one that loads and the one asked for next. Three sessions are one that loads, one
that saves and one that comes after both; two statistics, of which one server has one and
the other both, tell a shrinking map from a changed one. Three lists are one of an earlier connection, a wrong one and a right one.
`MaxBusy = 2` lets two answers, or an answer and an event, meet in Voice; 3 was tried as
well, with the same result. Four ids are a current, a previous, an orphaned and a new listing. Deadlock checking
is off where behaviours end (each request, staff call or connection is used once) and in
ServerLink and Levels, whose threads really can block each other or themselves. Every property of a run has a mutant:
a plausible slip in one definition under which TLC finds it violated.

Exemptions. Much of this code has no locks and no transactions, so some of its hazards simply
happen. Where one does, the property does not pretend otherwise: a history variable, named in
the property's comment, marks what it touched (`overlapped`, `shared`, `clashed`, `raced`,
`contested`, `racing`, `reopened`, `missed`, `disturbed`, `stray`, `heard`, `lossy`,
`unguarded`, `slipped`), and the property says that nothing else goes wrong. The notes of the
hazards in `PROJECT.json` say for each whether a property excludes it or bounds it.

Fairness. *Proxy*: tokio polls woken tasks and `select!` starts at
a random branch, so a branch that stays ready is taken; none for peers. *ServerLink*:
every thread runs; a mutex released again and again is got in the end (strong
fairness of `IxQueue`; a frame holds it for microseconds); a read loop gets a message
or its 40 s deadline; the database does not fail every deletion; a listing with no
connection grows old. Nothing obliges the network or a registration to succeed.
*Levels*: threads run, the engine finishes a load, a call ends. A posted message is
handled in the next frame, however many console commands that frame also runs (strong
fairness of `OnLevelLoaded`). Nobody has to ask for a level. *WriteQueue*: the three
threads run and the heartbeat's timer goes on; connections need not open.

### Findings

The comment at `Module/Source/Core/Server.cpp:671` promises "automatic
reconnection" after a failed registration. `link_dedicated` refutes it:
`ThreadExecutor::Process` keeps its mutex while it runs a queued `Register`. If that
fails too, `Connect("DUMMY")` calls `stop()`, which joins the WebSocket thread; and that
thread may have got another 410 meanwhile and be waiting in `Queue` for the mutex. Both
wait for ever. A registration from the queue that succeeds runs into the same wait.

### Remarks

Met while modelling; visible in the code without a model checker.

- For a server started from the game, `Server::Start` sets `m_onlineMode` to false when
  the first registration gave no id (`Server.cpp:211-214`), so every `Register` that the
  410 callback queues later returns at once: the reconnection the comment speaks of
  happens for a dedicated server only.
- `UpdateStatus` refuses NEW ("Cannot set report status to NEW",
  `API/internal/rpc/report.go:339`), but IN_PROGRESS passes, and
  `GetReportStatusFromProto` stores it as NEW: a decided report is open again, and the
  next approval bans for it again. Reports models it; `reopened` is the history of it.
- The branch of the AMQP subscriber that closes stale servers' connections cannot be
  reached (`server_manager.go:250`); `DelistedCloses` shows that they end all the same.
- The filter of the player list leaves a nameless entry that follows another, which the
  API then counts as a player; and it panics, with nothing to recover in that goroutine,
  for a list whose last entry is nameless and not the only one (`server_manager.go:520`, `:525`;
  `PanicsExactly` says that there is no other case).
- `GameSimulationInitDedicatedServerHk` takes an entry of the rotation that it does not
  use (`Program.cpp:584`), so the second entry is skipped in the first round.
- `OnLevelLoaded` can lock its own mutex a second time after a gRPC `LoadLevel` in the
  middle of it (`Server.cpp:262`, `:69`); Levels reaches the thread that hangs.
- A server that lost its listing registers again with `m_creationInfo` (`Server.cpp:667`),
  whose level no load changes: until the next level is asked for, the browser lists the level
  the server started with. `ListingAgrees` says so, and that nothing else goes wrong.
- Settings sent before the Vivox login (the launcher sends them as soon as the module
  reports Vivox as initialised, `kyber_status_cubit.dart:80-81`) mute with an empty account handle (`VoipManager.cpp:709`),
  which Vivox refuses; the microphone stays open with push to talk on until the key is used
  or the settings are sent again. `MicClosed` exempts just that time (`heard`).
- A stored statistic that a server's storage lacks is skipped on loading
  (`PersistenceManager.cpp:149`), and the save at the end of the session replaces the map
  without it. The API notices only if the map has become smaller.
- Two join tokens made in one second are equal, and the second's document survives the
  deletion of the first's (`client_server.go:112`): `SingleUse` is a promise per document.
- A player who is unmuted by the push-to-talk key and leaves the server stays unmuted
  until the key is polled again, in the next game.
- `GetNextEntry` reads element 0 of an empty rotation (`Settings.h:33`), which the
  assumption on `Rotation` excludes.
- The write queue stays locked while `sendBinary` runs (`ServerManagement.cpp:107-121`):
  a slow connection stalls the server thread in `Send`.
- A packet of less than two bytes from a game server ends the proxy's task before it has
  removed its entry (`Proxy/src/utils.rs:15`); the modelled servers send an identifier.
- The reconnect timeout of the proxy is only looked at when the player sends
  (`Proxy/src/main.rs:238`), so a silent player's connection outlives its server.
- `CreateJoinToken` decides whether a server is full on a `player_count` that lags
  (`client_server.go:103`), and `RegisterServer` creates the proxy's token before it
  validates the server (`server_browser.go:591`); the game server's own limit and the TTL
  index make both good.
- The launcher decides from a task list read before several awaits whether a download is
  already running (`download_orchestrator.dart:190`).

## 4. What is proved

For every value of the constants that satisfies the named assumptions.

`JoinTokens_proofs.tla` — `TypeCorrect`, `SingleUseCorrect`, `SupersededCorrect`,
`OneLiveTokenCorrect`, `BanRespectedCorrect`, `ImplementsTicketsCorrect`. None of the four
invariants is inductive. The
invariant `IInv` adds: a live document was inserted by a call that has answered, or is
a server's proxy document, so a document that is gone stays gone (`TokenInv`); what a
create read was issued before it and is deleted or still on its list, and the list is
empty when it inserts (`SupersedeInv`); a user outside `overlapped` has one create
running, and all its other tokens are on that one's list (`AloneInv`); a ban in `barred`
is active, and after each lookup no ban of its kind is left (`BanInv`). The refinement
maps every step to a step of `Tickets` or a stutter; it needs `TokenInv`, since a document
that is gone must not come back as a fresh ticket.

`ServerLink_proofs.tla` — `TypeCorrect`; `LimitHoldsCorrect`, with `LimitInv`, which
also counts the calls between check and insert (proved only: it is about several game servers
registering at once, with which the run would be out of reach); `LinkIsCurrentCorrect`, with `LinkInv`,
which ties a WebSocket thread's state, its connection and the handler at the other
end together; `NoStaleOwnerCorrect` and `SoleLinkOwnedCorrect`, with `OwnInv`, which
adds that two read loops of one server know of each other in `shared`. The module also
extends WriteQueue, the queue behind one game server's link: `QueueTypeCorrect` and
`PopNonEmptyHolds`, since only the write thread takes events out and its test lasts; and
PlayerFilter, for lists of any length: `FilterTypeCorrect`, `PlayersKeptHolds`,
`OnlyFollowersStayHolds`, `PanicsExactlyHolds`. They need to know, in the middle of the
loop, that what is ahead is the rest of the list shifted by the number of removals, followed
by copies of the last entry (`Ahead`), that what is passed is all the players so far
(`Passed`), and that something was removed if and only if a nameless entry was met (`Met`).

`Proxy_proofs.tla` — `TypeCorrect`, `NoGhostsHolds`, `SoleClientHolds`, `SoleServerHolds`,
`InOrderHolds`, `NoCrossTalkHolds`, `ImplementsRelayHolds`. `IInv` has two halves. `Control` is about the maps and
the tasks: every entry is under its connection's key (`Entered`), and what a client holds
is a server of its token's id (`Aimed`); a server that is registered and was cancelled, or
returned without removing itself, has a successor about to add itself (`Succeeded`), which
needs that a server not yet added has not been cancelled (`Fresh`); two live connections
with one key are in `shared` (`Noticed`), so whoever removes an entry is its owner or a
known rival. `Delivery` is about the packets, and only looks at written and queued packets
together: a step leaves that sequence alone, cuts it (a task that returns), or appends one
packet to one of them (`TrafficStep`). A new packet has a number above all of its sender's
(`Counted`), which gives `InOrder`; what a connection was given came along a route
(`Routed`): what a server was given names clients of its own id, so that its answers,
looked up by identifier, go to such clients, if no identifier is for two servers. The
refinement follows from these: a new packet is a send of `Relay`, since its number is
new; a write is a delivery, since the packet at the head of the channel is nobody else's
(`HeadRelayed`) and newer than what its sender has there (`WriteDelivers`); every other
step, a task that drops its channel too, leaves the network as it is.

`Moderation_proofs.tla` — `TypeCorrect`, `NoDuplicatesHolds`, `EditsKeptHolds`,
`OneActiveBanHolds`, `UnbanLiftsHolds`. Two lemmas say what appending to and removing
from a list without duplicates give. `IInv` adds that each edit holds such a list, to
which its edit applies (`Copy`), the current one while it is alone (`Alone`); that the
check a ban made still holds when it inserts, unless another ban of the player is in
flight (`RacedKnown`, `Clear`); and that an unban about to write has found the only ban
but for later ones (`OnlyFound`).

`Reports_proofs.tla` — `TypeCorrect`, `NoSilentCloseHolds`, `OneBanPerReportHolds`,
`VerdictsAgreeHolds`, `OpenLimitHolds`, `NoteKeptHolds`. The heart of `IInv` is `Closed`: what an answered approval banned for
is no longer NEW, unless it was reopened. So a later approval or rejection that reads the
report as NEW began while that approval was running, which `SharedContested`,
`RejectContested` and `VerdictKnown` carry to the end of the calls. The limits need that
between its check and its insert a create is alone or its reporter is in `racing`, and the
cardinality of a set with one more element; the notes that an update about to write holds
every note of the report, or the player is contested. `NoteKept` is proved only: it takes two
updates with notes, which do not fit into the run beside the other calls.

`Levels_proofs.tla` — `TypeCorrect`, and `OneLoadHolds` from `FlagTells`: without a race,
levels loading and messages to be handled are one at most, and none while `m_levelLoaded`
is set. `LatestWinsHolds` and `ListingAgreesHolds` need `Wins`: the request that waits,
`m_currentLevel` and the level the engine will end up with are the one asked for last, or a
call for that one is still on its way (`Coming`). That fails for good in one window, where
`OnLevelLoaded` is bound to queue the request it was about to load (`Doomed`): the
server thread's next steps set `raced`, so the window has to be named and excluded. The listing needs
the same of the updates in flight (`Told`), and that without any since the last registration
it still has the level of `m_creationInfo`.

`Players_proofs.tla` — `TypeCorrect`; `BanHoldsCorrect` from `BanKnown`, which also covers
the sessions the API has granted; `KeysKeptCorrect`, an action property, from `StillEnough`
(what the check of `UpdateStats` found is so when it writes), which needs that two saves
at once are known (`SaveAlone`) and that a session saves once, at its end (`SavedOut`).
`ProgressSavedCorrect` follows from an account of every statistic (`Accounts`): what a
player earned is what the one session that owns the statistics will save, or what the
database has if there is none, plus what a session earned before its `GetStats` was
answered. It needs that at most one session owns them, and one waits for them. That nothing
is counted twice, which holds for every player, needs the same of every map on its way
(`NotInvented`, `StoredEarned`): none has more of a statistic than was earned.

`Voice_proofs.tla` — `TypeCorrect`, and `MicClosedHolds` from `MicSeenTo`: a microphone
that should be closed is, or one of the two threads is just about to see to it.
`NoLeakHolds`, `DisabledIsSilentHolds` and `RightServerHolds` are about `Live` channels,
which Vivox has or is asked for by a request no later one undoes: the module knows the only
one (`Tracked`), there is none once `SetVoipSettings` has seen to it (`Obeyed`), and it is
for the server the client is on (`InPlace`). Requests are served in order, so at rest live
channels are exactly the sessions.

The assumptions are those of the modules: finite sets of game servers and ids (for
cardinalities), constants of the right types, and null values outside the sets they
are null for.

Every inductive invariant was model-checked on the runs' instances before it was proved,
that of PlayerFilter on every list of up to six entries.
Every invariant and action property of the passing runs, and both refinements, are
stated by a theorem. Only model-checked is liveness, as fairness is outside the proof
system's reach: `EvictedCloses` and `OrphanCloses` of Proxy, `DelistedCloses` and
`OrphanDelisted` of ServerLink, `RequestServed` of Levels, `QueueMoves` and `ListReaches`
of WriteQueue.

## 5. Not modelled

- API: sign-in, launcher data, voice tokens, HTTP endpoints, caches, leaderboards: single
  documents and external services, no protocol among requests.
- Module: a server hosted from the game's menu and its restarts; the sockets that carry
  the game's traffic, which Proxy sees as peers that send, reconnect and disappear; the
  event manager and the thread pool; Lua scripting, entities, mod loading, hooks and the
  SDK, which read and write the memory of a closed engine: a model would have to invent
  what is there. In Players and Voice, teams, spectators, devices, volumes and positions.
- Most of the repository's lines are vendored (`Module/ThirdParty`: JSON, ImGui, Vivox,
  OpenSSL, zip, IXWebSocket), generated bindings of the engine's types, or data. They are
  other projects' code; IXWebSocket's reconnect loop is modelled as far as the module
  depends on it, Vivox as the module uses it.
- Launcher, CLI, packages, deployment: user interfaces and generated code.

## 6. Plan

Done: JoinTokens, Tickets, Proxy, Relay, ServerLink, Moderation, Reports, Levels, Players,
WriteQueue, PlayerFilter, Voice, and the proofs above. What may follow:

1. `WriteQueue` shown to implement the bit of ServerLink that stands for it.
2. `PacketIds`: the 16-bit folding of a token and the two-byte prefix of a packet, as
   functions against reference definitions.
3. `ManagerClients`: the web clients' sockets, the player cache and the AMQP fan-out over
   two API instances.
