------------------------------ MODULE JoinTokens ------------------------------
(***************************************************************************)
(* The join-token collection of the API and the requests that work on it   *)
(* concurrently: CreateJoinToken (a player asks to join a server),         *)
(* ConsumeJoinToken (the game server admits the player), the moderators'   *)
(* bans, the stale-server cleanup and MongoDB's TTL index.                 *)
(*                                                                         *)
(* One action is one database call together with the local code up to the  *)
(* next one: the granularity at which the API's goroutines, on any number  *)
(* of API instances, interleave on the shared database.                    *)
(***************************************************************************)
EXTENDS Integers, FiniteSets

CONSTANTS
    Users, Servers,
    HostOf,            \* ServerModel.HostID
    ModeratorsOf,      \* UserModel.ModeratorUserIDs
    GlobalModerators,  \* users entitled GLOBAL_SERVER_MODERATOR
    Admins,            \* users entitled ADMIN
    MaxPlayerCount,    \* ServerModel.MaxPlayerCount
    PlayerCounts,      \* the counts game servers report (a bound)
    Callers,           \* the users that ask for tokens or are banned (a bound)
    CreateReqs,        \* the CreateJoinToken calls of a behaviour
    ConsumeReqs,       \* the ConsumeJoinToken calls of a behaviour
    TTL,               \* life of a token document, in clock units (15 minutes)
    MaxTime,           \* bound on the clock
    Global,            \* the absent issuer of a global ban
    NoDoc, NoToken, NoId

Reqs == CreateReqs \cup ConsumeReqs

\* The proxy document of a server (server_browser.go:541) is named by the server,
\* the document of a CreateJoinToken call (client_server.go:127) by the call.
TokenIds == CreateReqs \cup Servers

\* A signed JWT is a deterministic function of its claims (RS256), and the claims
\* carry the issue time in whole seconds: equal claims are the same string.
Jwt == [user: Users, server: Servers, iat: 0..MaxTime]
Ban == (Users \cup {Global}) \X Users
Doc == [token: Jwt \cup {NoToken}, user: Users, server: Servers, created: 0..MaxTime]

ASSUME ConstantsAssumption ==
    /\ Users # {} /\ Servers # {}
    /\ IsFiniteSet(Servers) /\ IsFiniteSet(CreateReqs)
    /\ HostOf \in [Servers -> Users]
    /\ ModeratorsOf \in [Users -> SUBSET Users]
    /\ Callers \subseteq Users /\ GlobalModerators \subseteq Users /\ Admins \subseteq Users
    /\ MaxPlayerCount \in [Servers -> Nat \ {0}] /\ PlayerCounts \subseteq Nat
    /\ CreateReqs \cap ConsumeReqs = {} /\ TokenIds \cap ConsumeReqs = {}
    /\ CreateReqs \cap Servers = {}
    /\ TTL \in Nat \ {0} /\ MaxTime \in Nat
    /\ Global \notin Users /\ NoDoc \notin Doc
    /\ NoToken \notin Jwt /\ NoId \notin TokenIds

VARIABLES
    joinTokens,   \* the join_tokens collection: _id -> document or NoDoc
    servers,      \* the registered servers (the servers collection)
    playerCount,  \* servers.player_count
    bans,         \* pairs <<issuer, user>> with an active ban in punishments
    joined,       \* users.metric_data.servers_joined
    now,          \* the wall clock
    pc,           \* the call each request is about to make
    user,         \* CreateJoinToken: the authenticated caller
    server,       \* CreateJoinToken: req.server; ConsumeJoinToken: req.server
    count,        \* CreateJoinToken: server.PlayerCount as read by GetByID
    seen,         \* CreateJoinToken: ids returned by GetByUserID
    pending,      \* CreateJoinToken: ids of that list not deleted yet
    found,        \* ConsumeJoinToken: id of tokenModel
    model,        \* ConsumeJoinToken: tokenModel
    barred,       \* history: bans in force ever since the consume read its token
    overlapped    \* history: users that had two CreateJoinToken calls in flight

store == <<joinTokens, servers, playerCount, bans, joined>>
createLocals == <<user, count, seen, pending>>
consumeLocals == <<found, model, barred>>
history == <<overlapped>>
vars == <<store, now, pc, server, createLocals, consumeLocals, history>>

CreatePC == {"idle", "isBanned", "GetByUserID", "DeleteByToken", "Create", "ok", "failed"}
ConsumePC == {"idle", "GetGlobalBan", "GetServer", "DropOrphan", "GetBanForServer",
              "DeleteByToken", "UpdateUser", "ok", "failed", "lost"}
Final == {"ok", "failed", "lost"}

TypeOK ==
    /\ joinTokens \in [TokenIds -> Doc \cup {NoDoc}]
    /\ servers \subseteq Servers
    /\ playerCount \in [Servers -> Nat]
    /\ bans \subseteq Ban
    /\ joined \in [Users -> Nat]
    /\ now \in 0..MaxTime
    /\ pc \in [Reqs -> CreatePC \cup ConsumePC]
    /\ \A r \in CreateReqs : pc[r] \in CreatePC
    /\ \A r \in ConsumeReqs : pc[r] \in ConsumePC
    /\ user \in [CreateReqs -> Users]
    /\ server \in [Reqs -> Servers]
    /\ count \in [CreateReqs -> Nat]
    /\ seen \in [CreateReqs -> SUBSET TokenIds]
    /\ pending \in [CreateReqs -> SUBSET TokenIds]
    /\ found \in [ConsumeReqs -> TokenIds \cup {NoId}]
    /\ model \in [ConsumeReqs -> Doc \cup {NoDoc}]
    /\ barred \in [ConsumeReqs -> SUBSET Ban]
    /\ overlapped \subseteq Users

-----------------------------------------------------------------------------
(* The repositories. *)

GetByUserID(u) == {i \in TokenIds : joinTokens[i] # NoDoc /\ joinTokens[i].user = u}
GetByServerID(s) == {i \in TokenIds : joinTokens[i] # NoDoc /\ joinTokens[i].server = s}
GetByToken(t) == {i \in TokenIds : joinTokens[i] # NoDoc /\ joinTokens[i].token = t}

\* Mutant: DeleteOne, which succeeds when there is nothing to delete.
DeleteByTokenBlind(i) == joinTokens' = [joinTokens EXCEPT ![i] = NoDoc]

\* FindOneAndDelete reports ErrNoDocuments when the document is already gone, so
\* of two callers only one is told that it deleted it.
DeleteByToken(i) == joinTokens[i] # NoDoc /\ joinTokens' = [joinTokens EXCEPT ![i] = NoDoc]
AlreadyDeleted(i) == joinTokens[i] = NoDoc /\ UNCHANGED joinTokens

\* Mutant: the two arguments of the filter swapped.
GetBanForServerSwapped(hostID, u) == <<u, hostID>> \in bans

GetBanForServer(hostID, u) == <<hostID, u>> \in bans
GetGlobalBan(u) == <<Global, u>> \in bans

CanManage(s, u) ==
    u \in GlobalModerators \/ u = HostOf[s] \/ u \in ModeratorsOf[HostOf[s]]

Goto(r, label) == pc' = [pc EXCEPT ![r] = label]

-----------------------------------------------------------------------------
(* CreateJoinToken. *)

InFlight(u) == {q \in CreateReqs : pc[q] \notin Final \cup {"idle"} /\ user[q] = u}

CreateGetServer(r, u, s) ==
    /\ pc[r] = "idle"
    /\ user' = [user EXCEPT ![r] = u]
    /\ server' = [server EXCEPT ![r] = s]
    /\ overlapped' = IF InFlight(u) # {} THEN overlapped \cup {u} ELSE overlapped
    /\ \/ s \notin servers /\ Goto(r, "failed") /\ UNCHANGED count
       \/ /\ s \in servers /\ Goto(r, "isBanned")
          /\ count' = [count EXCEPT ![r] = playerCount[s]]
    /\ UNCHANGED <<store, now, seen, pending, consumeLocals>>

CreateIsBanned(r) ==
    /\ pc[r] = "isBanned"
    /\ Goto(r, IF GetBanForServer(HostOf[server[r]], user[r]) THEN "failed" ELSE "GetByUserID")
    /\ UNCHANGED <<store, now, server, createLocals, consumeLocals, history>>

\* Mutant: len(existingTokens) > 1 guards the delete loop.
CreateGetExistingOffByOne(r) ==
    /\ pc[r] = "GetByUserID"
    /\ seen' = [seen EXCEPT ![r] = GetByUserID(user[r])]
    /\ pending' = [pending EXCEPT ![r] = GetByUserID(user[r])]
    /\ Goto(r, IF Cardinality(GetByUserID(user[r])) <= 1 THEN "Create" ELSE "DeleteByToken")
    /\ UNCHANGED <<store, now, server, user, count, consumeLocals, history>>

CreateGetExisting(r) ==
    /\ pc[r] = "GetByUserID"
    /\ seen' = [seen EXCEPT ![r] = GetByUserID(user[r])]
    /\ pending' = [pending EXCEPT ![r] = GetByUserID(user[r])]
    /\ Goto(r, IF GetByUserID(user[r]) = {} THEN "Create" ELSE "DeleteByToken")
    /\ UNCHANGED <<store, now, server, user, count, consumeLocals, history>>

\* One turn of the delete loop. The cursor's order is MongoDB's, so any order.
CreateDeleteExisting(r, i) ==
    /\ pc[r] = "DeleteByToken" /\ i \in pending[r]
    /\ \/ /\ DeleteByToken(i)
          /\ pending' = [pending EXCEPT ![r] = @ \ {i}]
          /\ Goto(r, IF pending[r] = {i} THEN "Create" ELSE "DeleteByToken")
       \/ AlreadyDeleted(i) /\ Goto(r, "failed") /\ UNCHANGED pending
    /\ UNCHANGED <<servers, playerCount, bans, joined, now, server, user, count, seen,
                   consumeLocals, history>>

\* The rest of the handler: host lookup, the full and password checks, signing and
\* the insert. Only the insert touches what other requests read.
CreateInsert(r, passwordMatches) ==
    /\ pc[r] = "Create"
    /\ LET s == server[r]
           isModerator == CanManage(s, user[r]) \/ user[r] \in Admins
           isFull == count[r] >= MaxPlayerCount[s]
       IN IF ~isModerator /\ (isFull \/ ~passwordMatches)
          THEN Goto(r, "failed") /\ UNCHANGED joinTokens
          ELSE /\ Goto(r, "ok")
               /\ joinTokens' = [joinTokens EXCEPT ![r] =
                     [token |-> [user |-> user[r], server |-> s, iat |-> now],
                      user |-> user[r], server |-> s, created |-> now]]
    /\ UNCHANGED <<servers, playerCount, bans, joined, now, server, createLocals,
                   consumeLocals, history>>

\* A database error, a cancelled context or the death of the instance ends a request
\* between two calls; what it already wrote stays.
CreateError(r) ==
    /\ pc[r] \notin Final \cup {"idle"} /\ Goto(r, "failed")
    /\ UNCHANGED <<store, now, server, createLocals, consumeLocals, history>>

-----------------------------------------------------------------------------
(* ConsumeJoinToken. *)

\* The active bans the two ban checks of a consume look for.
BansAgainst(doc) == {<<Global, doc.user>>, <<HostOf[doc.server], doc.user>>} \cap bans

\* FindOne: any of the documents that carry this JWT.
ConsumeGetToken(r, t, s) ==
    /\ pc[r] = "idle"
    /\ server' = [server EXCEPT ![r] = s]
    /\ \/ GetByToken(t) = {} /\ Goto(r, "failed") /\ UNCHANGED consumeLocals
       \/ \E i \in GetByToken(t) :
             /\ found' = [found EXCEPT ![r] = i]
             /\ model' = [model EXCEPT ![r] = joinTokens[i]]
             /\ barred' = [barred EXCEPT ![r] = BansAgainst(joinTokens[i])]
             /\ Goto(r, "GetGlobalBan")
    /\ UNCHANGED <<store, now, createLocals, history>>

ConsumeGetGlobalBan(r) ==
    /\ pc[r] = "GetGlobalBan"
    /\ Goto(r, IF GetGlobalBan(model[r].user) THEN "failed" ELSE "GetServer")
    /\ UNCHANGED <<store, now, server, createLocals, consumeLocals, history>>

ConsumeGetServer(r) ==
    /\ pc[r] = "GetServer"
    /\ Goto(r, IF model[r].server \notin servers THEN "DropOrphan"
               ELSE IF model[r].server # server[r] THEN "failed" ELSE "GetBanForServer")
    /\ UNCHANGED <<store, now, server, createLocals, consumeLocals, history>>

\* The server of the token is gone: the token is deleted and the request fails anyway.
ConsumeDropOrphan(r) ==
    /\ pc[r] = "DropOrphan"
    /\ DeleteByToken(found[r]) \/ AlreadyDeleted(found[r])
    /\ Goto(r, "failed")
    /\ UNCHANGED <<servers, playerCount, bans, joined, now, server, createLocals,
                   consumeLocals, history>>

ConsumeGetServerBan(r) ==
    /\ pc[r] = "GetBanForServer"
    /\ Goto(r, IF GetBanForServer(HostOf[model[r].server], model[r].user)
               THEN "failed" ELSE "DeleteByToken")
    /\ UNCHANGED <<store, now, server, createLocals, consumeLocals, history>>

ConsumeDelete(r) ==
    /\ pc[r] = "DeleteByToken"
    /\ \/ DeleteByToken(found[r]) /\ Goto(r, "UpdateUser")
       \/ AlreadyDeleted(found[r]) /\ Goto(r, "failed")
    /\ UNCHANGED <<servers, playerCount, bans, joined, now, server, createLocals,
                   consumeLocals, history>>

ConsumeUpdateUser(r) ==
    /\ pc[r] = "UpdateUser"
    /\ joined' = [joined EXCEPT ![model[r].user] = @ + 1]
    /\ Goto(r, "ok")
    /\ UNCHANGED <<joinTokens, servers, playerCount, bans, now, server, createLocals,
                   consumeLocals, history>>

\* As CreateError; after the delete the token is spent although nobody was admitted.
ConsumeError(r) ==
    /\ pc[r] \notin Final \cup {"idle"}
    /\ Goto(r, IF pc[r] = "UpdateUser" THEN "lost" ELSE "failed")
    /\ UNCHANGED <<store, now, server, createLocals, consumeLocals, history>>

-----------------------------------------------------------------------------
(* The rest of the API, as far as the two handlers see it. *)

BanPlayer(s, u) ==
    /\ s \in servers /\ u # HostOf[s] /\ ~GetBanForServer(HostOf[s], u)
    /\ bans' = bans \cup {<<HostOf[s], u>>}
    /\ UNCHANGED <<joinTokens, servers, playerCount, joined, now, pc, server,
                   createLocals, consumeLocals, history>>

\* ApproveReports, which does not look for a ban already in force.
BanGlobally(u) ==
    /\ bans' = bans \cup {<<Global, u>>}
    /\ UNCHANGED <<joinTokens, servers, playerCount, joined, now, pc, server,
                   createLocals, consumeLocals, history>>

\* UnbanPlayer overturns the last active ban of a pair, or its expires_at passes.
BanEnds(b) ==
    /\ b \in bans /\ bans' = bans \ {b}
    /\ barred' = [r \in ConsumeReqs |-> barred[r] \ {b}]
    /\ UNCHANGED <<joinTokens, servers, playerCount, joined, now, pc, server,
                   createLocals, found, model, history>>

CleanupServer(s) ==
    /\ s \in servers /\ servers' = servers \ {s}
    /\ UNCHANGED <<joinTokens, playerCount, bans, joined, now, pc, server,
                   createLocals, consumeLocals, history>>

\* The game server reported n players: tokens not consumed yet are counted too.
UpdatePlayerCount(s, n) ==
    /\ s \in servers
    /\ playerCount' = [playerCount EXCEPT ![s] = n + Cardinality(GetByServerID(s))]
    /\ UNCHANGED <<joinTokens, servers, bans, joined, now, pc, server,
                   createLocals, consumeLocals, history>>

Tick ==
    /\ now < MaxTime /\ now' = now + 1
    /\ UNCHANGED <<store, pc, server, createLocals, consumeLocals, history>>

\* MongoDB removes a document some time after created + 15 minutes.
ExpireToken(i) ==
    /\ joinTokens[i] # NoDoc /\ joinTokens[i].created + TTL <= now
    /\ joinTokens' = [joinTokens EXCEPT ![i] = NoDoc]
    /\ UNCHANGED <<servers, playerCount, bans, joined, now, pc, server,
                   createLocals, consumeLocals, history>>

-----------------------------------------------------------------------------

\* Every server has been registered, and RegisterServer left its proxy document.
ProxyDoc(s) == [token |-> NoToken, user |-> HostOf[s], server |-> s, created |-> 0]

Init ==
    /\ joinTokens = [i \in TokenIds |-> IF i \in Servers THEN ProxyDoc(i) ELSE NoDoc]
    /\ servers = Servers
    /\ playerCount = [s \in Servers |-> 0]
    /\ bans = {}
    /\ joined = [u \in Users |-> 0]
    /\ now = 0
    /\ pc = [r \in Reqs |-> "idle"]
    /\ user = [r \in CreateReqs |-> CHOOSE u \in Users : TRUE]
    /\ server = [r \in Reqs |-> CHOOSE s \in Servers : TRUE]
    /\ count = [r \in CreateReqs |-> 0]
    /\ seen = [r \in CreateReqs |-> {}]
    /\ pending = [r \in CreateReqs |-> {}]
    /\ found = [r \in ConsumeReqs |-> NoId]
    /\ model = [r \in ConsumeReqs |-> NoDoc]
    /\ barred = [r \in ConsumeReqs |-> {}]
    /\ overlapped = {}

CreateStep(r) ==
    \/ \E u \in Callers, s \in Servers : CreateGetServer(r, u, s)
    \/ CreateIsBanned(r)
    \/ CreateGetExisting(r)
    \/ \E i \in TokenIds : CreateDeleteExisting(r, i)
    \/ \E passwordMatches \in BOOLEAN : CreateInsert(r, passwordMatches)

ConsumeStep(r) ==
    \/ \E t \in Jwt, s \in Servers : ConsumeGetToken(r, t, s)
    \/ ConsumeGetGlobalBan(r)
    \/ ConsumeGetServer(r)
    \/ ConsumeDropOrphan(r)
    \/ ConsumeGetServerBan(r)
    \/ ConsumeDelete(r)
    \/ ConsumeUpdateUser(r)

Environment ==
    \/ \E s \in Servers, u \in Callers : BanPlayer(s, u)
    \/ \E u \in Callers : BanGlobally(u)
    \/ \E b \in bans : BanEnds(b)
    \/ \E s \in Servers : CleanupServer(s)
    \/ \E s \in Servers : \E n \in PlayerCounts : UpdatePlayerCount(s, n)
    \/ Tick
    \/ \E i \in TokenIds : ExpireToken(i)

Next ==
    \/ \E r \in CreateReqs : CreateStep(r) \/ CreateError(r)
    \/ \E r \in ConsumeReqs : ConsumeStep(r) \/ ConsumeError(r)
    \/ Environment

Spec == Init /\ [][Next]_vars

-----------------------------------------------------------------------------
(* Properties. *)

\* The consumes whose DeleteByToken succeeded: the player is in, or (lost) the
\* metric update failed after it.
Took(r) == pc[r] \in {"UpdateUser", "ok", "lost"}

\* A token document admits at most one player, however many consumes of the same JWT
\* run at once: every one of them may have passed the lookup and both ban checks.
SingleUse ==
    \A r1, r2 \in ConsumeReqs : Took(r1) /\ Took(r2) /\ found[r1] = found[r2] => r1 = r2

\* When CreateJoinToken has answered with a new token, every token of this user that
\* it found with GetByUserID is gone for good, whoever deleted it.
Superseded ==
    \A r \in CreateReqs : pc[r] = "ok" => \A i \in seen[r] : joinTokens[i] = NoDoc

\* A user whose CreateJoinToken calls never overlapped holds at most one join token,
\* whatever failed half way: the delete loop and the insert are separate calls.
OneLiveToken ==
    \A i, j \in CreateReqs :
        /\ joinTokens[i] # NoDoc /\ joinTokens[j] # NoDoc
        /\ joinTokens[i].user = joinTokens[j].user
        /\ joinTokens[i].user \notin overlapped
        => i = j

\* A consume that read its token while the user was banned (globally or by the host)
\* does not admit unless every such ban was lifted meanwhile.
BanRespected == \A r \in ConsumeReqs : pc[r] = "ok" => barred[r] = {}

\* The tickets the token documents implement.
TicketState(i) ==
    IF joinTokens[i] # NoDoc THEN "live"
    ELSE IF i \notin Servers /\ pc[i] # "ok" THEN "unissued"
    ELSE IF \E r \in ConsumeReqs : found[r] = i /\ Took(r) THEN "used" ELSE "void"

TicketView == INSTANCE Tickets WITH
    Ids <- TokenIds, Agents <- ConsumeReqs,
    ticket <- [i \in TokenIds |-> TicketState(i)],
    usedBy <- [r \in ConsumeReqs |-> IF Took(r) THEN found[r] ELSE NoId]

\* The token collection with its requests implements one-shot tickets: a document that
\* left the collection never returns and its single use has a single user.
ImplementsTickets == TicketView!Spec
=============================================================================
