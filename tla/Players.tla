------------------------------- MODULE Players -------------------------------
(***************************************************************************)
(* The players of a dedicated game server: how the module admits, kicks    *)
(* and forgets them, and how their statistics travel between the engine    *)
(* and the API. The module's handlers and callbacks all run on the server  *)
(* thread; the calls they start are answered by the API in any order, and  *)
(* the connection may be gone by then. One action is one handler of the    *)
(* module or one database call of the API.                                 *)
(***************************************************************************)
EXTENDS Naturals, FiniteSets

CONSTANTS
    Players,
    Sessions,      \* the connections to the server, in any order
    Keys,          \* the statistics
    Templates,     \* which of them a server's PersistentStorage may have: they differ by mods
    MaxProgress    \* bound on what a player earns in a statistic

ASSUME PlayersAssumption == 
    MaxProgress \in Nat /\ IsFiniteSet(Keys) /\ Templates \subseteq SUBSET Keys

VARIABLES
    player,        \* of each session
    template,      \* ... and the statistics its server's PersistentStorage has
    pc,            \* "new", ConsumeJoinToken "auth", "granted" or "denied", on the server
                   \* "in", disconnected by the server "leaving", "out"
    banned, kicks, \* players banned from the server; events not yet handled by the module
    load,          \* of each session: the GetStats call
    loaded,        \* ... and what it read
    current,       \* value.current of each statistic in the engine
    save,          \* of each session: the UpdateStats call
    payload,       \* ... and its statistics
    stored,        \* the document in the stats collection
    earned,        \* history: what each player has earned
    lossy,         \* history: players some of whose progress may be lost. A GetStats or
                   \* UpdateStats call failed; a session read the statistics before another
                   \* one's were saved; a load came late and replaced progress, was not answered
                   \* before the player left, or met a server that lacks a stored statistic; or
                   \* the server crashed
    unguarded,     \* history: players with two saves at once, or one that could not be checked
    slipped        \* history: players whose kick missed a session: it came between the grant
                   \* and the join, or there were two

who == <<player, template>>
session == <<who, pc>>
bans == <<banned, kicks>>
loading == <<load, loaded>>
saving == <<save, payload>>
history == <<earned, lossy, unguarded, slipped>>
vars == <<session, bans, loading, current, saving, stored, history>>

Values == [Keys -> 0..MaxProgress]  \* of a player in the engine
Maps == UNION {[K -> 1..MaxProgress] : K \in SUBSET Keys}  \* PlayerStatsMap
NoStats == [k \in {} |-> 0]
Reference == [k \in Keys |-> 0]  \* value.reference

TypeOK ==
    /\ player \in [Sessions -> Players] /\ template \in [Sessions -> Templates]
    /\ pc \in [Sessions -> {"new", "auth", "granted", "denied", "in", "leaving", "out"}]
    /\ banned \subseteq Players /\ kicks \subseteq Players
    /\ load \in [Sessions -> {"none", "asked", "read", "done"}] /\ loaded \in [Sessions -> Maps]
    /\ current \in [Sessions -> Values]
    /\ save \in [Sessions -> {"none", "sent", "checked", "done"}]
    /\ payload \in [Sessions -> Maps]
    /\ stored \in [Players -> Maps] /\ earned \in [Players -> Values]
    /\ lossy \subseteq Players /\ unguarded \subseteq Players /\ slipped \subseteq Players

Init ==
    /\ player \in [Sessions -> Players] /\ template \in [Sessions -> Templates]
    /\ pc = [s \in Sessions |-> "new"]
    /\ banned = {} /\ kicks = {}
    /\ load = [s \in Sessions |-> "none"] /\ loaded = [s \in Sessions |-> NoStats]
    /\ current = [s \in Sessions |-> Reference]
    /\ save = [s \in Sessions |-> "none"] /\ payload = [s \in Sessions |-> NoStats]
    /\ stored = [p \in Players |-> NoStats] /\ earned = [p \in Players |-> Reference]
    /\ lossy = {} /\ unguarded = {} /\ slipped = {}

Goto(s, label) == pc' = [pc EXCEPT ![s] = label]

OthersOf(s) == {t \in Sessions \ {s} : player[t] = player[s]}

\* What the session's player earned is not in the database yet.
Unsaved(s) == pc[s] \in {"in", "leaving"} \/ save[s] \in {"sent", "checked"}

-----------------------------------------------------------------------------
(* Joining. *)

\* ServerConnectionOnCreatePlayerMessageHk: the join token is sent to the API; a player whose
\* name does not hold one is disconnected.
OnCreatePlayerMessage(s) ==
    /\ pc[s] = "new"
    /\ Goto(s, "auth") \/ Goto(s, "out")
    /\ UNCHANGED <<who, bans, loading, current, saving, stored, history>>

\* Mutant of ConsumeJoinToken: bans are not looked at.
ConsumeJoinTokenAnyway(s) ==
    /\ pc[s] = "auth"
    /\ Goto(s, "granted") \/ Goto(s, "denied")
    /\ UNCHANGED <<who, bans, loading, current, saving, stored, history>>

\* The API takes the token, of a player who is not banned.
ConsumeJoinToken(s) ==
    /\ pc[s] = "auth"
    /\ \/ player[s] \notin banned /\ Goto(s, "granted")
       \/ Goto(s, "denied")
    /\ UNCHANGED <<who, bans, loading, current, saving, stored, history>>

\* The callback of ConsumeJoinToken creates the player, and LoadPlayerPersistenceHk asks for
\* the statistics; or it disconnects them.
JoinAnswer(s) ==
    \/ /\ pc[s] = "granted"
       /\ Goto(s, "in")
       /\ load' = [load EXCEPT ![s] = "asked"]
       /\ UNCHANGED <<who, bans, loaded, current, saving, stored, history>>
    \/ /\ pc[s] = "denied"
       /\ Goto(s, "out")
       /\ UNCHANGED <<who, bans, loading, current, saving, stored, history>>

\* The connection is lost before the answer, whose callback then has nothing to work on.
Abandon(s) ==
    /\ pc[s] \in {"auth", "granted", "denied"}
    /\ Goto(s, "out")
    /\ UNCHANGED <<who, bans, loading, current, saving, stored, history>>

-----------------------------------------------------------------------------
(* Statistics. *)

Play(s, k) ==
    /\ pc[s] = "in" /\ k \in template[s]
    /\ earned[player[s]][k] < MaxProgress /\ current[s][k] < MaxProgress
    /\ current' = [current EXCEPT ![s][k] = @ + 1]
    /\ earned' = [earned EXCEPT ![player[s]][k] = @ + 1]
    /\ UNCHANGED <<session, bans, loading, saving, stored, lossy, unguarded, slipped>>

\* GetStats at the API; an error comes back as an empty map.
GetStats(s) ==
    /\ load[s] = "asked"
    /\ load' = [load EXCEPT ![s] = "read"]
    /\ \/ loaded' = [loaded EXCEPT ![s] = stored[player[s]]] /\ lossy' =
            IF \E t \in OthersOf(s) : Unsaved(t) THEN lossy \cup {player[s]} ELSE lossy
       \/ UNCHANGED loaded /\ lossy' = lossy \cup {player[s]}
    /\ UNCHANGED <<session, bans, current, saving, stored, earned, unguarded, slipped>>

\* ApplyPlayerStats: the statistics that were read replace the engine's. The ones the template
\* lacks are skipped, and all of them if the player has no PersistentStorage.
ApplyPlayerStats(s) ==
    /\ load[s] = "read"
    /\ load' = [load EXCEPT ![s] = "done"]
    /\ \E places \in {template[s], {}} :
         IF pc[s] \in {"in", "leaving"}
         THEN /\ current' = [current EXCEPT ![s] =
                    [k \in Keys |-> IF k \in DOMAIN loaded[s] \cap places THEN loaded[s][k] ELSE @[k]]]
              /\ lossy' = IF \E k \in DOMAIN loaded[s] : k \notin places \/ current[s][k] # 0
                          THEN lossy \cup {player[s]} ELSE lossy
         ELSE UNCHANGED <<current, lossy>>
    /\ loaded' = [loaded EXCEPT ![s] = NoStats]
    /\ UNCHANGED <<session, bans, saving, stored, earned, unguarded, slipped>>

\* Mutant of ExtractPlayerStats: the tolerance of the comparison is too large.
ExtractLargeOnly(s) ==
    [k \in {i \in template[s] : current[s][i] > Reference[i] + 1} |-> current[s][k]]

\* The statistics of the template whose value differs from the reference.
ExtractPlayerStats(s) ==
    [k \in {i \in template[s] : current[s][i] # Reference[i]} |-> current[s][k]]

\* ServerPlayerDisconnectMessage: SavePlayerStats. The engine forgets the player.
Disconnect(s) ==
    /\ pc[s] \in {"in", "leaving"}
    /\ Goto(s, "out")
    /\ payload' = [payload EXCEPT ![s] = ExtractPlayerStats(s)]
    /\ save' = [save EXCEPT ![s] = "sent"]
    /\ current' = [current EXCEPT ![s] = Reference]
    /\ lossy' = IF load[s] # "done" THEN lossy \cup {player[s]} ELSE lossy
    /\ unguarded' = IF \E t \in OthersOf(s) : save[t] \in {"sent", "checked"}
                    THEN unguarded \cup {player[s]} ELSE unguarded
    /\ UNCHANGED <<who, bans, loading, stored, earned, slipped>>

Enough(m, old) == Cardinality(DOMAIN m) >= Cardinality(DOMAIN old)

\* Mutant of UpdateStatsCheck: an update with fewer keys is accepted.
UpdateStatsCheckNot(s) ==
    /\ save[s] = "sent"
    /\ save' = [save EXCEPT ![s] = "checked"]
    /\ UNCHANGED <<session, bans, loading, current, payload, stored, history>>

\* UpdateStats at the API reads the stored statistics, and refuses an update with fewer keys.
\* An error of that read is ignored; or the call never gets there.
UpdateStatsCheck(s) ==
    /\ save[s] = "sent"
    /\ \/ /\ Enough(payload[s], stored[player[s]])
          /\ save' = [save EXCEPT ![s] = "checked"] /\ UNCHANGED <<payload, lossy, unguarded>>
       \/ /\ save' = [save EXCEPT ![s] = "checked"]
          /\ unguarded' = unguarded \cup {player[s]} /\ UNCHANGED <<payload, lossy>>
       \/ /\ save' = [save EXCEPT ![s] = "done"] /\ payload' = [payload EXCEPT ![s] = NoStats]
          /\ lossy' = lossy \cup {player[s]} /\ UNCHANGED unguarded
    /\ UNCHANGED <<session, bans, loading, current, stored, earned, slipped>>

\* Stats.Upsert replaces the whole map; or it fails.
Upsert(s) ==
    /\ save[s] = "checked"
    /\ save' = [save EXCEPT ![s] = "done"] /\ payload' = [payload EXCEPT ![s] = NoStats]
    /\ \/ stored' = [stored EXCEPT ![player[s]] = payload[s]] /\ UNCHANGED lossy
       \/ UNCHANGED stored /\ lossy' = lossy \cup {player[s]}
    /\ UNCHANGED <<session, bans, loading, current, earned, unguarded, slipped>>

\* The game server ends without saving anything.
Crash ==
    /\ \E s \in Sessions : pc[s] \notin {"new", "out"}
    /\ pc' = [s \in Sessions |-> IF pc[s] = "new" THEN "new" ELSE "out"]
    /\ load' = [s \in Sessions |-> IF load[s] = "none" THEN "none" ELSE "done"]
    /\ loaded' = [s \in Sessions |-> NoStats] /\ current' = [s \in Sessions |-> Reference]
    /\ lossy' = lossy \cup {player[s] : s \in {t \in Sessions : pc[t] \in {"in", "leaving"}}}
    /\ kicks' = {}
    /\ UNCHANGED <<who, banned, saving, stored, earned, unguarded, slipped>>

-----------------------------------------------------------------------------
(* Bans. *)

\* The API bans the player and tells the server.
BanPlayer(p) ==
    /\ p \notin banned
    /\ banned' = banned \cup {p} /\ kicks' = kicks \cup {p}
    /\ UNCHANGED <<session, loading, current, saving, stored, history>>

\* ProcessReceivedEvent: KickPlayer, if GetPlayerOrSpectator finds the player.
ProcessReceivedEvent(p) ==
    /\ p \in kicks
    /\ kicks' = kicks \ {p}
    /\ LET here == {s \in Sessions : player[s] = p /\ pc[s] = "in"} IN
         IF here = {} THEN UNCHANGED pc ELSE \E s \in here : Goto(s, "leaving")
    /\ slipped' = IF \E s \in Sessions : player[s] = p /\ pc'[s] \in {"granted", "in"}
                  THEN slipped \cup {p} ELSE slipped
    /\ UNCHANGED <<who, banned, loading, current, saving, stored, earned, lossy, unguarded>>

Next ==
    \/ \E s \in Sessions :
         \/ OnCreatePlayerMessage(s) \/ ConsumeJoinToken(s) \/ JoinAnswer(s) \/ Abandon(s)
         \/ GetStats(s) \/ ApplyPlayerStats(s) \/ \E k \in Keys : Play(s, k)
         \/ Disconnect(s) \/ UpdateStatsCheck(s) \/ Upsert(s)
    \/ Crash
    \/ \E p \in Players : BanPlayer(p) \/ ProcessReceivedEvent(p)

Spec == Init /\ [][Next]_vars

-----------------------------------------------------------------------------
(* Properties. *)

\* A banned player is not on the server once ProcessReceivedEvent has handled the event. Exempt
\* are players whose event came while a join that the API had granted was not yet known to the
\* module, or found another session of theirs (slipped).
BanHolds == \A s \in Sessions :
    pc[s] = "in" /\ player[s] \in banned \ kicks => player[s] \in slipped

\* A statistic of a map, 0 where the map has none.
Stat(m, k) == IF k \in DOMAIN m THEN m[k] ELSE 0

\* However loads, saves and crashes of several sessions interleave, no progress is counted
\* twice; and everything a player earned is in the database once their sessions are over and
\* saved. Exempt from the second part (lossy) are players with a GetStats or UpdateStats call
\* that failed, a session that read the statistics before another one's were saved, a load
\* that came after progress was made and replaced it, a session left before its load was
\* answered, a load on a server that has no place for a stored statistic, or a crash.
ProgressSaved == \A p \in Players, k \in Keys :
    /\ Stat(stored[p], k) <= earned[p][k]
    /\ p \notin lossy /\ (\A s \in Sessions : player[s] = p => ~Unsaved(s))
          => Stat(stored[p], k) = earned[p][k]

\* A save never leaves a player with fewer statistics than before, whatever failed to load.
\* Exempt are players whose saves overlapped, or whose stored statistics the API's check could
\* not read (unguarded).
KeysKept ==
    [][\A p \in Players \ unguarded : Enough(stored'[p], stored[p])]_vars
=============================================================================
