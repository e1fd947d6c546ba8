----------------------------- MODULE Moderation -----------------------------
(***************************************************************************)
(* The ServerManagement service of the API for the servers of one host:    *)
(* the host's moderator list, which AddModerator and RemoveModerator write *)
(* back whole from the copy the interceptor read, and the punishments that *)
(* BanPlayer, KickPlayer and UnbanPlayer create, look up and overturn.     *)
(* One action is one database call and the code up to the next one.        *)
(***************************************************************************)
EXTENDS Naturals, Sequences, FiniteSets

CONSTANTS
    Users,
    Host,              \* ServerModel.HostID
    GlobalModerators,  \* users entitled GLOBAL_SERVER_MODERATOR
    Edits,             \* the AddModerator and RemoveModerator calls of a behaviour
    Bans, Kicks,       \* the BanPlayer and KickPlayer calls; each names its punishment
    Unbans,            \* the UnbanPlayer calls
    NoPunishment

Calls == Bans \cup Kicks \cup Unbans

ASSUME ModerationAssumption ==
    /\ Host \in Users /\ GlobalModerators \subseteq Users
    /\ Edits \cap Calls = {} /\ Bans \cap Kicks = {}
    /\ Bans \cap Unbans = {} /\ Kicks \cap Unbans = {}
    /\ NoPunishment \notin Calls

VARIABLES
    moderatorIDs,  \* the host's UserModel.ModeratorUserIDs
    punishments,   \* the punishments collection: the calls whose document was inserted
    overturned,    \* the ones with overturned_by set
    expired,       \* the ones whose expires_at has passed
    pc,            \* the call each request is about to make
    target,        \* the user a request is about
    list,          \* edits: ctx.Value("user").ModeratorUserIDs
    op,            \* edits: AddModerator or RemoveModerator
    found,         \* unbans: the punishment GetBanForServer returned
    intended,      \* history: the moderators, had every edit been atomic
    clashed,       \* history: the edits that began while another was in flight
    raced,         \* history: users with two BanPlayer calls in flight at once
    since          \* history: bans inserted since the unban's lookup

store == <<moderatorIDs, punishments, overturned, expired>>
editVars == <<list, op, intended, clashed>>
banVars == <<found, raced, since>>
vars == <<store, pc, target, editVars, banVars>>

Reqs == Edits \cup Calls
Elements(s) == {s[k] : k \in DOMAIN s}

TypeOK ==
    /\ moderatorIDs \in Seq(Users)
    /\ punishments \subseteq Bans \cup Kicks
    /\ overturned \subseteq punishments /\ expired \subseteq punishments
    /\ pc \in [Reqs -> {"idle", "write", "lookup", "create", "update", "ok", "failed"}]
    /\ target \in [Reqs -> Users]
    /\ list \in [Edits -> Seq(Users)]
    /\ op \in [Edits -> {"add", "remove"}]
    /\ found \in [Unbans -> Bans \cup Kicks \cup {NoPunishment}]
    /\ intended \subseteq Users /\ clashed \subseteq Edits
    /\ raced \subseteq Users
    /\ since \in [Unbans -> SUBSET Bans]

Init ==
    /\ moderatorIDs = <<>>
    /\ punishments = {} /\ overturned = {} /\ expired = {}
    /\ pc = [r \in Reqs |-> "idle"]
    /\ target = [r \in Reqs |-> Host]
    /\ list = [e \in Edits |-> <<>>]
    /\ op = [e \in Edits |-> "add"]
    /\ found = [r \in Unbans |-> NoPunishment]
    /\ intended = {} /\ clashed = {}
    /\ raced = {} /\ since = [r \in Unbans |-> {}]

Goto(r, label) == pc' = [pc EXCEPT ![r] = label]
InFlight(r) == pc[r] \notin {"idle", "ok", "failed"}

\* A write took effect; the caller gets an error if the database's answer was lost.
Answer(r) == Goto(r, "ok") \/ Goto(r, "failed")

-----------------------------------------------------------------------------
(* The moderator list. *)

\* The interceptor reads the caller, and the handler looks for the user in the list.
EditRead(e, u, o) ==
    /\ pc[e] = "idle"
    /\ target' = [target EXCEPT ![e] = u]
    /\ op' = [op EXCEPT ![e] = o]
    /\ list' = [list EXCEPT ![e] = moderatorIDs]
    /\ Goto(e, IF (o = "add") = (u \in Elements(moderatorIDs)) THEN "failed" ELSE "write")
    /\ clashed' = IF \E d \in Edits : InFlight(d) THEN clashed \cup {e} ELSE clashed
    /\ UNCHANGED <<store, banVars, intended>>

\* Mutant: the second half begins one element late, the first ends with the one looked for.
WithoutNext(s, u) ==
    LET k == CHOOSE j \in DOMAIN s : s[j] = u /\ \A i \in 1..(j - 1) : s[i] # u
    IN SubSeq(s, 1, k) \o SubSeq(s, k + 2, Len(s))

\* slices.Index, and the two halves around it.
Without(s, u) ==
    LET k == CHOOSE j \in DOMAIN s : s[j] = u /\ \A i \in 1..(j - 1) : s[i] # u
    IN SubSeq(s, 1, k - 1) \o SubSeq(s, k + 1, Len(s))

\* The whole list is written back.
EditWrite(e) ==
    /\ pc[e] = "write" /\ Answer(e)
    /\ moderatorIDs' = IF op[e] = "add" THEN Append(list[e], target[e]) ELSE Without(list[e], target[e])
    /\ intended' = IF op[e] = "add" THEN intended \cup {target[e]} ELSE intended \ {target[e]}
    /\ UNCHANGED <<punishments, overturned, expired, target, list, op, clashed, banVars>>

-----------------------------------------------------------------------------
(* Bans, kicks and unbans. *)

CanManage(u) == u \in GlobalModerators \/ u = Host \/ u \in Elements(moderatorIDs)

GetBanForServer(u) ==
    {p \in punishments \cap Bans : target[p] = u /\ p \notin overturned /\ p \notin expired}

\* isModerator, then the target: nobody bans or kicks the host.
IsModerator(r, caller, u) ==
    /\ pc[r] = "idle" /\ CanManage(caller)
    /\ r \in Unbans \/ u # Host
    /\ target' = [target EXCEPT ![r] = u]
    /\ Goto(r, IF r \in Kicks THEN "create" ELSE "lookup")
    /\ raced' = IF r \in Bans /\ \E b \in Bans : InFlight(b) /\ target[b] = u
                THEN raced \cup {u} ELSE raced
    /\ UNCHANGED <<store, editVars, found, since>>

\* Mutant: the player is banned whatever the lookup found.
BanLookupSkipped(r) ==
    /\ r \in Bans /\ pc[r] = "lookup" /\ Goto(r, "create")
    /\ UNCHANGED <<store, target, editVars, banVars>>

BanLookup(r) ==
    /\ r \in Bans /\ pc[r] = "lookup"
    /\ Goto(r, IF GetBanForServer(target[r]) = {} THEN "create" ELSE "failed")
    /\ UNCHANGED <<store, target, editVars, banVars>>

\* The punishment is inserted and a kick is published for the game server.
Create(r) ==
    /\ r \in Bans \cup Kicks /\ pc[r] = "create" /\ Answer(r)
    /\ punishments' = punishments \cup {r}
    /\ since' = IF r \in Bans THEN [q \in Unbans |-> since[q] \cup {r}] ELSE since
    /\ UNCHANGED <<moderatorIDs, overturned, expired, target, editVars, found, raced>>

\* FindOne returns any of the bans in force.
UnbanLookup(r) ==
    /\ r \in Unbans /\ pc[r] = "lookup"
    /\ since' = [since EXCEPT ![r] = {}]
    /\ \/ /\ GetBanForServer(target[r]) = {} /\ Goto(r, "failed") /\ UNCHANGED found
       \/ \E p \in GetBanForServer(target[r]) :
             found' = [found EXCEPT ![r] = p] /\ Goto(r, "update")
    /\ UNCHANGED <<store, target, editVars, raced>>

\* Mutant: the copy is changed and never saved.
UnbanUpdateUnsaved(r) ==
    /\ r \in Unbans /\ pc[r] = "update" /\ Goto(r, "ok")
    /\ UNCHANGED <<store, target, editVars, banVars>>

UnbanUpdate(r) ==
    /\ r \in Unbans /\ pc[r] = "update" /\ Answer(r)
    /\ overturned' = overturned \cup {found[r]}
    /\ UNCHANGED <<moderatorIDs, punishments, expired, target, editVars, banVars>>

-----------------------------------------------------------------------------

\* A database call of the request fails and has no effect.
Error(r) ==
    /\ InFlight(r) /\ Goto(r, "failed")
    /\ UNCHANGED <<store, target, editVars, banVars>>

Expire(p) ==
    /\ p \in punishments \cap Bans /\ p \notin expired
    /\ expired' = expired \cup {p}
    /\ UNCHANGED <<moderatorIDs, punishments, overturned, pc, target, editVars, banVars>>

Next ==
    \/ \E e \in Edits :
          EditWrite(e) \/ \E u \in Users, o \in {"add", "remove"} : EditRead(e, u, o)
    \/ \E r \in Calls :
          \/ BanLookup(r) \/ Create(r) \/ UnbanLookup(r) \/ UnbanUpdate(r)
          \/ \E caller, u \in Users : IsModerator(r, caller, u)
    \/ \E r \in Reqs : Error(r)
    \/ \E p \in Bans : Expire(p)

Spec == Init /\ [][Next]_vars

-----------------------------------------------------------------------------
(* Properties. *)

\* Nobody is in the moderator list twice, even when whole lists are written over each
\* other: RemoveModerator, which removes one entry, really revokes.
NoDuplicates ==
    \A j, k \in DOMAIN moderatorIDs : moderatorIDs[j] = moderatorIDs[k] => j = k

\* As long as no two edits were in flight at once, the list is what the edits
\* made of it: none that was written is lost, and no revoked moderator comes back.
EditsKept == clashed = {} => Elements(moderatorIDs) = intended

\* A player for whom no two BanPlayer calls were in flight at once has at most one ban
\* in force, through every order of bans, unbans, kicks, expiries and errors.
OneActiveBan == \A u \in Users \ raced : \A p, q \in GetBanForServer(u) : p = q

\* When UnbanPlayer has answered, the player is only banned by a ban inserted since its
\* lookup: overturning one document is enough, and a kick is never overturned in its place.
\* Left aside is a player for whom two BanPlayer calls were in flight at once (raced): they may
\* leave two bans in force, of which UnbanPlayer overturns one.
UnbanLifts ==
    \A r \in Unbans : pc[r] = "ok" /\ target[r] \notin raced =>
        GetBanForServer(target[r]) \subseteq since[r]

=============================================================================
