-------------------------------- MODULE Voice --------------------------------
(***************************************************************************)
(* Proximity chat of a game client: VoipManager and the parts of Client    *)
(* that drive it. The game thread joins and leaves servers and runs the    *)
(* callbacks of API calls, the launcher's SetVoipSettings runs on a gRPC   *)
(* thread, Vivox's events are handled on a listener thread. All of them    *)
(* change m_currentChannel without a lock. One action is the code between  *)
(* two accesses to what the threads share.                                 *)
(***************************************************************************)
EXTENDS Naturals, Sequences, FiniteSets

CONSTANTS
    Servers,   \* a server, and the voice channel the API gives its players
    None,      \* the empty string
    MaxBusy    \* nothing new starts with this many calls, requests and events in flight

ASSUME VoiceAssumption ==
    /\ None \notin Servers /\ MaxBusy \in Nat
    /\ {"idle", "clear", "mute"} \cap Servers = {}   \* game is one or the other

VARIABLES
    serverName,          \* m_socketSpawnInfo.serverName
    joining, startup,    \* m_joining; ChangeClientState(ClientState_Startup) was called
    phase,               \* "menu" while m_connected is false; "ingame" is ClientState_Ingame
    isPostLogin, account,    \* m_isPostLogin; m_accountHandle: how far the login got
    isEnabled, currentChannel,
    calls,               \* JoinChannel calls to the API in flight
    game, rpc,           \* the threads: what they are in the middle of
    pttEnabled, pttPressed,  \* m_pushToTalkEnabled, m_isPushToTalkPressed
    requests, sessions, events, muted,  \* Vivox: requests and evt_session_removed in flight
    heard,               \* history: Vivox took the last mute request; it refuses those made
                         \* before the account is logged in
    disturbed,           \* history: an event cleared the channel of a live session, or
                         \* AddSession met SetVoipSettings or another channel
    stray                \* history: AddSession for a server the client is not on

client == <<serverName, joining, startup, phase>>
login == <<isPostLogin, account>>
talk == <<pttEnabled, pttPressed, muted, heard>>
vivox == <<requests, sessions, events>>
history == <<disturbed, stray>>
vars == <<client, login, isEnabled, currentChannel, calls, game, rpc, talk, vivox, history>>

Channels == Servers \cup {None}
Requests == [op : {"add", "remove"}, channel : Servers]

TypeOK ==
    /\ serverName \in Channels /\ joining \in BOOLEAN /\ startup \in BOOLEAN
    /\ phase \in {"menu", "connected", "created", "ingame"}
    /\ isPostLogin \in BOOLEAN /\ account \in {"asked", "connecting", "done"}
    /\ isEnabled \in BOOLEAN /\ currentChannel \in Channels
    /\ calls \in Seq(Servers)
    /\ game \in {"idle", "clear", "mute"} \cup Servers
    /\ rpc \in {"idle", "act", "clear"}
    /\ pttEnabled \in BOOLEAN /\ pttPressed \in BOOLEAN
    /\ muted \in BOOLEAN /\ heard \in BOOLEAN
    /\ requests \in Seq(Requests) /\ sessions \subseteq Servers /\ events \in Seq(Servers)
    /\ disturbed \in BOOLEAN /\ stray \in BOOLEAN

\* The constructor leaves the four flags of VoipManager uninitialised.
Init ==
    /\ serverName = None /\ joining = FALSE /\ startup = FALSE /\ phase = "menu"
    /\ isPostLogin \in BOOLEAN /\ account = "asked"
    /\ isEnabled \in BOOLEAN /\ currentChannel = None /\ calls = <<>>
    /\ game = "idle" /\ rpc = "idle"
    /\ pttEnabled \in BOOLEAN /\ pttPressed \in BOOLEAN
    /\ muted = FALSE /\ heard = FALSE
    /\ requests = <<>> /\ sessions = {} /\ events = <<>>
    /\ disturbed = FALSE /\ stray = FALSE

Busy == Len(calls) + Len(requests) + Len(events) >= MaxBusy

-----------------------------------------------------------------------------
(* Logging in. *)

\* The API answered Login: Connect is sent, and the client counts as logged in.
RequestLogin ==
    /\ account = "asked" /\ game = "idle"
    /\ account' = "connecting" /\ isPostLogin' = TRUE
    /\ UNCHANGED <<client, isEnabled, currentChannel, calls, game, rpc, talk, vivox,
                   history>>

\* The connector exists, Login is sent and answered with an account handle.
AccountLogin ==
    /\ account = "connecting"
    /\ account' = "done"
    /\ UNCHANGED <<client, isPostLogin, isEnabled, currentChannel, calls, game, rpc, talk,
                   vivox, history>>

-----------------------------------------------------------------------------
(* The voice channel. *)

\* Client::AttemptJoinVoip: asks the API for access to the server's channel.
AttemptJoinVoip ==
    calls' = IF isPostLogin /\ serverName # None /\ currentChannel = None
             THEN Append(calls, serverName) ELSE calls

\* Mutant of RemoveSession: no request is sent.
RemoveSessionSilently == UNCHANGED requests

\* VoipManager::RemoveSession up to the request; the channel is cleared in a step of its own.
RemoveSession ==
    requests' = IF currentChannel = None THEN requests
                ELSE Append(requests, [op |-> "remove", channel |-> currentChannel])

\* Mutant of JoinChannelAnswer: a disabled client joins as well.
JoinChannelAnswerAnyway ==
    \E i \in 1..Len(calls), ok \in BOOLEAN :
        /\ game = "idle"
        /\ calls' = SubSeq(calls, 1, i - 1) \o SubSeq(calls, i + 1, Len(calls))
        /\ game' = IF ok THEN calls[i] ELSE "idle"
        /\ UNCHANGED <<client, login, isEnabled, currentChannel, rpc, talk, vivox,
                       history>>

\* The answer to a JoinChannel call, on the game thread: AddSession looks at m_isEnabled.
JoinChannelAnswer ==
    \E i \in 1..Len(calls), ok \in BOOLEAN :
        /\ game = "idle"
        /\ calls' = SubSeq(calls, 1, i - 1) \o SubSeq(calls, i + 1, Len(calls))
        /\ game' = IF ok /\ isEnabled THEN calls[i] ELSE "idle"
        /\ UNCHANGED <<client, login, isEnabled, currentChannel, rpc, talk, vivox,
                       history>>

\* The rest of AddSession.
AddSession ==
    /\ game \in Servers
    /\ currentChannel' = game
    /\ requests' = Append(requests, [op |-> "add", channel |-> game])
    /\ disturbed' = (disturbed \/ rpc # "idle" \/ currentChannel \notin {None, game})
    /\ stray' = (stray \/ phase = "menu" \/ startup \/ serverName # game)
    /\ game' = "idle"
    /\ UNCHANGED <<client, login, isEnabled, calls, rpc, talk, sessions, events>>

\* evt_session_removed, on the listener thread: whichever session it was.
HandleSessionRemoved ==
    /\ events # <<>>
    /\ events' = Tail(events)
    /\ currentChannel' = None
    /\ disturbed' = (disturbed \/ currentChannel \in sessions
          \/ \E i \in DOMAIN requests : requests[i] = [op |-> "add", channel |-> currentChannel])
    /\ UNCHANGED <<client, login, isEnabled, calls, game, rpc, talk, requests, sessions,
                   stray>>

-----------------------------------------------------------------------------
(* Joining and leaving servers. *)

\* ClientInterfaceService::JoinServer, on a gRPC thread.
JoinServer(s) ==
    /\ ~startup
    /\ serverName' = s /\ joining' = TRUE /\ startup' = TRUE
    /\ UNCHANGED <<phase, login, isEnabled, currentChannel, calls, game, rpc, talk, vivox,
                   history>>

\* Mutant of Startup: the voice channel is not left.
StartupKeepsChannel ==
    /\ game = "idle"
    /\ startup \/ phase # "menu"
    /\ startup' = FALSE /\ phase' = "menu"
    /\ UNCHANGED <<serverName, joining, login, isEnabled, currentChannel, calls, game, rpc,
                   talk, vivox, history>>

\* ClientStateChangeHk to ClientState_Startup: a server is joined, or the player leaves. The
\* voice channel is left; serverName stays.
Startup ==
    /\ game = "idle"
    /\ startup \/ phase # "menu"
    /\ startup' = FALSE /\ phase' = "menu"
    /\ IF phase = "menu"
       THEN UNCHANGED <<requests, game>>
       ELSE /\ RemoveSession
            /\ game' = IF currentChannel = None THEN "idle" ELSE "clear"
    /\ UNCHANGED <<serverName, joining, login, isEnabled, currentChannel, calls, rpc, talk,
                   sessions, events, history>>

\* ... and m_currentChannel is cleared, which ends RemoveSession.
GameClears ==
    /\ game = "clear"
    /\ currentChannel' = None /\ game' = "idle"
    /\ UNCHANGED <<client, login, isEnabled, calls, rpc, talk, vivox, history>>

\* ClientConnectToAddressHk.
ConnectToAddress ==
    /\ game = "idle" /\ joining /\ ~startup /\ phase = "menu"
    /\ phase' = "connected" /\ joining' = FALSE
    /\ UNCHANGED <<serverName, startup, login, isEnabled, currentChannel, calls, game, rpc,
                   talk, vivox, history>>

\* HandleClientServerJoin: the player is created on the server.
HandleClientServerJoin ==
    /\ game = "idle" /\ phase = "connected" /\ ~Busy
    /\ phase' = "created"
    /\ AttemptJoinVoip
    /\ UNCHANGED <<serverName, joining, startup, login, isEnabled, currentChannel, game, rpc,
                   talk, vivox, history>>

Ingame ==
    /\ game = "idle" /\ phase = "created"
    /\ phase' = "ingame"
    /\ UNCHANGED <<serverName, joining, startup, login, isEnabled, currentChannel, calls,
                   game, rpc, talk, vivox, history>>

-----------------------------------------------------------------------------
(* The settings, on a gRPC thread, and push to talk. *)

\* VoipManager::SetMuted: Vivox refuses the request while no account is logged in, and nothing
\* repeats it after the login.
SetMuted(m) ==
    /\ muted' = IF account = "done" THEN m ELSE muted
    /\ heard' = (account = "done")

\* ClientInterfaceService::SetVoipSettings, up to m_pushToTalkEnabled.
SetVoipSettings(on, ptt) ==
    /\ rpc = "idle" /\ ~Busy
    /\ isEnabled' = on /\ pttEnabled' = ptt
    /\ rpc' = "act"
    /\ UNCHANGED <<client, login, currentChannel, calls, game, pttPressed, muted,
                   heard, vivox, history>>

\* ... SetMuted, and the channel is joined or left.
SettingsAct ==
    /\ rpc = "act"
    /\ SetMuted(pttEnabled)
    /\ disturbed' = (disturbed \/ game \in Servers)
    /\ IF isEnabled
       THEN AttemptJoinVoip /\ rpc' = "idle" /\ UNCHANGED requests
       ELSE /\ RemoveSession /\ UNCHANGED calls
            /\ rpc' = IF currentChannel = None THEN "idle" ELSE "clear"
    /\ UNCHANGED <<client, login, isEnabled, currentChannel, game, pttEnabled, pttPressed,
                   sessions, events, stray>>

RpcClears ==
    /\ rpc = "clear"
    /\ currentChannel' = None /\ rpc' = "idle"
    /\ UNCHANGED <<client, login, isEnabled, calls, game, talk, vivox, history>>

\* Mutant of SetPushToTalkPressed: only a press sends a request.
SetPushToTalkPressedOnly(pressed) ==
    /\ game = "idle" /\ phase = "ingame"
    /\ pttEnabled /\ pttPressed # pressed
    /\ pttPressed' = pressed
    /\ game' = IF pressed THEN "mute" ELSE "idle"
    /\ UNCHANGED <<client, login, isEnabled, currentChannel, calls, rpc, pttEnabled,
                   muted, heard, vivox, history>>

\* VoipManager::Call in a frame: SetPushToTalkPressed, up to the request.
SetPushToTalkPressed(pressed) ==
    /\ game = "idle" /\ phase = "ingame"
    /\ pttEnabled /\ pttPressed # pressed
    /\ pttPressed' = pressed
    /\ game' = "mute"
    /\ UNCHANGED <<client, login, isEnabled, currentChannel, calls, rpc, pttEnabled,
                   muted, heard, vivox, history>>

\* ... and SetMuted.
FrameMutes ==
    /\ game = "mute"
    /\ SetMuted(~pttPressed)
    /\ game' = "idle"
    /\ UNCHANGED <<client, login, isEnabled, currentChannel, calls, rpc, pttEnabled,
                   pttPressed, vivox, history>>

\* The console command.
VoipMuteCommand ==
    /\ game = "idle"
    /\ SetMuted(TRUE)
    /\ UNCHANGED <<client, login, isEnabled, currentChannel, calls, game, rpc, pttEnabled,
                   pttPressed, vivox, history>>

-----------------------------------------------------------------------------
(* Vivox: requests take effect in order; a session ends when asked for, or by itself. *)

\* The module ignores errors, so whether an add succeeded shows in the sessions only.
Serve ==
    /\ requests # <<>>
    /\ requests' = Tail(requests)
    /\ LET r == Head(requests) IN
         \/ /\ r.op = "add" /\ account = "done"
            /\ sessions' = sessions \cup {r.channel} /\ UNCHANGED events
         \/ r.op = "add" /\ UNCHANGED <<sessions, events>>
         \/ /\ r.op = "remove" /\ r.channel \in sessions
            /\ sessions' = sessions \ {r.channel} /\ events' = Append(events, r.channel)
         \/ r.op = "remove" /\ r.channel \notin sessions /\ UNCHANGED <<sessions, events>>
    /\ UNCHANGED <<client, login, isEnabled, currentChannel, calls, game, rpc, talk,
                   history>>

Drop(c) ==
    /\ c \in sessions /\ ~Busy
    /\ sessions' = sessions \ {c} /\ events' = Append(events, c)
    /\ UNCHANGED <<client, login, isEnabled, currentChannel, calls, game, rpc, talk, requests,
                   history>>

Next ==
    \/ RequestLogin \/ AccountLogin
    \/ JoinChannelAnswer \/ AddSession \/ HandleSessionRemoved
    \/ \E s \in Servers : JoinServer(s)
    \/ Startup \/ GameClears \/ ConnectToAddress \/ HandleClientServerJoin \/ Ingame
    \/ \E on, ptt \in BOOLEAN : SetVoipSettings(on, ptt)
    \/ SettingsAct \/ RpcClears
    \/ (\E pressed \in BOOLEAN : SetPushToTalkPressed(pressed)) \/ FrameMutes
    \/ VoipMuteCommand
    \/ Serve \/ \E c \in Servers : Drop(c)

Spec == Init /\ [][Next]_vars

-----------------------------------------------------------------------------
(* Properties. *)

\* No thread is in the middle of something and Vivox has nothing left to do or to report.
Quiet == game = "idle" /\ rpc = "idle" /\ requests = <<>> /\ events = <<>>

\* Vivox has no session the module has lost track of (and so can never leave). Exempt is what
\* follows an event that came late or an AddSession that ran into SetVoipSettings or into
\* another channel (disturbed).
NoLeak == Quiet /\ ~disturbed => sessions \subseteq {currentChannel}

\* "An option to disable proximity chat": with it disabled the client is in no voice channel.
\* Exempt is what follows an event that came late or an AddSession that ran into
\* SetVoipSettings or into another channel (disturbed).
DisabledIsSilent == Quiet /\ ~isEnabled /\ ~disturbed => sessions = {}

\* A player on a server is in no other server's voice channel. Exempt is what follows an
\* AddSession for a server the client was not on (stray), an event that came late, or an
\* AddSession that ran into SetVoipSettings or into another channel (disturbed).
RightServer ==
    Quiet /\ phase # "menu" /\ ~startup /\ ~disturbed /\ ~stray
        => sessions \subseteq {serverName}

\* With push to talk on and the key last seen released, the microphone is muted, however the
\* settings and the key interleave, if Vivox took the last mute request. Exempt is the time
\* from a mute request made before the Vivox login, which Vivox refuses, to the next one
\* (heard): settings sent that early leave the microphone open with push to talk on, until
\* the key is used or the settings are sent again.
MicClosed == Quiet /\ heard /\ pttEnabled /\ ~pttPressed => muted
=============================================================================
