---------------------------- MODULE Voice_proofs ----------------------------
(***************************************************************************)
(* Proofs about Voice, for any servers and any number of things in flight. *)
(***************************************************************************)
EXTENDS Voice, SequenceTheorems, TLAPS

\* A microphone that should be closed is, unless a thread is just about to see to it. Only an
\* account that is logged in is heard.
MicSeenTo ==
    /\ heard => account = "done"
    /\ heard /\ pttEnabled /\ ~pttPressed /\ game # "mute" /\ rpc # "act" => muted

IInv == TypeOK /\ MicSeenTo

LEMMA RemoveType ==
  ASSUME NEW S, NEW s \in Seq(S), NEW i \in 1..Len(s)
  PROVE  SubSeq(s, 1, i - 1) \o SubSeq(s, i + 1, Len(s)) \in Seq(S)
<1>1. \A j \in 1..(i - 1) : s[j] \in S OBVIOUS
<1>2. \A j \in (i + 1)..Len(s) : s[j] \in S OBVIOUS
<1>3. SubSeq(s, 1, i - 1) \in Seq(S) BY <1>1, SubSeqProperties
<1>4. SubSeq(s, i + 1, Len(s)) \in Seq(S) BY <1>2, SubSeqProperties
<1> QED BY <1>3, <1>4, ConcatProperties

\* The two calls that several actions share.
LEMMA AttemptType == ASSUME TypeOK, AttemptJoinVoip PROVE calls' \in Seq(Servers)
<1>1. serverName # None => serverName \in Servers BY DEF TypeOK, Channels
<1> QED BY <1>1, AppendProperties DEF TypeOK, AttemptJoinVoip

LEMMA RemoveSessionType == ASSUME TypeOK, RemoveSession PROVE requests' \in Seq(Requests)
<1>1. ASSUME currentChannel # None
      PROVE [op |-> "remove", channel |-> currentChannel] \in Requests
  BY <1>1 DEF TypeOK, Channels, Requests
<1> QED BY <1>1, AppendProperties DEF TypeOK, RemoveSession

LEMMA InitInv == Init => IInv
<1> SUFFICES ASSUME Init PROVE IInv OBVIOUS
<1>1. serverName \in Channels /\ currentChannel \in Channels /\ sessions \subseteq Servers
  BY DEF Init, Channels
<1>2. calls \in Seq(Servers) /\ requests \in Seq(Requests) /\ events \in Seq(Servers) BY DEF Init
<1>3. phase = "menu" /\ account = "asked" /\ game = "idle" /\ rpc = "idle" BY DEF Init
<1>4. joining \in BOOLEAN /\ startup \in BOOLEAN /\ isPostLogin \in BOOLEAN BY DEF Init
<1>5. isEnabled \in BOOLEAN /\ pttEnabled \in BOOLEAN /\ pttPressed \in BOOLEAN BY DEF Init
<1>6. muted \in BOOLEAN /\ heard \in BOOLEAN BY DEF Init
<1>7. disturbed \in BOOLEAN /\ stray \in BOOLEAN BY DEF Init
<1>8. TypeOK BY <1>1, <1>2, <1>3, <1>4, <1>5, <1>6, <1>7 DEF TypeOK
<1> QED BY <1>8 DEF Init, IInv, MicSeenTo

LEMMA AnswerKeeps == ASSUME IInv, JoinChannelAnswer PROVE IInv'
<1>1. PICK i \in 1..Len(calls), ok \in BOOLEAN :
        /\ game = "idle"
        /\ calls' = SubSeq(calls, 1, i - 1) \o SubSeq(calls, i + 1, Len(calls))
        /\ game' = IF ok /\ isEnabled THEN calls[i] ELSE "idle"
        /\ UNCHANGED <<client, login, isEnabled, currentChannel, rpc, talk, vivox, history>>
  BY DEF JoinChannelAnswer
<1>2. calls \in Seq(Servers) BY DEF IInv, TypeOK
<1>3. calls' \in Seq(Servers) BY <1>1, <1>2, RemoveType
<1>4. game' \in {"idle"} \cup Servers BY <1>1, <1>2
<1>5. TypeOK' BY <1>1, <1>3, <1>4 DEF IInv, TypeOK, Channels, client, login, talk, vivox, history
<1> QED BY <1>1, <1>5 DEF IInv, MicSeenTo, talk, login

LEMMA AddKeeps == ASSUME IInv, AddSession PROVE IInv'
<1>1. [op |-> "add", channel |-> game] \in Requests BY DEF AddSession, Requests
<1>2. requests' \in Seq(Requests) BY <1>1, AppendProperties DEF AddSession, IInv, TypeOK
<1>3. TypeOK' BY <1>2 DEF IInv, TypeOK, AddSession, Channels, client, login, talk
<1>4. game # "mute" BY VoiceAssumption DEF AddSession
<1> QED BY <1>3, <1>4 DEF IInv, MicSeenTo, AddSession, talk, login

LEMMA RemovedKeeps == ASSUME IInv, HandleSessionRemoved PROVE IInv'
<1>1. events' \in Seq(Servers) BY HeadTailProperties DEF HandleSessionRemoved, IInv, TypeOK
<1>2. disturbed' \in BOOLEAN BY DEF HandleSessionRemoved
<1>3. TypeOK' BY <1>1, <1>2 DEF IInv, TypeOK, HandleSessionRemoved, Channels, client, login, talk
<1> QED BY <1>3 DEF IInv, MicSeenTo, HandleSessionRemoved, talk, login

LEMMA StartupKeeps == ASSUME IInv, Startup PROVE IInv'
<1>1. requests' \in Seq(Requests) BY RemoveSessionType DEF IInv, TypeOK, Startup
<1>2. game' \in {"idle", "clear"} BY DEF Startup
<1>a. startup' \in BOOLEAN /\ phase' \in {"menu", "connected", "created", "ingame"} BY DEF Startup
<1>b. UNCHANGED <<serverName, joining, isPostLogin, account, isEnabled, currentChannel, calls,
                  rpc, pttEnabled, pttPressed, muted, heard, sessions, events, disturbed, stray>>
  BY DEF Startup, login, talk, history
<1>c. game' \in {"idle", "clear", "mute"} \cup Servers BY <1>2
<1>3. TypeOK' BY <1>1, <1>a, <1>b, <1>c DEF IInv, TypeOK, Channels
<1> QED BY <1>3 DEF IInv, MicSeenTo, Startup, talk, login

\* SetVoipSettings mutes or unmutes by the setting, whatever key event it interrupted.
LEMMA SettingsKeep == ASSUME IInv, SettingsAct PROVE IInv'
<1>1. calls' \in Seq(Servers) BY AttemptType DEF IInv, TypeOK, SettingsAct
<1>2. requests' \in Seq(Requests) BY RemoveSessionType DEF IInv, TypeOK, SettingsAct
<1>3. rpc' \in {"idle", "clear"} BY DEF SettingsAct
<1>4. heard' = (account = "done") /\ disturbed' \in BOOLEAN BY DEF SettingsAct, SetMuted
<1>5. muted' = IF account = "done" THEN pttEnabled ELSE muted BY DEF SettingsAct, SetMuted
<1>6. TypeOK' BY <1>1, <1>2, <1>3, <1>4, <1>5 DEF IInv, TypeOK, SettingsAct, Channels, client, login
<1>7. MicSeenTo' BY <1>4, <1>5 DEF MicSeenTo, SettingsAct, login
<1> QED BY <1>6, <1>7 DEF IInv

LEMMA FrameKeeps == ASSUME IInv, FrameMutes PROVE IInv'
<1>1. muted' = IF account = "done" THEN ~pttPressed ELSE muted BY DEF FrameMutes, SetMuted
<1>a. muted' \in BOOLEAN BY <1>1 DEF IInv, TypeOK
<1>b. game' = "idle" /\ heard' = (account = "done") BY DEF FrameMutes, SetMuted
<1>2. TypeOK' BY <1>a, <1>b DEF IInv, TypeOK, FrameMutes, Channels, client, login, vivox, history
<1>3. MicSeenTo' BY <1>1, <1>b DEF IInv, MicSeenTo, FrameMutes, login
<1> QED BY <1>2, <1>3 DEF IInv

LEMMA MuteKeeps == ASSUME IInv, VoipMuteCommand PROVE IInv'
<1>1. /\ muted' \in BOOLEAN /\ heard' = (account = "done")
      /\ account = "done" => muted'
  BY DEF VoipMuteCommand, SetMuted, IInv, TypeOK
<1>2. TypeOK' BY <1>1 DEF IInv, TypeOK, VoipMuteCommand, Channels, client, login, vivox, history
<1>3. MicSeenTo' BY <1>1 DEF IInv, MicSeenTo, VoipMuteCommand, login
<1> QED BY <1>2, <1>3 DEF IInv

LEMMA ServeKeeps == ASSUME IInv, Serve PROVE IInv'
<1>1. Head(requests) \in Requests /\ requests' \in Seq(Requests)
  BY HeadTailProperties DEF Serve, IInv, TypeOK
<1>2. Head(requests).channel \in Servers BY <1>1 DEF Requests
<1>3. sessions' \subseteq Servers BY <1>2 DEF Serve, IInv, TypeOK
<1>a. events \in Seq(Servers) BY DEF IInv, TypeOK
<1>b. Append(events, Head(requests).channel) \in Seq(Servers) BY <1>2, <1>a, AppendProperties
<1>c. events' = events \/ events' = Append(events, Head(requests).channel) BY DEF Serve
<1>4. events' \in Seq(Servers) BY <1>a, <1>b, <1>c
<1>5. TypeOK' BY <1>1, <1>3, <1>4 DEF IInv, TypeOK, Serve, Channels, client, login, talk, history
<1> QED BY <1>5 DEF IInv, MicSeenTo, Serve, talk, login

LEMMA NextInv == IInv /\ [Next]_vars => IInv'
<1> SUFFICES ASSUME IInv, [Next]_vars PROVE IInv' OBVIOUS
<1> USE DEF IInv, TypeOK, MicSeenTo, Channels, client, login, talk, vivox, history
<1>1. CASE RequestLogin BY <1>1 DEF RequestLogin
<1>2. CASE AccountLogin BY <1>2 DEF AccountLogin
<1>3. CASE JoinChannelAnswer BY <1>3, AnswerKeeps
<1>4. CASE AddSession BY <1>4, AddKeeps
<1>5. CASE HandleSessionRemoved BY <1>5, RemovedKeeps
<1>6. ASSUME NEW s \in Servers, JoinServer(s) PROVE IInv' BY <1>6 DEF JoinServer
<1>7. CASE Startup BY <1>7, StartupKeeps
<1>8. CASE GameClears BY <1>8 DEF GameClears
<1>9. CASE ConnectToAddress
  <2>1. joining' \in BOOLEAN /\ phase' \in {"menu", "connected", "created", "ingame"}
    BY <1>9 DEF ConnectToAddress
  <2>2. UNCHANGED <<serverName, startup, login, isEnabled, currentChannel, calls, game, rpc, talk,
                    vivox, history>>
    BY <1>9 DEF ConnectToAddress
  <2>3. TypeOK' BY <2>1, <2>2
  <2>4. MicSeenTo' BY <2>2
  <2> QED BY <2>3, <2>4
<1>10. CASE HandleClientServerJoin
  <2>1. calls' \in Seq(Servers) BY <1>10, AttemptType DEF HandleClientServerJoin
  <2> QED BY <1>10, <2>1 DEF HandleClientServerJoin
<1>11. CASE Ingame BY <1>11 DEF Ingame
<1>12. ASSUME NEW on \in BOOLEAN, NEW ptt \in BOOLEAN, SetVoipSettings(on, ptt) PROVE IInv'
  BY <1>12 DEF SetVoipSettings
<1>13. CASE SettingsAct BY <1>13, SettingsKeep
<1>14. CASE RpcClears BY <1>14 DEF RpcClears
<1>15. ASSUME NEW pressed \in BOOLEAN, SetPushToTalkPressed(pressed) PROVE IInv'
  BY <1>15 DEF SetPushToTalkPressed
<1>16. CASE FrameMutes BY <1>16, FrameKeeps
<1>17. CASE Serve BY <1>17, ServeKeeps
<1>18. ASSUME NEW c \in Servers, Drop(c) PROVE IInv'
  <2>1. events' \in Seq(Servers) BY <1>18, AppendProperties DEF Drop
  <2> QED BY <1>18, <2>1 DEF Drop
<1>19. CASE VoipMuteCommand BY <1>19, MuteKeeps
<1>20. CASE UNCHANGED vars BY <1>20 DEF vars
<1> QED BY <1>1, <1>2, <1>3, <1>4, <1>5, <1>6, <1>7, <1>8, <1>9, <1>10, <1>11, <1>12, <1>13,
           <1>14, <1>15, <1>16, <1>17, <1>18, <1>19, <1>20 DEF Next

LEMMA Invariance == Spec => []IInv
BY InitInv, NextInv, PTL DEF Spec

-----------------------------------------------------------------------------
(* The sessions that Vivox has once it has served every request. *)

Add(c) == [op |-> "add", channel |-> c]
Remove(c) == [op |-> "remove", channel |-> c]

\* Vivox has a session of the channel, or is asked for one, that no later request ends.
Live(c) ==
    \/ c \in sessions /\ \A j \in DOMAIN requests : requests[j] # Remove(c)
    \/ \E i \in DOMAIN requests :
          requests[i] = Add(c) /\ \A j \in DOMAIN requests : j > i => requests[j] # Remove(c)
Silent == \A c \in Servers : ~Live(c)

\* The module knows the only session, and is not about to forget it.
Tracked == ~disturbed =>
    /\ \A c \in Servers : Live(c) => c = currentChannel
    /\ game = "clear" \/ rpc = "clear" => Silent

\* Once SetVoipSettings has seen to it, voice chat that is disabled is off for good.
Obeyed == ~disturbed /\ ~isEnabled /\ rpc # "act" => game \notin Servers /\ Silent

\* A session ends with the stay on the server it was added for.
InPlace == ~disturbed /\ ~stray =>
    /\ phase = "menu" => Silent
    /\ phase # "menu" /\ ~startup => \A c \in Servers : Live(c) => c = serverName

Known == Tracked /\ Obeyed /\ InPlace

LEMMA Distinct ==
  \A c, d : /\ Add(c) # Remove(d)
            /\ Add(c) = Add(d) => c = d
            /\ Remove(c) = Remove(d) => c = d
BY DEF Add, Remove

LEMMA Appended ==
  ASSUME TypeOK, NEW r \in Requests, requests' = Append(requests, r)
  PROVE  /\ Len(requests) \in Nat /\ DOMAIN requests = 1..Len(requests)
         /\ DOMAIN requests' = 1..(Len(requests) + 1)
         /\ \A j \in 1..Len(requests) : requests'[j] = requests[j]
         /\ requests'[Len(requests) + 1] = r
<1>1. requests \in Seq(Requests) BY DEF TypeOK
<1>2. /\ requests' \in Seq(Requests) /\ Len(requests') = Len(requests) + 1
      /\ \A j \in 1..Len(requests) : requests'[j] = requests[j]
      /\ requests'[Len(requests) + 1] = r
  BY <1>1, AppendProperties
<1> QED BY <1>1, <1>2, LenProperties

\* AddSession makes its own channel live at most.
LEMMA LiveAdd ==
  ASSUME TypeOK, NEW x \in Servers, requests' = Append(requests, Add(x)), sessions' = sessions
  PROVE  \A c \in Servers : Live(c)' => c = x \/ Live(c)
<1>1. Add(x) \in Requests BY DEF Add, Requests
<1>2. /\ Len(requests) \in Nat /\ DOMAIN requests = 1..Len(requests)
      /\ DOMAIN requests' = 1..(Len(requests) + 1)
      /\ \A j \in 1..Len(requests) : requests'[j] = requests[j]
      /\ requests'[Len(requests) + 1] = Add(x)
  BY <1>1, Appended
<1>3. SUFFICES ASSUME NEW c \in Servers, Live(c)', c # x PROVE Live(c) OBVIOUS
<1>4. CASE c \in sessions' /\ \A j \in DOMAIN requests' : requests'[j] # Remove(c)
  BY <1>2, <1>4 DEF Live
<1>5. ASSUME NEW i \in DOMAIN requests', requests'[i] = Add(c),
             \A j \in DOMAIN requests' : j > i => requests'[j] # Remove(c)
      PROVE  Live(c)
  <2>1. i # Len(requests) + 1 BY <1>2, <1>3, <1>5, Distinct
  <2> QED BY <1>2, <1>5, <2>1 DEF Live
<1> QED BY <1>3, <1>4, <1>5 DEF Live, Remove, Add

\* RemoveSession ends its channel, whatever is still to be served.
LEMMA LiveRemove ==
  ASSUME TypeOK, NEW x \in Servers, requests' = Append(requests, Remove(x)), sessions' = sessions
  PROVE  \A c \in Servers : Live(c)' => c # x /\ Live(c)
<1>1. Remove(x) \in Requests BY DEF Remove, Requests
<1>2. /\ Len(requests) \in Nat /\ DOMAIN requests = 1..Len(requests)
      /\ DOMAIN requests' = 1..(Len(requests) + 1)
      /\ \A j \in 1..Len(requests) : requests'[j] = requests[j]
      /\ requests'[Len(requests) + 1] = Remove(x)
  BY <1>1, Appended
<1>3. SUFFICES ASSUME NEW c \in Servers, Live(c)' PROVE c # x /\ Live(c) OBVIOUS
<1>4. CASE c \in sessions' /\ \A j \in DOMAIN requests' : requests'[j] # Remove(c)
  BY <1>2, <1>4 DEF Live
<1>5. ASSUME NEW i \in DOMAIN requests', requests'[i] = Add(c),
             \A j \in DOMAIN requests' : j > i => requests'[j] # Remove(c)
      PROVE  c # x /\ Live(c)
  <2>1. i # Len(requests) + 1 BY <1>2, <1>5, Distinct
  <2>2. i \in 1..Len(requests) BY <1>2, <1>5, <2>1
  <2>3. requests'[Len(requests) + 1] # Remove(c) BY <1>2, <1>5, <2>2
  <2> QED BY <1>2, <1>5, <2>2, <2>3 DEF Live
<1> QED BY <1>3, <1>4, <1>5 DEF Live, Remove, Add

\* Serving a request makes nothing live that was not.
LEMMA LiveServe == ASSUME TypeOK, Serve PROVE \A c \in Servers : Live(c)' => Live(c)
<1>1. requests \in Seq(Requests) /\ requests # <<>> /\ requests' = Tail(requests)
  BY DEF TypeOK, Serve
<1>2. /\ Len(requests) \in Nat \ {0} /\ DOMAIN requests = 1..Len(requests)
      /\ DOMAIN requests' = 1..(Len(requests) - 1)
      /\ \A j \in 1..(Len(requests) - 1) : requests'[j] = requests[j + 1]
      /\ Head(requests) = requests[1] /\ requests[1] \in Requests
  <2>1. /\ requests' \in Seq(Requests) /\ Len(requests') = Len(requests) - 1
        /\ \A j \in 1..Len(requests') : requests'[j] = requests[j + 1]
    BY <1>1, HeadTailProperties
  <2>2. Len(requests) \in Nat \ {0} BY <1>1, EmptySeq
  <2>3. DOMAIN requests' = 1..Len(requests') BY <2>1, LenProperties
  <2> QED BY <1>1, <2>1, <2>2, <2>3
<1>3. SUFFICES ASSUME NEW c \in Servers, Live(c)' PROVE Live(c) OBVIOUS
<1>4. PICK d \in Servers : requests[1] = Add(d) \/ requests[1] = Remove(d)
  BY <1>2 DEF Requests, Add, Remove
<1>5. CASE c \in sessions' /\ \A j \in DOMAIN requests' : requests'[j] # Remove(c)
  <2>1. \A j \in DOMAIN requests : j > 1 => requests[j] # Remove(c)
    <3>1. SUFFICES ASSUME NEW j \in 2..Len(requests) PROVE requests[j] # Remove(c) BY <1>2
    <3>2. j - 1 \in 1..(Len(requests) - 1) BY <1>2
    <3> QED BY <1>2, <1>5, <3>2
  <2>2. CASE requests[1] = Add(d)
    <3>1. Head(requests).op = "add" /\ Head(requests).channel = d BY <1>2, <2>2 DEF Add
    <3>2. sessions' \subseteq sessions \cup {d} BY <3>1 DEF Serve
    <3>3. CASE c \in sessions
      <4>1. \A j \in DOMAIN requests : requests[j] # Remove(c) BY <1>2, <2>1, <2>2, Distinct
      <4> QED BY <3>3, <4>1 DEF Live
    <3>4. CASE c = d
      <4>1. 1 \in DOMAIN requests /\ requests[1] = Add(c) BY <1>2, <2>2, <3>4
      <4> QED BY <2>1, <4>1 DEF Live
    <3> QED BY <1>5, <3>2, <3>3, <3>4
  <2>3. CASE requests[1] = Remove(d)
    <3>1. Head(requests).op = "remove" /\ Head(requests).channel = d BY <1>2, <2>3 DEF Remove
    <3>2. c \in sessions /\ c # d BY <1>5, <3>1 DEF Serve
    <3>3. \A j \in DOMAIN requests : requests[j] # Remove(c) BY <1>2, <2>1, <2>3, <3>2, Distinct
    <3> QED BY <3>2, <3>3 DEF Live
  <2> QED BY <1>4, <2>2, <2>3
<1>6. ASSUME NEW i \in DOMAIN requests', requests'[i] = Add(c),
             \A j \in DOMAIN requests' : j > i => requests'[j] # Remove(c)
      PROVE  Live(c)
  <2>1. i + 1 \in DOMAIN requests /\ requests[i + 1] = Add(c) BY <1>2, <1>6
  <2>2. ASSUME NEW j \in DOMAIN requests, j > i + 1 PROVE requests[j] # Remove(c)
    <3>1. j - 1 \in DOMAIN requests' /\ j - 1 > i /\ requests'[j - 1] = requests[j]
      BY <1>2, <1>6, <2>2
    <3> QED BY <1>6, <3>1
  <2> QED BY <2>1, <2>2 DEF Live
<1> QED BY <1>3, <1>5, <1>6 DEF Live, Remove, Add

\* RemoveSession leaves nothing live, of what the module keeps track of.
LEMMA RemoveSilences ==
  ASSUME TypeOK, Tracked, ~disturbed, RemoveSession, sessions' = sessions
  PROVE  Silent'
<1>1. CASE currentChannel = None
  <2>1. requests' = requests BY <1>1 DEF RemoveSession
  <2>2. \A c \in Servers : Live(c)' => Live(c) BY <2>1 DEF Live, Remove, Add
  <2> QED BY <1>1, <2>2, VoiceAssumption DEF Tracked, Silent
<1>2. CASE currentChannel # None
  <2>1. requests' = Append(requests, Remove(currentChannel)) /\ currentChannel \in Servers
    BY <1>2 DEF RemoveSession, Remove, TypeOK, Channels
  <2>2. \A c \in Servers : Live(c)' => c # currentChannel /\ Live(c) BY <2>1, LiveRemove
  <2> QED BY <2>2 DEF Tracked, Silent
<1> QED BY <1>1, <1>2

\* Steps that add no session and leave the rest to one of the properties.
LEMMA LiveSame ==
  ASSUME requests' = requests, sessions' \subseteq sessions
  PROVE  \A c \in Servers : Live(c)' => Live(c)
BY DEF Live, Remove, Add

LEMMA InitKnown == Init => Known
<1> SUFFICES ASSUME Init PROVE Known OBVIOUS
<1>1. requests = <<>> /\ sessions = {} /\ game = "idle" /\ rpc = "idle" BY DEF Init
<1>2. Silent BY <1>1 DEF Silent, Live
<1>3. game \notin Servers BY <1>1, VoiceAssumption
<1> QED BY <1>1, <1>2, <1>3 DEF Known, Tracked, Obeyed, InPlace, Silent

LEMMA AddKnown == ASSUME TypeOK, Known, AddSession PROVE Known'
<1>1. /\ game \in Servers /\ currentChannel' = game /\ game' = "idle"
      /\ requests' = Append(requests, Add(game))
      /\ UNCHANGED <<sessions, rpc, isEnabled, phase, startup, serverName>>
  BY DEF AddSession, Add, client
<1>2. \A c \in Servers : Live(c)' => c = game \/ Live(c) BY <1>1, LiveAdd
<1>3. ASSUME ~disturbed'
      PROVE  ~disturbed /\ rpc = "idle" /\ currentChannel \in {None, game}
  BY <1>3 DEF AddSession
<1>4. ASSUME ~stray'
      PROVE  ~stray /\ phase # "menu" /\ ~startup /\ serverName = game
  BY <1>4 DEF AddSession
<1>5. ASSUME ~disturbed' PROVE \A c \in Servers : Live(c)' => c = game
  BY <1>2, <1>3, <1>5, VoiceAssumption DEF Known, Tracked
<1>6. Tracked' BY <1>1, <1>3, <1>5 DEF Tracked
<1>7. Obeyed' BY <1>1, <1>3 DEF Known, Obeyed
<1>8. InPlace' BY <1>1, <1>4, <1>5 DEF InPlace
<1> QED BY <1>6, <1>7, <1>8 DEF Known

\* An event that clears the channel of no live session, as an undisturbed one does.
LEMMA RemovedKnown == ASSUME TypeOK, Known, HandleSessionRemoved PROVE Known'
<1>1. /\ currentChannel' = None
      /\ UNCHANGED <<requests, sessions, game, rpc, isEnabled, phase, startup, serverName, stray>>
  BY DEF HandleSessionRemoved, client
<1>2. \A c \in Servers : Live(c)' => Live(c) BY <1>1, LiveSame
<1>3. ASSUME ~disturbed'
      PROVE  /\ ~disturbed /\ currentChannel \notin sessions
             /\ \A i \in DOMAIN requests : requests[i] # Add(currentChannel)
  BY <1>3 DEF HandleSessionRemoved, Add
<1>4. ASSUME ~disturbed' PROVE ~Live(currentChannel) BY <1>3, <1>4 DEF Live
<1>5. ASSUME ~disturbed' PROVE Silent' BY <1>2, <1>3, <1>4, <1>5 DEF Known, Tracked, Silent
<1>6. Tracked' BY <1>5 DEF Tracked, Silent
<1>7. Obeyed' BY <1>1, <1>3, <1>5 DEF Known, Obeyed
<1>8. InPlace' BY <1>5 DEF InPlace, Silent
<1> QED BY <1>6, <1>7, <1>8 DEF Known

LEMMA StartupKnown == ASSUME TypeOK, Known, Startup PROVE Known'
<1>1. /\ game = "idle" /\ game' \in {"idle", "clear"} /\ phase' = "menu"
      /\ UNCHANGED <<sessions, rpc, isEnabled, currentChannel, disturbed, stray>>
  BY DEF Startup, history
<1>2. game' \notin Servers BY <1>1, VoiceAssumption
<1>3. CASE phase = "menu"
  <2>1. requests' = requests /\ game' = "idle" BY <1>1, <1>3 DEF Startup
  <2>2. \A c \in Servers : Live(c)' => Live(c) BY <1>1, <2>1, LiveSame
  <2>3. Silent => Silent' BY <2>2 DEF Silent
  <2> QED BY <1>1, <1>2, <1>3, <2>1, <2>2, <2>3 DEF Known, Tracked, Obeyed, InPlace
<1>4. CASE phase # "menu"
  <2>1. RemoveSession BY <1>4 DEF Startup
  <2>2. ASSUME ~disturbed PROVE Silent' BY <1>1, <2>1, <2>2, RemoveSilences DEF Known
  <2> QED BY <1>1, <1>2, <2>2 DEF Known, Tracked, Obeyed, InPlace, Silent
<1> QED BY <1>3, <1>4

\* Disabling voice chat leaves the channel, and nobody is about to add a session.
LEMMA SettingsKnown == ASSUME TypeOK, Known, SettingsAct PROVE Known'
<1>1. /\ rpc = "act" /\ rpc' \in {"idle", "clear"}
      /\ UNCHANGED <<sessions, isEnabled, currentChannel, game, phase, startup, serverName, stray>>
  BY DEF SettingsAct, client
<1>2. ASSUME ~disturbed' PROVE ~disturbed /\ game \notin Servers BY <1>2 DEF SettingsAct
<1>3. CASE isEnabled
  <2>1. requests' = requests /\ rpc' = "idle" BY <1>3 DEF SettingsAct
  <2>2. \A c \in Servers : Live(c)' => Live(c) BY <1>1, <2>1, LiveSame
  <2>3. Silent => Silent' BY <2>2 DEF Silent
  <2> QED BY <1>1, <1>2, <1>3, <2>1, <2>2, <2>3 DEF Known, Tracked, Obeyed, InPlace
<1>4. CASE ~isEnabled
  <2>1. RemoveSession BY <1>4 DEF SettingsAct
  <2>2. ASSUME ~disturbed' PROVE Silent' BY <1>1, <1>2, <2>1, <2>2, RemoveSilences DEF Known
  <2> QED BY <1>1, <1>2, <2>2 DEF Known, Tracked, Obeyed, InPlace, Silent
<1> QED BY <1>3, <1>4

\* The channel is cleared after the request: nothing is live then.
LEMMA ClearKnown == ASSUME TypeOK, Known, GameClears \/ RpcClears PROVE Known'
<1>1. /\ UNCHANGED <<requests, sessions, isEnabled, phase, startup, serverName, disturbed, stray>>
      /\ currentChannel' = None
      /\ game = "clear" \/ rpc = "clear"
      /\ game' \in {game, "idle"} /\ rpc' \in {rpc, "idle"} /\ (rpc' # "act" => rpc # "act")
  BY DEF GameClears, RpcClears, client, vivox, history
<1>2. \A c \in Servers : Live(c)' => Live(c) BY <1>1, LiveSame
<1>3. Silent => Silent' BY <1>2 DEF Silent
<1>4. ASSUME ~disturbed PROVE Silent' BY <1>1, <1>3, <1>4 DEF Known, Tracked
<1>5. "idle" \notin Servers BY VoiceAssumption
<1> QED BY <1>1, <1>4, <1>5 DEF Known, Tracked, Obeyed, InPlace, Silent

\* A session is added only if voice chat was enabled when the API answered.
LEMMA AnswerKnown == ASSUME TypeOK, Known, JoinChannelAnswer PROVE Known'
<1>1. /\ UNCHANGED <<requests, sessions, isEnabled, currentChannel, rpc, phase, startup, serverName,
                     disturbed, stray>>
      /\ game = "idle" /\ (game' = "idle" \/ isEnabled)
  BY DEF JoinChannelAnswer, client, vivox, history
<1>2. game' # "clear"
  <2>1. PICK i \in 1..Len(calls), ok \in BOOLEAN : game' = IF ok /\ isEnabled THEN calls[i] ELSE "idle"
    BY DEF JoinChannelAnswer
  <2>2. calls[i] \in Servers BY DEF TypeOK
  <2> QED BY <2>1, <2>2, VoiceAssumption
<1>3. \A c \in Servers : Live(c)' => Live(c) BY <1>1, LiveSame
<1>4. Silent => Silent' BY <1>3 DEF Silent
<1>5. "idle" \notin Servers BY VoiceAssumption
<1> QED BY <1>1, <1>2, <1>3, <1>4, <1>5 DEF Known, Tracked, Obeyed, InPlace

\* The steps that only end sessions, or that have nothing to do with them.
LEMMA OtherKnown ==
  ASSUME TypeOK, Known, \A c \in Servers : Live(c)' => Live(c),
         UNCHANGED <<currentChannel, isEnabled, disturbed, stray>>,
         game' = game \/ game' \in {"idle", "mute"},
         rpc' = rpc \/ rpc' = "act",
         \/ UNCHANGED <<phase, startup, serverName>>
         \/ phase' = phase /\ startup'
         \/ phase = "menu" /\ phase' = "connected"
         \/ phase' # "menu" /\ phase # "menu" /\ UNCHANGED <<startup, serverName>>
  PROVE  Known'
<1>1. Silent => Silent' BY DEF Silent
<1>2. {"idle", "mute"} \cap Servers = {} BY VoiceAssumption
<1>3. Tracked' BY <1>1 DEF Known, Tracked
<1>4. Obeyed' BY <1>1, <1>2 DEF Known, Obeyed
<1>5. InPlace' BY <1>1 DEF Known, InPlace, Silent
<1> QED BY <1>3, <1>4, <1>5 DEF Known

LEMMA NextKnown == TypeOK /\ Known /\ [Next]_vars => Known'
<1> SUFFICES ASSUME TypeOK, Known, [Next]_vars PROVE Known' OBVIOUS
<1> USE DEF client, login, talk, vivox, history
<1>1. ASSUME requests' = requests, sessions' \subseteq sessions
      PROVE  \A c \in Servers : Live(c)' => Live(c)
  BY <1>1, LiveSame
<1>2. CASE RequestLogin \/ AccountLogin \/ VoipMuteCommand \/ FrameMutes \/ UNCHANGED vars
  BY <1>1, <1>2, OtherKnown DEF RequestLogin, AccountLogin, VoipMuteCommand, FrameMutes, vars
<1>3. ASSUME NEW s \in Servers, JoinServer(s) PROVE Known'
  BY <1>1, <1>3, OtherKnown DEF JoinServer
<1>4. CASE ConnectToAddress \/ HandleClientServerJoin \/ Ingame
  BY <1>1, <1>4, OtherKnown DEF ConnectToAddress, HandleClientServerJoin, Ingame
<1>5. ASSUME NEW on \in BOOLEAN, NEW ptt \in BOOLEAN, SetVoipSettings(on, ptt) PROVE Known'
  <2>1. /\ UNCHANGED <<requests, sessions, currentChannel, game, phase, startup, serverName, disturbed, stray>>
        /\ rpc' = "act"
    BY <1>5 DEF SetVoipSettings
  <2>2. \A c \in Servers : Live(c)' => Live(c) BY <1>1, <2>1
  <2>3. Silent => Silent' BY <2>2 DEF Silent
  <2> QED BY <2>1, <2>2, <2>3 DEF Known, Tracked, Obeyed, InPlace
<1>6. ASSUME NEW pressed \in BOOLEAN, SetPushToTalkPressed(pressed) PROVE Known'
  BY <1>1, <1>6, OtherKnown DEF SetPushToTalkPressed
<1>7. CASE Serve
  <2>1. \A c \in Servers : Live(c)' => Live(c) BY <1>7, LiveServe
  <2> QED BY <1>7, <2>1, OtherKnown DEF Serve
<1>8. ASSUME NEW c \in Servers, Drop(c) PROVE Known'
  BY <1>1, <1>8, OtherKnown DEF Drop
<1> QED BY <1>2, <1>3, <1>4, <1>5, <1>6, <1>7, <1>8, AddKnown, RemovedKnown, StartupKnown,
           SettingsKnown, ClearKnown, AnswerKnown DEF Next

LEMMA KnownInvariance == Spec => []Known
<1>1. IInv => TypeOK BY DEF IInv
<1> QED BY <1>1, Invariance, InitKnown, NextKnown, PTL DEF Spec

\* With nothing left to serve, the live channels are the sessions.
LEMMA QuietLive == ASSUME Quiet PROVE \A c \in sessions : Live(c)
BY DEF Quiet, Live

\* Every variable of the voice chat keeps its type, the flags the constructor leaves
\* uninitialised included.
THEOREM TypeCorrect == Spec => []TypeOK
<1>1. IInv => TypeOK BY DEF IInv
<1> QED BY <1>1, Invariance, PTL

\* With push to talk on and the key released the microphone is closed once nothing is in
\* progress, for any servers and however the settings and the key interleave, if the last mute
\* request was made after the Vivox login; one made before it is refused and leaves it open.
THEOREM MicClosedHolds == Spec => []MicClosed
<1>1. IInv => MicClosed BY DEF IInv, MicSeenTo, MicClosed, Quiet
<1> QED BY <1>1, Invariance, PTL

\* No session is ever lost track of, for any servers and any number of requests and events in
\* flight: each session that no later request ends is the one m_currentChannel names.
THEOREM NoLeakHolds == Spec => []NoLeak
<1>1. IInv /\ Known => NoLeak
  <2>1. SUFFICES ASSUME IInv, Known, Quiet, ~disturbed, NEW c \in sessions PROVE c = currentChannel
    BY DEF NoLeak
  <2>2. c \in Servers /\ Live(c) BY <2>1, QuietLive DEF IInv, TypeOK
  <2> QED BY <2>1, <2>2 DEF Known, Tracked
<1> QED BY <1>1, Invariance, KnownInvariance, PTL

\* Disabled voice chat is silent once the settings have been acted on, whichever API answers were
\* still on their way.
THEOREM DisabledIsSilentHolds == Spec => []DisabledIsSilent
<1>1. IInv /\ Known => DisabledIsSilent
  <2>1. SUFFICES ASSUME IInv, Known, Quiet, ~isEnabled, ~disturbed, NEW c \in sessions PROVE FALSE
    BY DEF DisabledIsSilent
  <2>2. c \in Servers /\ Live(c) BY <2>1, QuietLive DEF IInv, TypeOK
  <2> QED BY <2>1, <2>2 DEF Known, Obeyed, Silent, Quiet
<1> QED BY <1>1, Invariance, KnownInvariance, PTL

\* A player on a server is in that server's channel or in none, for any sequence of joins.
THEOREM RightServerHolds == Spec => []RightServer
<1>1. IInv /\ Known => RightServer
  <2>1. SUFFICES ASSUME IInv, Known, Quiet, phase # "menu", ~startup, ~disturbed, ~stray,
                        NEW c \in sessions
                 PROVE  c = serverName
    BY DEF RightServer
  <2>2. c \in Servers /\ Live(c) BY <2>1, QuietLive DEF IInv, TypeOK
  <2> QED BY <2>1, <2>2 DEF Known, InPlace
<1> QED BY <1>1, Invariance, KnownInvariance, PTL
=============================================================================
