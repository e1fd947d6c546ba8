--------------------------- MODULE Players_proofs ---------------------------
(***************************************************************************)
(* Proofs about Players, for any players, sessions and statistics.         *)
(***************************************************************************)
EXTENDS Players, FiniteSetTheorems, TLAPS

\* What a session may hold, or be about to hold, while its player is banned: the kick is still
\* to be handled, or has missed it.
BanKnown == \A s \in Sessions :
    pc[s] \in {"granted", "in"} /\ player[s] \in banned \ kicks => player[s] \in slipped

\* Two saves at once make their player unguarded.
SaveAlone == \A s, t \in Sessions :
    /\ s # t /\ player[s] = player[t]
    /\ save[s] \in {"sent", "checked"} /\ save[t] \in {"sent", "checked"}
    => player[s] \in unguarded

\* A session saves once, and only when it is over.
SavedOut == \A s \in Sessions : save[s] # "none" => pc[s] = "out"

\* What the check found is still so when the update is written.
StillEnough == \A s \in Sessions :
    save[s] = "checked" /\ player[s] \notin unguarded => Enough(payload[s], stored[player[s]])

\* The sessions of a player whose statistics are still to be read, and the ones that have them
\* in the engine or on the way to the database.
Asking(p) == {s \in Sessions : player[s] = p /\ load[s] = "asked" /\ pc[s] \in {"in", "leaving"}}
Owning(p) == {s \in Sessions : player[s] = p /\ load[s] \in {"read", "done"} /\ Unsaved(s)}

\* What a session that owns the statistics will save if nothing more is earned.
InHand(s, k) ==
    IF save[s] \in {"sent", "checked"} THEN Stat(payload[s], k)
    ELSE IF load[s] = "read" THEN Stat(loaded[s], k) + current[s][k]
    ELSE current[s][k]

\* What is saved or will be, and what was earned by a session that has yet to read the rest.
Base(p, k) == IF Owning(p) = {} THEN Stat(stored[p], k) ELSE InHand(CHOOSE s \in Owning(p) : TRUE, k)
Extra(p, k) == IF Asking(p) = {} THEN 0 ELSE current[CHOOSE s \in Asking(p) : TRUE][k]

\* How far a session is tells how far its calls are.
InStep == \A s \in Sessions :
    /\ pc[s] \in {"new", "auth", "granted", "denied"} =>
          load[s] = "none" /\ save[s] = "none" /\ current[s] = Reference
    /\ pc[s] \in {"in", "leaving"} => load[s] # "none" /\ save[s] = "none"
    /\ player[s] \notin lossy /\ load[s] \in {"asked", "read"} => pc[s] \in {"in", "leaving"}
    /\ player[s] \notin lossy /\ save[s] \in {"sent", "checked"} => load[s] = "done"

\* Two sessions that both have their statistics still to read cannot both be saved.
Alone(p) == \A s, t \in Asking(p) : s = t

\* One session at most owns a player's statistics, and with what was earned before another one
\* read them nothing is missing.
Kept(p) ==
    /\ \A s, t \in Owning(p) : s = t
    /\ Alone(p) => \A k \in Keys : earned[p][k] = Base(p, k) + Extra(p, k)

Accounts == \A p \in Players \ lossy : Kept(p)

\* No copy of a statistic is larger than what was earned; the engine has a value only for
\* statistics of the template.
NotInvented == \A s \in Sessions, k \in Keys :
    /\ current[s][k] <= earned[player[s]][k]
    /\ k \notin template[s] => current[s][k] = 0
    /\ Stat(loaded[s], k) <= earned[player[s]][k]
    /\ Stat(payload[s], k) <= earned[player[s]][k]
StoredEarned == \A p \in Players, k \in Keys : Stat(stored[p], k) <= earned[p][k]

IInv ==
    NotInvented /\ StoredEarned /\ TypeOK /\ BanKnown /\ SaveAlone /\ SavedOut /\ StillEnough /\ InStep /\ Accounts

-----------------------------------------------------------------------------

LEMMA MapsAre == \A m : m \in Maps <=> \E K \in SUBSET Keys : m \in [K -> 1..MaxProgress]
BY DEF Maps

LEMMA ReferenceType == Reference \in Values /\ NoStats \in Maps
<1>1. Reference \in Values BY PlayersAssumption DEF Reference, Values
<1>2. NoStats \in [{} -> 1..MaxProgress] BY DEF NoStats
<1> QED BY <1>1, <1>2, MapsAre

\* What SavePlayerStats sends is a map of statistics that are not at their reference.
LEMMA ExtractType == ASSUME TypeOK, NEW s \in Sessions PROVE ExtractPlayerStats(s) \in Maps
<1> DEFINE K == {i \in template[s] : current[s][i] # Reference[i]}
<1>0. template[s] \subseteq Keys BY PlayersAssumption DEF TypeOK
<1>1. current[s] \in [Keys -> 0..MaxProgress] BY DEF TypeOK, Values
<1>2. \A k \in K : current[s][k] \in 1..MaxProgress BY <1>0, <1>1, PlayersAssumption DEF Reference
<1>3. ExtractPlayerStats(s) \in [K -> 1..MaxProgress] BY <1>2 DEF ExtractPlayerStats
<1>4. K \in SUBSET Keys BY <1>0
<1> QED BY <1>3, <1>4, MapsAre

\* Loaded statistics fit into the engine's.
LEMMA AppliedType ==
    ASSUME TypeOK, NEW s \in Sessions, NEW places
    PROVE  [k \in Keys |-> IF k \in DOMAIN loaded[s] \cap places THEN loaded[s][k]
                                                              ELSE current[s][k]] \in Values
<1>1. PICK K \in SUBSET Keys : loaded[s] \in [K -> 1..MaxProgress] BY MapsAre DEF TypeOK
<1>2. current[s] \in [Keys -> 0..MaxProgress] BY DEF TypeOK, Values
<1>3. \A k \in Keys : (IF k \in DOMAIN loaded[s] \cap places THEN loaded[s][k] ELSE current[s][k])
                        \in 0..MaxProgress
  BY <1>1, <1>2, PlayersAssumption
<1> QED BY <1>3 DEF Values

LEMMA TypeStep == TypeOK /\ [Next]_vars => TypeOK'
<1> SUFFICES ASSUME TypeOK, [Next]_vars PROVE TypeOK' OBVIOUS
<1> USE DEF session, who, bans, loading, saving, history, Goto, TypeOK
<1>1. ASSUME NEW s \in Sessions, OnCreatePlayerMessage(s) PROVE TypeOK'
  BY <1>1 DEF OnCreatePlayerMessage
<1>2. ASSUME NEW s \in Sessions, ConsumeJoinToken(s) PROVE TypeOK'
  BY <1>2 DEF ConsumeJoinToken
<1>3. ASSUME NEW s \in Sessions, JoinAnswer(s) PROVE TypeOK'
  BY <1>3 DEF JoinAnswer
<1>4. ASSUME NEW s \in Sessions, Abandon(s) PROVE TypeOK'
  BY <1>4 DEF Abandon
<1>5. ASSUME NEW s \in Sessions, GetStats(s) PROVE TypeOK'
  BY <1>5 DEF GetStats
<1>6. ASSUME NEW s \in Sessions, ApplyPlayerStats(s) PROVE TypeOK'
  <2>1. \A places : [k \in Keys |-> IF k \in DOMAIN loaded[s] \cap places THEN loaded[s][k]
                                                              ELSE current[s][k]] \in Values
    BY AppliedType
  <2>a. PICK places : \/ current' = [current EXCEPT ![s] =
                           [k \in Keys |-> IF k \in DOMAIN loaded[s] \cap places THEN loaded[s][k]
                                                                         ELSE current[s][k]]]
                      \/ current' = current
    BY <1>6 DEF ApplyPlayerStats
  <2>2. current' \in [Sessions -> Values] BY <2>1, <2>a
  <2>3. loaded' \in [Sessions -> Maps] BY <1>6, ReferenceType DEF ApplyPlayerStats
  <2>4. lossy' \subseteq Players BY <1>6 DEF ApplyPlayerStats
  <2> QED BY <1>6, <2>2, <2>3, <2>4 DEF ApplyPlayerStats
<1>7. ASSUME NEW s \in Sessions, NEW k \in Keys, Play(s, k) PROVE TypeOK'
  <2>1. current' \in [Sessions -> Values] BY <1>7, PlayersAssumption DEF Play, Values
  <2>2. earned' \in [Players -> Values] BY <1>7, PlayersAssumption DEF Play, Values
  <2> QED BY <1>7, <2>1, <2>2 DEF Play
<1>8. ASSUME NEW s \in Sessions, Disconnect(s) PROVE TypeOK'
  BY <1>8, ExtractType, ReferenceType DEF Disconnect
<1>9. ASSUME NEW s \in Sessions, UpdateStatsCheck(s) PROVE TypeOK'
  BY <1>9, ReferenceType DEF UpdateStatsCheck
<1>10. ASSUME NEW s \in Sessions, Upsert(s) PROVE TypeOK'
  BY <1>10, ReferenceType DEF Upsert
<1>11. CASE Crash
  <2>1. {player[s] : s \in {t \in Sessions : pc[t] \in {"in", "leaving"}}} \subseteq Players OBVIOUS
  <2> QED BY <1>11, <2>1, ReferenceType DEF Crash
<1>12. ASSUME NEW p \in Players, BanPlayer(p) PROVE TypeOK'
  BY <1>12 DEF BanPlayer
<1>13. ASSUME NEW p \in Players, ProcessReceivedEvent(p) PROVE TypeOK'
  BY <1>13 DEF ProcessReceivedEvent
<1>14. CASE UNCHANGED vars BY <1>14 DEF vars
<1> HIDE DEF TypeOK
<1> QED BY <1>1, <1>2, <1>3, <1>4, <1>5, <1>6, <1>7, <1>8, <1>9, <1>10, <1>11, <1>12, <1>13, <1>14
        DEF Next

\* Every step keeps BanKnown: a grant is given to nobody banned, and the handler of the event
\* notes the sessions it leaves behind.
LEMMA BanStep == ASSUME TypeOK, BanKnown, [Next]_vars PROVE BanKnown'
<1> USE DEF session, who, bans, loading, saving, history, Goto, TypeOK, BanKnown
<1>1. ASSUME NEW s \in Sessions, OnCreatePlayerMessage(s) PROVE BanKnown'
  BY <1>1 DEF OnCreatePlayerMessage
<1>2. ASSUME NEW s \in Sessions, ConsumeJoinToken(s) PROVE BanKnown'
  BY <1>2 DEF ConsumeJoinToken
<1>3. ASSUME NEW s \in Sessions, JoinAnswer(s) PROVE BanKnown'
  BY <1>3 DEF JoinAnswer
<1>4. ASSUME NEW s \in Sessions, Abandon(s) PROVE BanKnown'
  BY <1>4 DEF Abandon
<1>5. ASSUME NEW s \in Sessions,
             \/ GetStats(s) \/ ApplyPlayerStats(s) \/ UpdateStatsCheck(s) \/ Upsert(s)
             \/ \E k \in Keys : Play(s, k)
      PROVE  BanKnown'
  <2>1. UNCHANGED <<pc, player, banned, kicks, slipped>>
    BY <1>5 DEF GetStats, ApplyPlayerStats, UpdateStatsCheck, Upsert, Play
  <2> QED BY <2>1
<1>6. ASSUME NEW s \in Sessions, Disconnect(s) PROVE BanKnown'
  BY <1>6 DEF Disconnect
<1>7. CASE Crash BY <1>7 DEF Crash
<1>8. ASSUME NEW p \in Players, BanPlayer(p) PROVE BanKnown'
  BY <1>8 DEF BanPlayer
<1>9. ASSUME NEW p \in Players, ProcessReceivedEvent(p) PROVE BanKnown'
  <2>1. /\ UNCHANGED <<player, banned>> /\ kicks' = kicks \ {p} /\ slipped \subseteq slipped'
        /\ \A s \in Sessions : player[s] = p /\ pc'[s] \in {"granted", "in"} => p \in slipped'
    BY <1>9 DEF ProcessReceivedEvent
  <2>2. \A s \in Sessions : pc'[s] \in {"granted", "in"} => pc[s] \in {"granted", "in"}
    BY <1>9 DEF ProcessReceivedEvent
  <2> QED BY <2>1, <2>2
<1>10. CASE UNCHANGED vars BY <1>10 DEF vars
<1> HIDE DEF TypeOK, BanKnown
<1> QED BY <1>1, <1>2, <1>3, <1>4, <1>5, <1>6, <1>7, <1>8, <1>9, <1>10 DEF Next

-----------------------------------------------------------------------------
\* The sets of statistics are finite, so their sizes compare.
LEMMA EnoughReflexive == ASSUME NEW m \in Maps PROVE Enough(m, m)
<1>1. DOMAIN m \subseteq Keys BY MapsAre
<1>2. IsFiniteSet(DOMAIN m) BY <1>1, FS_Subset, PlayersAssumption
<1>3. Cardinality(DOMAIN m) \in Nat BY <1>2, FS_CardinalityType
<1> QED BY <1>3 DEF Enough

\* Steps that leave saves and what is stored alone.
SavesKept == UNCHANGED <<player, save, payload, stored, unguarded>>

\* Every step keeps the invariants of the saves.
LEMMA SaveStep ==
    ASSUME TypeOK, SaveAlone, SavedOut, StillEnough, [Next]_vars
    PROVE  SaveAlone' /\ SavedOut' /\ StillEnough'
<1> DEFINE Goal == SaveAlone' /\ SavedOut' /\ StillEnough'
<1> USE DEF session, who, bans, loading, saving, history, Goto
<1>a. ASSUME SavesKept, \A s \in Sessions : pc[s] = "out" => pc'[s] = "out" PROVE Goal
  BY <1>a DEF SavesKept, SaveAlone, SavedOut, StillEnough, Enough
<1>1. ASSUME NEW s \in Sessions,
             \/ OnCreatePlayerMessage(s) \/ ConsumeJoinToken(s) \/ JoinAnswer(s) \/ Abandon(s)
             \/ GetStats(s) \/ ApplyPlayerStats(s) \/ \E k \in Keys : Play(s, k)
      PROVE  Goal
  <2>1. SavesKept
    BY <1>1 DEF OnCreatePlayerMessage, ConsumeJoinToken, JoinAnswer, Abandon, GetStats,
                ApplyPlayerStats, Play, SavesKept
  <2>2. \A t \in Sessions : pc[t] = "out" => pc'[t] = "out"
    BY <1>1 DEF OnCreatePlayerMessage, ConsumeJoinToken, JoinAnswer, Abandon, GetStats,
                ApplyPlayerStats, Play, TypeOK
  <2> QED BY <2>1, <2>2, <1>a
<1>2. ASSUME NEW s \in Sessions, Disconnect(s) PROVE Goal
  <2>1. /\ UNCHANGED <<player, stored>> /\ pc' = [pc EXCEPT ![s] = "out"]
        /\ save' = [save EXCEPT ![s] = "sent"] /\ unguarded \subseteq unguarded'
        /\ \A t \in Sessions \ {s} : payload'[t] = payload[t]
    BY <1>2 DEF Disconnect, TypeOK
  <2>2. \A t \in Sessions \ {s} :
          player[t] = player[s] /\ save[t] \in {"sent", "checked"} => player[s] \in unguarded'
    BY <1>2 DEF Disconnect, OthersOf
  <2>3. /\ \A t \in Sessions \ {s} : save'[t] = save[t] /\ pc'[t] = pc[t]
        /\ save'[s] = "sent" /\ pc'[s] = "out"
    BY <2>1 DEF TypeOK
  <2>4. SaveAlone' BY <2>1, <2>2, <2>3 DEF SaveAlone
  <2>5. SavedOut' BY <2>3 DEF SavedOut
  <2>6. StillEnough' BY <2>1, <2>3 DEF StillEnough, Enough
  <2> QED BY <2>4, <2>5, <2>6
<1>3. ASSUME NEW s \in Sessions, UpdateStatsCheck(s) PROVE Goal
  <2>1. /\ UNCHANGED <<player, stored, pc>> /\ unguarded \subseteq unguarded'
        /\ \A t \in Sessions \ {s} : save'[t] = save[t] /\ payload'[t] = payload[t]
        /\ save[s] = "sent" /\ (save'[s] = "checked" => payload'[s] = payload[s])
    BY <1>3 DEF UpdateStatsCheck, TypeOK
  <2>2. save'[s] = "checked" => Enough(payload[s], stored[player[s]]) \/ player[s] \in unguarded'
    BY <1>3 DEF UpdateStatsCheck, TypeOK
  <2>3. SaveAlone' BY <2>1 DEF SaveAlone
  <2>4. SavedOut' BY <2>1 DEF SavedOut
  <2>5. StillEnough' BY <2>1, <2>2 DEF StillEnough, Enough
  <2> QED BY <2>3, <2>4, <2>5
<1>4. ASSUME NEW s \in Sessions, Upsert(s) PROVE Goal
  <2>1. /\ UNCHANGED <<player, pc, unguarded>> /\ save[s] = "checked" /\ save'[s] = "done"
        /\ \A t \in Sessions \ {s} : save'[t] = save[t] /\ payload'[t] = payload[t]
        /\ \A p \in Players \ {player[s]} : stored'[p] = stored[p]
        /\ player \in [Sessions -> Players]
    BY <1>4 DEF Upsert, TypeOK
  <2>2. SaveAlone' BY <2>1 DEF SaveAlone
  <2>3. SavedOut' BY <2>1 DEF SavedOut
  <2>4. ASSUME NEW t \in Sessions, save'[t] = "checked", player'[t] \notin unguarded'
        PROVE  Enough(payload'[t], stored'[player'[t]])
    <3>1. t # s /\ save[t] = "checked" /\ player[t] \notin unguarded BY <2>1, <2>4
    <3>2. player[t] # player[s] BY <2>1, <3>1 DEF SaveAlone
    <3>3. stored'[player[t]] = stored[player[t]] BY <2>1, <3>2
    <3> QED BY <2>1, <3>1, <3>3 DEF StillEnough
  <2>5. StillEnough' BY <2>4 DEF StillEnough, Enough
  <2> QED BY <2>2, <2>3, <2>5
<1>5. CASE Crash
  BY <1>5, <1>a DEF Crash, SavesKept, TypeOK
<1>6. ASSUME NEW p \in Players, BanPlayer(p) \/ ProcessReceivedEvent(p) PROVE Goal
  <2>1. SavesKept BY <1>6 DEF BanPlayer, ProcessReceivedEvent, SavesKept
  <2>2. \A t \in Sessions : pc[t] = "out" => pc'[t] = "out"
    BY <1>6 DEF BanPlayer, ProcessReceivedEvent, TypeOK
  <2> QED BY <2>1, <2>2, <1>a
<1>7. CASE UNCHANGED vars BY <1>7, <1>a DEF vars, SavesKept
<1> QED BY <1>1, <1>2, <1>3, <1>4, <1>5, <1>6, <1>7 DEF Next

-----------------------------------------------------------------------------
(* What a player has earned, from the engine to the database. *)

LEMMA ChooseOne == ASSUME NEW x PROVE (CHOOSE y \in {x} : TRUE) = x
OBVIOUS

LEMMA StatType == ASSUME NEW m \in Maps, NEW k \in Keys PROVE Stat(m, k) \in Nat
<1>1. PICK K \in SUBSET Keys : m \in [K -> 1..MaxProgress] BY MapsAre
<1> QED BY <1>1, PlayersAssumption DEF Stat

LEMMA CurrentNat == ASSUME TypeOK, NEW s \in Sessions, NEW k \in Keys PROVE current[s][k] \in Nat
BY PlayersAssumption DEF TypeOK, Values

\* What is sent to the database says the same of every statistic as the engine.
LEMMA ExtractSays ==
  ASSUME TypeOK, NotInvented, NEW s \in Sessions, NEW k \in Keys
  PROVE  Stat(ExtractPlayerStats(s), k) = current[s][k]
<1>1. current[s][k] \in Nat BY CurrentNat
<1>2. Reference[k] = 0 BY DEF Reference
<1>3. k \notin template[s] => current[s][k] = 0 BY DEF NotInvented
<1> QED BY <1>1, <1>2, <1>3 DEF Stat, ExtractPlayerStats

\* Of a step that leaves the sessions that own, or ask for, a player's statistics as they are.
LEMMA BaseSame ==
  ASSUME NEW p \in Players, Owning(p)' = Owning(p), stored'[p] = stored[p],
         \A s \in Owning(p), k \in Keys : InHand(s, k)' = InHand(s, k)
  PROVE  \A k \in Keys : Base(p, k)' = Base(p, k)
<1>1. CASE Owning(p) = {} BY <1>1 DEF Base, Stat
<1>2. CASE Owning(p) # {}
  <2>1. (CHOOSE s \in Owning(p) : TRUE) \in Owning(p) BY <1>2
  <2> QED BY <1>2, <2>1 DEF Base
<1> QED BY <1>1, <1>2

LEMMA ExtraSame ==
  ASSUME NEW p \in Players, Asking(p)' = Asking(p),
         \A s \in Asking(p) : current'[s] = current[s]
  PROVE  \A k \in Keys : Extra(p, k)' = Extra(p, k)
<1>1. CASE Asking(p) = {} BY <1>1 DEF Extra
<1>2. CASE Asking(p) # {}
  <2>1. (CHOOSE s \in Asking(p) : TRUE) \in Asking(p) BY <1>2
  <2> QED BY <1>2, <2>1 DEF Extra
<1> QED BY <1>1, <1>2

LEMMA InHandNat ==
  ASSUME TypeOK, NEW s \in Sessions, NEW k \in Keys PROVE InHand(s, k) \in Nat
<1>1. /\ Stat(payload[s], k) \in Nat /\ Stat(loaded[s], k) \in Nat /\ current[s][k] \in Nat
  BY StatType, CurrentNat DEF TypeOK
<1> QED BY <1>1 DEF InHand

LEMMA BaseNat ==
  ASSUME TypeOK, NEW p \in Players, NEW k \in Keys PROVE Base(p, k) \in Nat
<1>1. Stat(stored[p], k) \in Nat BY StatType DEF TypeOK
<1>2. ASSUME Owning(p) # {} PROVE (CHOOSE s \in Owning(p) : TRUE) \in Sessions
  BY <1>2 DEF Owning
<1> QED BY <1>1, <1>2, InHandNat DEF Base

LEMMA ExtraNat == ASSUME TypeOK, NEW p, NEW k \in Keys PROVE Extra(p, k) \in Nat
<1>1. ASSUME Asking(p) # {} PROVE (CHOOSE s \in Asking(p) : TRUE) \in Sessions
  BY <1>1 DEF Asking
<1> QED BY <1>1, CurrentNat DEF Extra

\* A step that does not touch the calls and statistics of a player's sessions.
Untouched(p) ==
    /\ player' = player /\ stored'[p] = stored[p] /\ earned'[p] = earned[p]
    /\ \A s \in Sessions : player[s] = p =>
          /\ load'[s] = load[s]
          /\ pc[s] \in {"in", "leaving"} => loaded'[s] = loaded[s] /\ current'[s] = current[s]
          /\ save'[s] = save[s] /\ payload'[s] = payload[s]
          /\ pc'[s] \in {"in", "leaving"} <=> pc[s] \in {"in", "leaving"}

LEMMA UntouchedKept == ASSUME NEW p \in Players, Untouched(p), Kept(p) PROVE Kept(p)'
<1>1. Owning(p)' = Owning(p) BY DEF Owning, Untouched, Unsaved
<1>2. Asking(p)' = Asking(p) BY DEF Asking, Untouched
<1>3. ASSUME NEW s \in Owning(p), NEW k \in Keys PROVE InHand(s, k)' = InHand(s, k)
  <2>1. /\ save'[s] = save[s] /\ payload'[s] = payload[s] /\ load'[s] = load[s]
        /\ pc[s] \in {"in", "leaving"} => loaded'[s] = loaded[s] /\ current'[s] = current[s]
    BY DEF Owning, Untouched
  <2>2. CASE save[s] \in {"sent", "checked"} BY <2>1, <2>2 DEF InHand, Stat
  <2>3. CASE save[s] \notin {"sent", "checked"}
    <3>1. pc[s] \in {"in", "leaving"} BY <2>3 DEF Owning, Unsaved
    <3> QED BY <2>1, <2>3, <3>1 DEF InHand, Stat
  <2> QED BY <2>2, <2>3
<1>4. \A s \in Asking(p) : current'[s] = current[s] BY DEF Asking, Untouched
<1>5. \A k \in Keys : Base(p, k)' = Base(p, k) BY <1>1, <1>3, BaseSame DEF Untouched
<1>6. \A k \in Keys : Extra(p, k)' = Extra(p, k) BY <1>2, <1>4, ExtraSame
<1> QED BY <1>1, <1>2, <1>5, <1>6 DEF Kept, Alone, Untouched

\* Only the player of the session a step is about is affected.
LEMMA OthersKept ==
  ASSUME TypeOK, Accounts, lossy \subseteq lossy', player' = player, NEW s \in Sessions,
         Kept(player[s])' \/ player[s] \in lossy',
         \A p \in Players : p # player[s] => Untouched(p)
  PROVE  Accounts'
BY UntouchedKept DEF Accounts

LEMMA InStepStep == ASSUME TypeOK, SavedOut, InStep, [Next]_vars PROVE InStep'
<1> USE DEF session, who, bans, loading, saving, history, Goto, TypeOK, InStep
<1>1. ASSUME NEW s \in Sessions,
             OnCreatePlayerMessage(s) \/ ConsumeJoinToken(s) \/ JoinAnswer(s) \/ Abandon(s)
      PROVE  InStep'
  BY <1>1 DEF OnCreatePlayerMessage, ConsumeJoinToken, JoinAnswer, Abandon
<1>2. ASSUME NEW s \in Sessions, GetStats(s) PROVE InStep' BY <1>2 DEF GetStats
<1>3. ASSUME NEW s \in Sessions, ApplyPlayerStats(s) PROVE InStep' BY <1>3 DEF ApplyPlayerStats
<1>4. ASSUME NEW s \in Sessions, NEW k \in Keys, Play(s, k) PROVE InStep' BY <1>4 DEF Play
<1>5. ASSUME NEW s \in Sessions, Disconnect(s) PROVE InStep' BY <1>5 DEF Disconnect
<1>6. ASSUME NEW s \in Sessions, UpdateStatsCheck(s) PROVE InStep'
  BY <1>6 DEF UpdateStatsCheck, SavedOut
<1>7. ASSUME NEW s \in Sessions, Upsert(s) PROVE InStep' BY <1>7 DEF Upsert, SavedOut
<1>8. CASE Crash BY <1>8 DEF Crash
<1>9. ASSUME NEW p \in Players, BanPlayer(p) \/ ProcessReceivedEvent(p) PROVE InStep'
  BY <1>9 DEF BanPlayer, ProcessReceivedEvent
<1>10. CASE UNCHANGED vars BY <1>10 DEF vars
<1> HIDE DEF TypeOK, InStep
<1> QED BY <1>1, <1>2, <1>3, <1>4, <1>5, <1>6, <1>7, <1>8, <1>9, <1>10 DEF Next

Sound == NotInvented /\ TypeOK /\ SavedOut /\ InStep /\ Accounts

\* A session that joins has earned nothing yet.
LEMMA JoinAccounts == ASSUME Sound, NEW s \in Sessions, JoinAnswer(s) PROVE Accounts'
<1> DEFINE p == player[s]
<1>0. p \in Players BY DEF Sound, TypeOK
<1>1. CASE pc[s] = "granted"
  <2>1. /\ pc' = [pc EXCEPT ![s] = "in"] /\ load' = [load EXCEPT ![s] = "asked"]
        /\ UNCHANGED <<player, loaded, current, save, payload, stored, earned, lossy>>
    BY <1>1 DEF JoinAnswer, Goto, who, saving, history
  <2>2. load[s] = "none" /\ save[s] = "none" /\ current[s] = Reference
    BY <1>1 DEF Sound, InStep
  <2>3. /\ pc'[s] = "in" /\ load'[s] = "asked"
        /\ \A t \in Sessions \ {s} : pc'[t] = pc[t] /\ load'[t] = load[t]
    BY <2>1 DEF Sound, TypeOK
  <2>4. Owning(p)' = Owning(p) BY <1>1, <2>1, <2>2, <2>3 DEF Owning, Unsaved
  <2>5. Asking(p)' = Asking(p) \cup {s} /\ s \notin Asking(p)
    BY <1>1, <2>1, <2>2, <2>3 DEF Asking
  <2>6. \A t \in Owning(p), k \in Keys : InHand(t, k)' = InHand(t, k)
    BY <2>1, <2>2, <2>3 DEF Owning, InHand, Stat
  <2>7. \A k \in Keys : Base(p, k)' = Base(p, k) BY <1>0, <2>1, <2>4, <2>6, BaseSame
  <2>8. ASSUME p \notin lossy PROVE Kept(p)'
    <3>1. Kept(p) BY <1>0, <2>8 DEF Sound, Accounts
    <3>2. ASSUME Alone(p)', NEW k \in Keys PROVE earned'[p][k] = Base(p, k)' + Extra(p, k)'
      <4>1. Asking(p) = {} BY <2>5, <3>2 DEF Alone
      <4>2. Extra(p, k) = 0 BY <4>1 DEF Extra
      <4>3. Asking(p)' = {s} BY <2>5, <4>1
      <4>4. Extra(p, k)' = current[s][k] BY <2>1, <4>3, ChooseOne DEF Extra
      <4>5. current[s][k] = 0 BY <2>2 DEF Reference
      <4>6. earned[p][k] = Base(p, k) + Extra(p, k) BY <3>1, <4>1 DEF Kept, Alone
      <4> QED BY <2>1, <2>7, <4>2, <4>4, <4>5, <4>6
    <3> QED BY <2>1, <2>4, <3>1, <3>2 DEF Kept
  <2>9. \A q \in Players : q # p => Untouched(q) BY <2>1, <2>3 DEF Untouched
  <2> QED BY <2>1, <2>8, <2>9, OthersKept DEF Sound
<1>2. CASE pc[s] = "denied"
  <2>1. /\ pc' = [pc EXCEPT ![s] = "out"]
        /\ UNCHANGED <<player, load, loaded, current, save, payload, stored, earned, lossy>>
    BY <1>2 DEF JoinAnswer, Goto, who, loading, saving, history
  <2>2. \A q \in Players : Untouched(q) BY <1>2, <2>1 DEF Untouched, Sound, TypeOK
  <2> QED BY <2>1, <2>2, UntouchedKept DEF Sound, Accounts
<1> QED BY <1>1, <1>2 DEF JoinAnswer

\* What is earned is added to the session's statistics, wherever they are.
LEMMA PlayAccounts == ASSUME Sound, NEW s \in Sessions, NEW i \in Keys, Play(s, i) PROVE Accounts'
<1> DEFINE p == player[s]
<1>0. p \in Players BY DEF Sound, TypeOK
<1>1. /\ pc[s] = "in" /\ current' = [current EXCEPT ![s][i] = @ + 1]
      /\ earned' = [earned EXCEPT ![p][i] = @ + 1]
      /\ UNCHANGED <<player, pc, load, loaded, save, payload, stored, lossy>>
  BY DEF Play, session, who, loading, saving
<1>2. load[s] \in {"asked", "read", "done"} /\ save[s] = "none"
  BY <1>1 DEF Sound, InStep, TypeOK
<1>3. /\ \A t \in Sessions \ {s} : current'[t] = current[t]
      /\ \A k \in Keys : current'[s][k] = IF k = i THEN current[s][k] + 1 ELSE current[s][k]
      /\ \A k \in Keys : earned'[p][k] = IF k = i THEN earned[p][k] + 1 ELSE earned[p][k]
      /\ \A q \in Players \ {p} : earned'[q] = earned[q]
  BY <1>0, <1>1 DEF Sound, TypeOK, Values
<1>4. Owning(p)' = Owning(p) BY <1>1 DEF Owning, Unsaved
<1>5. Asking(p)' = Asking(p) BY <1>1 DEF Asking
<1>6. ASSUME p \notin lossy PROVE Kept(p)'
  <2>1. Kept(p) BY <1>0, <1>6 DEF Sound, Accounts
  <2>2. SUFFICES ASSUME Alone(p), NEW k \in Keys
                 PROVE  earned'[p][k] = Base(p, k)' + Extra(p, k)'
    BY <1>1, <1>4, <1>5, <2>1 DEF Kept, Alone
  <2>3. earned[p][k] = Base(p, k) + Extra(p, k) BY <2>1, <2>2 DEF Kept
  <2>4. current[s][k] \in Nat BY CurrentNat DEF Sound
  <2>5. CASE load[s] = "asked"
    <3>1. s \in Asking(p) /\ s \notin Owning(p) BY <1>1, <2>5 DEF Asking, Owning
    <3>2. Asking(p) = {s} BY <2>2, <3>1 DEF Alone
    <3>3. Extra(p, k) = current[s][k] BY <3>2, ChooseOne DEF Extra
    <3>4. Extra(p, k)' = current'[s][k] BY <1>5, <3>2, ChooseOne DEF Extra
    <3>5. \A t \in Owning(p), m \in Keys : InHand(t, m)' = InHand(t, m)
      BY <1>1, <1>3, <3>1 DEF Owning, InHand, Stat
    <3>6. Base(p, k)' = Base(p, k) BY <1>0, <1>1, <1>4, <3>5, BaseSame
    <3>7. Base(p, k) \in Nat BY <1>0, BaseNat DEF Sound
    <3> QED BY <1>3, <2>3, <2>4, <3>3, <3>4, <3>6, <3>7
  <2>6. CASE load[s] # "asked"
    <3>1. s \notin Asking(p) /\ s \in Owning(p) BY <1>1, <1>2, <2>6 DEF Asking, Owning, Unsaved
    <3>2. Owning(p) = {s} BY <2>1, <3>1 DEF Kept
    <3>3. Base(p, k) = InHand(s, k) BY <3>2, ChooseOne DEF Base
    <3>4. Base(p, k)' = InHand(s, k)' BY <1>4, <3>2, ChooseOne DEF Base
    <3>5. Stat(loaded[s], k) \in Nat BY StatType DEF Sound, TypeOK
    <3>6. InHand(s, k)' = IF k = i THEN InHand(s, k) + 1 ELSE InHand(s, k)
      <4>1. Stat(loaded[s], k)' = Stat(loaded[s], k) BY <1>1 DEF Stat
      <4> QED BY <1>1, <1>2, <1>3, <2>4, <3>5, <4>1 DEF InHand
    <3>7. \A t \in Asking(p) : current'[t] = current[t] BY <1>3, <3>1 DEF Asking
    <3>8. Extra(p, k)' = Extra(p, k) BY <1>0, <1>1, <1>5, <3>7, ExtraSame
    <3>9. Extra(p, k) \in Nat BY ExtraNat DEF Sound
    <3>10. InHand(s, k) \in Nat BY <1>2, <2>4, <3>5 DEF InHand
    <3> QED BY <1>3, <2>3, <3>3, <3>4, <3>6, <3>8, <3>9, <3>10
  <2> QED BY <2>5, <2>6
<1>7. \A q \in Players : q # p => Untouched(q) BY <1>1, <1>3 DEF Untouched
<1> QED BY <1>1, <1>6, <1>7, OthersKept DEF Sound

\* Statistics that are read while no other session has them pass to the session.
LEMMA GetAccounts == ASSUME Sound, NEW s \in Sessions, GetStats(s) PROVE Accounts'
<1> DEFINE p == player[s]
<1>0. p \in Players BY DEF Sound, TypeOK
<1>1. /\ load[s] = "asked" /\ load' = [load EXCEPT ![s] = "read"] /\ lossy \subseteq lossy'
      /\ UNCHANGED <<player, pc, current, save, payload, stored, earned>>
  BY DEF GetStats, session, who, saving
<1>2. /\ load'[s] = "read"
      /\ \A t \in Sessions \ {s} : load'[t] = load[t] /\ loaded'[t] = loaded[t]
  BY <1>1 DEF GetStats, Sound, TypeOK
<1>3. ASSUME p \notin lossy' PROVE Kept(p)'
  <2>1. loaded'[s] = stored[p] /\ \A t \in OthersOf(s) : ~Unsaved(t)
    BY <1>0, <1>3 DEF GetStats, Sound, TypeOK
  <2>2. \A t \in Sessions \ {s} : player[t] = p =>
           pc[t] \notin {"in", "leaving"} /\ save[t] \notin {"sent", "checked"}
    BY <2>1 DEF OthersOf, Unsaved
  <2>3. p \notin lossy BY <1>1, <1>3
  <2>4. pc[s] \in {"in", "leaving"} /\ save[s] = "none" BY <1>1, <2>3 DEF Sound, InStep
  <2>5. Owning(p) = {} /\ Asking(p) = {s} BY <1>1, <2>2, <2>4 DEF Owning, Asking, Unsaved
  <2>6. Owning(p)' = {s} /\ Asking(p)' = {} BY <1>1, <1>2, <2>2, <2>4 DEF Owning, Asking, Unsaved
  <2>7. ASSUME NEW k \in Keys PROVE earned'[p][k] = Base(p, k)' + Extra(p, k)'
    <3>1. Base(p, k) = Stat(stored[p], k) /\ Extra(p, k) = current[s][k]
      BY <2>5, ChooseOne DEF Base, Extra
    <3>2. Base(p, k)' = InHand(s, k)' /\ Extra(p, k)' = 0 BY <2>6, ChooseOne DEF Base, Extra
    <3>3. InHand(s, k)' = Stat(stored[p], k) + current[s][k]
      BY <1>1, <1>2, <2>1, <2>4 DEF InHand, Stat
    <3>4. Stat(stored[p], k) \in Nat /\ current[s][k] \in Nat
      BY <1>0, StatType, CurrentNat DEF Sound, TypeOK
    <3>5. earned[p][k] = Base(p, k) + Extra(p, k)
      BY <1>0, <2>3, <2>5 DEF Sound, Accounts, Kept, Alone
    <3> QED BY <1>1, <3>1, <3>2, <3>3, <3>4, <3>5
  <2> QED BY <1>1, <2>6, <2>7 DEF Kept
<1>4. \A q \in Players : q # p => Untouched(q) BY <1>1, <1>2 DEF Untouched
<1> QED BY <1>1, <1>3, <1>4, OthersKept DEF Sound

\* What the session has and what it will save stay the same while the statistics move on: they
\* are applied, extracted and checked.
LEMMA MoveAccounts ==
  ASSUME Sound, NEW s \in Sessions, lossy \subseteq lossy',
         UNCHANGED <<player, stored, earned>>,
         player[s] \in lossy' \/
            /\ s \in Owning(player[s]) /\ s \in Owning(player[s])' /\ s \notin Asking(player[s])'
            /\ \A k \in Keys : InHand(s, k)' = InHand(s, k),
         \A t \in Sessions \ {s} :
            /\ load'[t] = load[t] /\ loaded'[t] = loaded[t] /\ current'[t] = current[t]
            /\ save'[t] = save[t] /\ payload'[t] = payload[t] /\ pc'[t] = pc[t]
  PROVE  Accounts'
<1> DEFINE p == player[s]
<1>0. p \in Players BY DEF Sound, TypeOK
<1>1. ASSUME p \notin lossy' PROVE Kept(p)'
  <2>1. Kept(p) BY <1>0, <1>1 DEF Sound, Accounts
  <2>2. s \in Owning(p) /\ s \notin Asking(p) BY <1>1 DEF Owning, Asking
  <2>3. Owning(p)' = Owning(p) BY <1>1, <2>2 DEF Owning, Unsaved
  <2>4. Asking(p)' = Asking(p) BY <1>1, <2>2 DEF Asking
  <2>5. Owning(p) = {s} BY <2>1, <2>2 DEF Kept
  <2>6. \A k \in Keys : Base(p, k)' = Base(p, k) BY <1>0, <1>1, <2>3, <2>5, BaseSame
  <2>7. \A t \in Asking(p) : current'[t] = current[t] BY <2>2 DEF Asking
  <2>8. \A k \in Keys : Extra(p, k)' = Extra(p, k) BY <1>0, <2>4, <2>7, ExtraSame
  <2> QED BY <2>1, <2>3, <2>4, <2>6, <2>8 DEF Kept, Alone
<1>2. \A q \in Players : q # p => Untouched(q) BY DEF Untouched
<1> QED BY <1>1, <1>2, OthersKept DEF Sound

LEMMA ApplyAccounts == ASSUME Sound, NEW s \in Sessions, ApplyPlayerStats(s) PROVE Accounts'
<1> DEFINE p == player[s]
<1>1. /\ load[s] = "read" /\ load'[s] = "done" /\ lossy \subseteq lossy'
      /\ \A t \in Sessions \ {s} :
            load'[t] = load[t] /\ loaded'[t] = loaded[t] /\ current'[t] = current[t]
      /\ UNCHANGED <<player, pc, save, payload, stored, earned>>
  BY DEF ApplyPlayerStats, session, who, saving, Sound, TypeOK
<1>2. ASSUME p \notin lossy'
      PROVE  /\ s \in Owning(p) /\ s \in Owning(p)' /\ s \notin Asking(p)'
             /\ \A k \in Keys : InHand(s, k)' = InHand(s, k)
  <2>1. pc[s] \in {"in", "leaving"} /\ save[s] = "none" BY <1>1, <1>2 DEF Sound, InStep
  <2>2. s \in Owning(p) /\ s \in Owning(p)' /\ s \notin Asking(p)'
    BY <1>1, <2>1 DEF Owning, Asking, Unsaved
  <2>3. /\ \A k \in DOMAIN loaded[s] : current[s][k] = 0
        /\ \A k \in Keys :
              current'[s][k] = IF k \in DOMAIN loaded[s] THEN loaded[s][k] ELSE current[s][k]
    BY <1>2, <2>1 DEF ApplyPlayerStats, Sound, TypeOK
  <2>4. ASSUME NEW k \in Keys PROVE InHand(s, k)' = InHand(s, k)
    <3>1. InHand(s, k) = Stat(loaded[s], k) + current[s][k] BY <1>1, <2>1 DEF InHand
    <3>2. InHand(s, k)' = current'[s][k] BY <1>1, <2>1 DEF InHand
    <3>3. Stat(loaded[s], k) \in Nat /\ current[s][k] \in Nat
      BY StatType, CurrentNat DEF Sound, TypeOK
    <3> QED BY <2>3, <3>1, <3>2, <3>3 DEF Stat
  <2> QED BY <2>2, <2>4
<1> QED BY <1>1, <1>2, MoveAccounts

LEMMA DisconnectAccounts == ASSUME Sound, NEW s \in Sessions, Disconnect(s) PROVE Accounts'
<1> DEFINE p == player[s]
<1>1. /\ pc[s] \in {"in", "leaving"} /\ pc'[s] = "out" /\ save'[s] = "sent"
      /\ payload'[s] = ExtractPlayerStats(s) /\ lossy \subseteq lossy'
      /\ \A t \in Sessions \ {s} : /\ pc'[t] = pc[t] /\ save'[t] = save[t]
                                  /\ payload'[t] = payload[t] /\ current'[t] = current[t]
      /\ UNCHANGED <<player, load, loaded, stored, earned>>
  BY DEF Disconnect, Goto, who, loading, Sound, TypeOK
<1>2. ASSUME p \notin lossy'
      PROVE  /\ s \in Owning(p) /\ s \in Owning(p)' /\ s \notin Asking(p)'
             /\ \A k \in Keys : InHand(s, k)' = InHand(s, k)
  <2>1. load[s] = "done" /\ save[s] = "none" BY <1>1, <1>2 DEF Disconnect, Sound, InStep
  <2>2. s \in Owning(p) /\ s \in Owning(p)' /\ s \notin Asking(p)'
    BY <1>1, <2>1 DEF Owning, Asking, Unsaved
  <2>3. ASSUME NEW k \in Keys PROVE InHand(s, k)' = InHand(s, k)
    <3>1. InHand(s, k) = current[s][k] BY <2>1 DEF InHand
    <3>2. InHand(s, k)' = Stat(ExtractPlayerStats(s), k) BY <1>1 DEF InHand, Stat
    <3> QED BY <3>1, <3>2, ExtractSays DEF Sound
  <2> QED BY <2>2, <2>3
<1> QED BY <1>1, <1>2, MoveAccounts

LEMMA CheckAccounts == ASSUME Sound, NEW s \in Sessions, UpdateStatsCheck(s) PROVE Accounts'
<1> DEFINE p == player[s]
<1>1. /\ save[s] = "sent" /\ lossy \subseteq lossy' /\ (p \in lossy' \/ save'[s] = "checked")
      /\ (p \in lossy' \/ payload'[s] = payload[s])
      /\ \A t \in Sessions \ {s} : save'[t] = save[t] /\ payload'[t] = payload[t]
      /\ UNCHANGED <<player, pc, load, loaded, current, stored, earned>>
  BY DEF UpdateStatsCheck, session, who, loading, Sound, TypeOK
<1>2. ASSUME p \notin lossy'
      PROVE  /\ s \in Owning(p) /\ s \in Owning(p)' /\ s \notin Asking(p)'
             /\ \A k \in Keys : InHand(s, k)' = InHand(s, k)
  <2>1. load[s] = "done" BY <1>1, <1>2 DEF Sound, InStep
  <2>2. s \in Owning(p) /\ s \in Owning(p)' /\ s \notin Asking(p)'
    BY <1>1, <1>2, <2>1 DEF Owning, Asking, Unsaved
  <2>3. \A k \in Keys : InHand(s, k)' = InHand(s, k) BY <1>1, <1>2 DEF InHand, Stat
  <2> QED BY <2>2, <2>3
<1> QED BY <1>1, <1>2, MoveAccounts

\* A save that succeeds leaves in the database what its session had.
LEMMA UpsertAccounts == ASSUME Sound, NEW s \in Sessions, Upsert(s) PROVE Accounts'
<1> DEFINE p == player[s]
<1>0. p \in Players BY DEF Sound, TypeOK
<1>1. /\ save[s] = "checked" /\ save'[s] = "done" /\ lossy \subseteq lossy'
      /\ \A t \in Sessions \ {s} : save'[t] = save[t] /\ payload'[t] = payload[t]
      /\ \A q \in Players \ {p} : stored'[q] = stored[q]
      /\ (p \in lossy' \/ stored'[p] = payload[s])
      /\ UNCHANGED <<player, pc, load, loaded, current, earned>>
  BY <1>0 DEF Upsert, session, who, loading, Sound, TypeOK
<1>2. ASSUME p \notin lossy' PROVE Kept(p)'
  <2>1. Kept(p) BY <1>0, <1>1, <1>2 DEF Sound, Accounts
  <2>2. load[s] = "done" /\ pc[s] = "out" BY <1>1, <1>2 DEF Sound, InStep, SavedOut
  <2>3. s \in Owning(p) BY <1>1, <2>2 DEF Owning, Unsaved
  <2>4. Owning(p) = {s} BY <2>1, <2>3 DEF Kept
  <2>5. Owning(p)' = {}
    <3>1. ASSUME NEW t \in Owning(p)' PROVE FALSE
      <4>1. t \in Sessions /\ t # s BY <1>1, <2>2, <3>1 DEF Owning, Unsaved
      <4>2. t \in Owning(p) BY <1>1, <3>1, <4>1 DEF Owning, Unsaved
      <4> QED BY <2>4, <4>1, <4>2
    <3> QED BY <3>1
  <2>6. Asking(p)' = Asking(p) BY <1>1 DEF Asking
  <2>7. \A k \in Keys : Extra(p, k)' = Extra(p, k) BY <1>0, <1>1, <2>6, ExtraSame
  <2>8. ASSUME NEW k \in Keys PROVE Base(p, k)' = Base(p, k)
    <3>1. Base(p, k)' = Stat(payload[s], k) BY <1>1, <1>2, <2>5 DEF Base, Stat
    <3>2. Base(p, k) = InHand(s, k) BY <2>4, ChooseOne DEF Base
    <3> QED BY <1>1, <3>1, <3>2 DEF InHand
  <2> QED BY <1>1, <2>1, <2>5, <2>6, <2>7, <2>8 DEF Kept, Alone
<1>3. \A q \in Players : q # p => Untouched(q) BY <1>1 DEF Untouched
<1> QED BY <1>1, <1>2, <1>3, OthersKept DEF Sound

\* A crash costs nothing but what was in the engine.
LEMMA CrashAccounts == ASSUME Sound, Crash PROVE Accounts'
<1>1. /\ lossy \subseteq lossy'
      /\ \A s \in Sessions : pc[s] \in {"in", "leaving"} => player[s] \in lossy'
      /\ \A s \in Sessions : pc'[s] \notin {"in", "leaving"}
      /\ \A s \in Sessions : load'[s] = IF load[s] = "none" THEN "none" ELSE "done"
      /\ UNCHANGED <<player, save, payload, stored, earned>>
  BY DEF Crash, who, saving
<1>2. ASSUME NEW p \in Players \ lossy' PROVE Untouched(p)
  <2>1. ASSUME NEW s \in Sessions, player[s] = p
        PROVE  pc[s] \notin {"in", "leaving"} /\ load[s] \notin {"asked", "read"}
    BY <1>1, <1>2, <2>1 DEF Sound, InStep
  <2>2. \A s \in Sessions : player[s] = p => load'[s] = load[s]
    BY <1>1, <2>1 DEF Sound, TypeOK
  <2> QED BY <1>1, <2>1, <2>2 DEF Untouched
<1> QED BY <1>1, <1>2, UntouchedKept DEF Sound, Accounts

LEMMA AccountStep == ASSUME Sound, [Next]_vars PROVE Accounts'
<1>1. ASSUME player' = player, lossy' = lossy, \A p \in Players : Untouched(p) PROVE Accounts'
  BY <1>1, UntouchedKept DEF Sound, Accounts
<1>2. ASSUME NEW s \in Sessions, OnCreatePlayerMessage(s) \/ ConsumeJoinToken(s) \/ Abandon(s)
      PROVE  Accounts'
  <2>1. /\ UNCHANGED <<player, load, loaded, current, save, payload, stored, earned, lossy>>
        /\ \A t \in Sessions : pc'[t] \in {"in", "leaving"} <=> pc[t] \in {"in", "leaving"}
    BY <1>2 DEF OnCreatePlayerMessage, ConsumeJoinToken, Abandon, Goto, who, loading, saving, history,
                Sound, TypeOK
  <2> QED BY <1>1, <2>1 DEF Untouched
<1>3. ASSUME NEW p \in Players, BanPlayer(p) \/ ProcessReceivedEvent(p) PROVE Accounts'
  <2>1. /\ UNCHANGED <<player, load, loaded, current, save, payload, stored, earned, lossy>>
        /\ \A t \in Sessions : pc'[t] \in {"in", "leaving"} <=> pc[t] \in {"in", "leaving"}
    BY <1>3 DEF BanPlayer, ProcessReceivedEvent, Goto, session, who, loading, saving, history, Sound, TypeOK
  <2> QED BY <1>1, <2>1 DEF Untouched
<1>4. CASE UNCHANGED vars
  BY <1>1, <1>4 DEF Untouched, vars, session, who, loading, saving, history
<1> QED BY <1>2, <1>3, <1>4, JoinAccounts, PlayAccounts, GetAccounts, ApplyAccounts,
           DisconnectAccounts, CheckAccounts, UpsertAccounts, CrashAccounts DEF Next

-----------------------------------------------------------------------------

\* Copies are made of copies, and only Play makes one larger, with what was earned.
LEMMA InventStep ==
    ASSUME TypeOK, TypeOK', NotInvented, StoredEarned, [Next]_vars
    PROVE  NotInvented' /\ StoredEarned'
<1> DEFINE Goal == NotInvented' /\ StoredEarned'
<1> USE DEF session, who, bans, loading, saving, history, Goto
<1>0. ASSUME NEW p \in Players, NEW k \in Keys
      PROVE  earned[p][k] \in Nat /\ Reference[k] = 0 /\ Stat(NoStats, k) = 0
  BY PlayersAssumption DEF TypeOK, Values, Reference, NoStats, Stat
<1>a. ASSUME UNCHANGED <<player, template, loaded, current, payload, stored, earned>> PROVE Goal
  BY <1>a DEF NotInvented, StoredEarned, Stat
<1>1. ASSUME NEW s \in Sessions,
             OnCreatePlayerMessage(s) \/ ConsumeJoinToken(s) \/ JoinAnswer(s) \/ Abandon(s)
      PROVE  Goal
  BY <1>1, <1>a DEF OnCreatePlayerMessage, ConsumeJoinToken, JoinAnswer, Abandon
<1>2. ASSUME NEW p \in Players, BanPlayer(p) \/ ProcessReceivedEvent(p) PROVE Goal
  BY <1>2, <1>a DEF BanPlayer, ProcessReceivedEvent
<1>3. ASSUME NEW s \in Sessions, GetStats(s) PROVE Goal
  <2>1. UNCHANGED <<player, template, current, payload, stored, earned>> BY <1>3 DEF GetStats
  <2>2. /\ \A t \in Sessions \ {s} : loaded'[t] = loaded[t]
        /\ loaded'[s] \in {loaded[s], stored[player[s]]} /\ player[s] \in Players
    BY <1>3 DEF GetStats, TypeOK
  <2> QED BY <2>1, <2>2 DEF NotInvented, StoredEarned, Stat
<1>4. ASSUME NEW s \in Sessions, ApplyPlayerStats(s) PROVE Goal
  <2>1. UNCHANGED <<player, template, payload, stored, earned>> BY <1>4 DEF ApplyPlayerStats
  <2>2. /\ \A t \in Sessions \ {s} : loaded'[t] = loaded[t] /\ current'[t] = current[t]
        /\ loaded'[s] = NoStats /\ player[s] \in Players
    BY <1>4 DEF ApplyPlayerStats, TypeOK
  <2>3. ASSUME NEW k \in Keys
        PROVE  \/ current'[s][k] = current[s][k]
               \/ k \in template[s] /\ current'[s][k] = Stat(loaded[s], k)
    BY <1>4 DEF ApplyPlayerStats, TypeOK, Stat
  <2>4. StoredEarned' BY <2>1 DEF StoredEarned, Stat
  <2>5. ASSUME NEW k \in Keys
        PROVE  /\ current'[s][k] <= earned[player[s]][k]
               /\ k \notin template[s] => current'[s][k] = 0
               /\ Stat(loaded'[s], k) <= earned[player[s]][k]
    BY <1>0, <2>2, <2>3 DEF NotInvented
  <2>6. NotInvented' BY <2>1, <2>2, <2>5 DEF NotInvented, Stat
  <2> QED BY <2>4, <2>6
<1>5. ASSUME NEW s \in Sessions, NEW i \in Keys, Play(s, i) PROVE Goal
  <2>1. /\ UNCHANGED <<player, template, loaded, payload, stored>> /\ i \in template[s]
        /\ \A t \in Sessions \ {s} : current'[t] = current[t]
        /\ \A k \in Keys : current'[s][k] = IF k = i THEN current[s][k] + 1 ELSE current[s][k]
    BY <1>5 DEF Play, TypeOK, Values
  <2>2. /\ player \in [Sessions -> Players]
        /\ \A p \in Players, k \in Keys :
             earned'[p][k] = IF p = player[s] /\ k = i THEN earned[p][k] + 1 ELSE earned[p][k]
    BY <1>5 DEF Play, TypeOK, Values
  <2>3. \A t \in Sessions, k \in Keys :
          current[t][k] \in Nat /\ Stat(loaded[t], k) \in Nat /\ Stat(payload[t], k) \in Nat
    BY CurrentNat, StatType DEF TypeOK
  <2>4. \A p \in Players, k \in Keys : Stat(stored[p], k) \in Nat BY StatType DEF TypeOK
  <2>5. \A p \in Players, k \in Keys : earned[p][k] <= earned'[p][k] /\ earned'[p][k] \in Nat
    BY <1>0, <2>2
  <2>6. StoredEarned' BY <1>0, <2>1, <2>4, <2>5 DEF StoredEarned, Stat
  <2>7. ASSUME NEW t \in Sessions, NEW k \in Keys
        PROVE  /\ current'[t][k] <= earned'[player[t]][k]
               /\ k \notin template[t] => current'[t][k] = 0
               /\ Stat(loaded[t], k) <= earned'[player[t]][k]
               /\ Stat(payload[t], k) <= earned'[player[t]][k]
    <3>1. player[t] \in Players BY <2>2
    <3>2. /\ current[t][k] <= earned[player[t]][k] /\ (k \notin template[t] => current[t][k] = 0)
          /\ Stat(loaded[t], k) <= earned[player[t]][k] /\ Stat(payload[t], k) <= earned[player[t]][k]
      BY DEF NotInvented
    <3>3. earned[player[t]][k] \in Nat /\ earned[player[t]][k] <= earned'[player[t]][k]
          /\ earned'[player[t]][k] \in Nat
      BY <1>0, <2>5, <3>1
    <3>4. CASE t = s /\ k = i BY <2>1, <2>2, <2>3, <3>1, <3>2, <3>3, <3>4
    <3>5. CASE t # s \/ k # i
      <4>1. current'[t][k] = current[t][k] BY <2>1, <3>5
      <4> QED BY <2>3, <3>2, <3>3, <4>1
    <3> QED BY <3>4, <3>5
  <2>8. NotInvented' BY <2>1, <2>7 DEF NotInvented, Stat
  <2> QED BY <2>6, <2>8
<1>6. ASSUME NEW s \in Sessions, Disconnect(s) PROVE Goal
  <2>1. UNCHANGED <<player, template, loaded, stored, earned>> BY <1>6 DEF Disconnect
  <2>2. /\ \A t \in Sessions \ {s} : payload'[t] = payload[t] /\ current'[t] = current[t]
        /\ payload'[s] = ExtractPlayerStats(s) /\ current'[s] = Reference /\ player[s] \in Players
    BY <1>6 DEF Disconnect, TypeOK
  <2>3. ASSUME NEW k \in Keys
        PROVE  /\ current'[s][k] = 0 /\ 0 <= earned[player[s]][k]
               /\ Stat(payload'[s], k) <= earned[player[s]][k]
    BY <1>0, <2>2, ExtractSays DEF NotInvented
  <2>4. StoredEarned' BY <2>1 DEF StoredEarned, Stat
  <2>5. NotInvented' BY <2>1, <2>2, <2>3 DEF NotInvented, Stat
  <2> QED BY <2>4, <2>5
<1>7. ASSUME NEW s \in Sessions, UpdateStatsCheck(s) \/ Upsert(s) PROVE Goal
  <2>1. UNCHANGED <<player, template, loaded, current, earned>> BY <1>7 DEF UpdateStatsCheck, Upsert
  <2>2. /\ \A t \in Sessions \ {s} : payload'[t] = payload[t]
        /\ payload'[s] \in {payload[s], NoStats} /\ player[s] \in Players
    BY <1>7 DEF UpdateStatsCheck, Upsert, TypeOK
  <2>3. \A p \in Players :
          stored'[p] = stored[p] \/ (p = player[s] /\ stored'[p] = payload[s])
    BY <1>7 DEF UpdateStatsCheck, Upsert, TypeOK
  <2>4. ASSUME NEW k \in Keys PROVE Stat(payload'[s], k) <= earned[player[s]][k]
    BY <1>0, <2>2 DEF NotInvented
  <2>5. NotInvented' BY <2>1, <2>2, <2>4 DEF NotInvented, Stat
  <2>6. StoredEarned' BY <2>1, <2>3 DEF StoredEarned, NotInvented, Stat
  <2> QED BY <2>5, <2>6
<1>8. CASE Crash
  <2>1. /\ UNCHANGED <<player, template, payload, stored, earned>> /\ player \in [Sessions -> Players]
        /\ \A t \in Sessions : loaded'[t] = NoStats /\ current'[t] = Reference
    BY <1>8 DEF Crash, TypeOK
  <2>2. StoredEarned' BY <2>1 DEF StoredEarned, Stat
  <2>3. ASSUME NEW t \in Sessions, NEW k \in Keys
        PROVE  /\ current'[t][k] = 0 /\ 0 <= earned[player[t]][k]
               /\ Stat(loaded'[t], k) <= earned[player[t]][k]
    BY <1>0, <2>1
  <2>4. NotInvented' BY <2>1, <2>3 DEF NotInvented, Stat
  <2> QED BY <2>2, <2>4
<1>9. CASE UNCHANGED vars BY <1>9, <1>a DEF vars
<1> QED BY <1>1, <1>2, <1>3, <1>4, <1>5, <1>6, <1>7, <1>8, <1>9 DEF Next

LEMMA InitInv == Init => IInv
<1> SUFFICES ASSUME Init PROVE IInv OBVIOUS
<1>1. TypeOK BY ReferenceType DEF Init, TypeOK
<1>2. BanKnown /\ SaveAlone /\ SavedOut /\ StillEnough
  BY DEF Init, BanKnown, SaveAlone, SavedOut, StillEnough
<1>3. InStep BY DEF Init, InStep
<1>a. NotInvented /\ StoredEarned
  BY <1>1 DEF Init, NotInvented, StoredEarned, Stat, NoStats, Reference
<1>4. ASSUME NEW p \in Players PROVE Kept(p)
  <2>1. Owning(p) = {} /\ Asking(p) = {} BY DEF Init, Owning, Asking
  <2>2. \A k \in Keys : Base(p, k) = 0 /\ Extra(p, k) = 0 /\ earned[p][k] = 0
    BY <2>1 DEF Init, Base, Extra, Stat, NoStats, Reference
  <2> QED BY <2>1, <2>2 DEF Kept
<1> QED BY <1>1, <1>2, <1>3, <1>a, <1>4 DEF IInv, Accounts

LEMMA Invariance == Spec => []IInv
<1>1. IInv /\ [Next]_vars => IInv'
  BY TypeStep, BanStep, SaveStep, InStepStep, AccountStep, InventStep DEF IInv, Sound
<1> QED BY <1>1, InitInv, PTL DEF Spec

\* Every variable of the players' sessions keeps its type: what is stored is always a map of
\* statistics that differ from the reference.
THEOREM TypeCorrect == Spec => []TypeOK
<1>1. IInv => TypeOK BY DEF IInv
<1> QED BY <1>1, Invariance, PTL

\* A banned player is on the server only before the event is handled, or if the event came
\* between the API's grant and the join, or found another session.
THEOREM BanHoldsCorrect == Spec => []BanHolds
<1>1. IInv => BanHolds BY DEF IInv, BanKnown, BanHolds
<1> QED BY <1>1, Invariance, PTL

\* Of the saves whose check could be made and which do not overlap, none leaves a player with
\* fewer statistics, for any number of sessions.
THEOREM KeysKeptCorrect == Spec => KeysKept
<1>1. ASSUME IInv, [Next]_vars, NEW p \in Players \ unguarded PROVE Enough(stored'[p], stored[p])
  <2>1. ASSUME stored' = stored PROVE Enough(stored'[p], stored[p])
    <3>1. stored[p] \in Maps BY <1>1 DEF IInv, TypeOK
    <3> QED BY <2>1, <3>1, EnoughReflexive
  <2>2. ASSUME NEW s \in Sessions, Upsert(s) PROVE Enough(stored'[p], stored[p])
    <3>1. CASE stored' = stored BY <2>1, <3>1
    <3>2. CASE stored' = [stored EXCEPT ![player[s]] = payload[s]]
      <4>1. CASE p = player[s]
        <5>1. stored'[p] = payload[s] BY <1>1, <3>2, <4>1 DEF IInv, TypeOK
        <5>2. Enough(payload[s], stored[p]) BY <1>1, <2>2, <4>1 DEF Upsert, IInv, StillEnough
        <5> QED BY <5>1, <5>2
      <4>2. CASE p # player[s]
        <5>1. stored'[p] = stored[p] /\ stored[p] \in Maps BY <1>1, <3>2, <4>2 DEF IInv, TypeOK
        <5> QED BY <5>1, EnoughReflexive
      <4> QED BY <4>1, <4>2
    <3> QED BY <2>2, <3>1, <3>2 DEF Upsert
  <2>3. (\E s \in Sessions : Upsert(s)) \/ stored' = stored
    BY <1>1 DEF Next, OnCreatePlayerMessage, ConsumeJoinToken, JoinAnswer, Abandon, GetStats,
       ApplyPlayerStats, Play, Disconnect, UpdateStatsCheck, Crash, BanPlayer, ProcessReceivedEvent, vars
  <2> QED BY <2>1, <2>2, <2>3
<1>2. IInv /\ [Next]_vars => [\A p \in Players \ unguarded : Enough(stored'[p], stored[p])]_vars
  BY <1>1
<1> QED BY <1>2, Invariance, PTL DEF Spec, KeysKept

\* For any number of sessions and statistics: the database never has more than a player earned,
\* and nothing is missing once their sessions are over and saved, unless lossy tells why. One
\* session at a time owns the statistics, and they pass from the database through the engine
\* and the payload without loss.
THEOREM ProgressSavedCorrect == Spec => []ProgressSaved
<1>1. ASSUME IInv, NEW p \in Players \ lossy, \A s \in Sessions : player[s] = p => ~Unsaved(s)
      PROVE  \A k \in Keys : Stat(stored[p], k) = earned[p][k]
  <2>1. Owning(p) = {} /\ Asking(p) = {} BY <1>1 DEF Owning, Asking, Unsaved
  <2>2. \A k \in Keys : Base(p, k) = Stat(stored[p], k) /\ Extra(p, k) = 0
    BY <2>1 DEF Base, Extra
  <2>3. \A k \in Keys : earned[p][k] = Base(p, k) + Extra(p, k)
    BY <1>1, <2>1 DEF IInv, Accounts, Kept, Alone
  <2>4. \A k \in Keys : Stat(stored[p], k) \in Nat BY <1>1, StatType DEF IInv, TypeOK
  <2> QED BY <2>2, <2>3, <2>4
<1>2. IInv => ProgressSaved BY <1>1 DEF ProgressSaved, IInv, StoredEarned
<1> QED BY <1>2, Invariance, PTL
=============================================================================
