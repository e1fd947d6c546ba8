---------------------------- MODULE Levels_proofs ----------------------------
(***************************************************************************)
(* Proofs about Levels, for any levels, rotation and number of threads.    *)
(***************************************************************************)
EXTENDS Levels, SequenceTheorems, TLAPS

\* A call in progress is about a level.
InFlight == \A t \in Threads : pc[t] \in {"queue", "start", "update"} => level[t] \in LevelSet

\* m_levelLoaded is set only while the engine has nothing to load and nothing to report.
FlagTells == ~raced => /\ Len(loading) + messages <= 1
                       /\ levelLoaded => Len(loading) + messages = 0

IInv == TypeOK /\ InFlight /\ FlagTells

-----------------------------------------------------------------------------

\* Taking an element out of a sequence leaves a sequence.
LEMMA RemoveType ==
  ASSUME NEW S, NEW s \in Seq(S), NEW i \in 1..Len(s)
  PROVE  SubSeq(s, 1, i - 1) \o SubSeq(s, i + 1, Len(s)) \in Seq(S)
<1>1. \A j \in 1..(i - 1) : s[j] \in S OBVIOUS
<1>2. \A j \in (i + 1)..Len(s) : s[j] \in S OBVIOUS
<1>3. SubSeq(s, 1, i - 1) \in Seq(S) BY <1>1, SubSeqProperties
<1>4. SubSeq(s, i + 1, Len(s)) \in Seq(S) BY <1>2, SubSeqProperties
<1> QED BY <1>3, <1>4, ConcatProperties

LEMMA NextIndexType ==
  ASSUME NEW n \in Nat \ {0}, NEW c \in 0..n PROVE NextIndex(c, n) \in 1..n
BY DEF NextIndex

LEMMA InitInv == Init => IInv
<1> SUFFICES ASSUME Init PROVE IInv OBVIOUS
<1>1. Len(Rotation) \in Nat \ {0} BY LevelsAssumption, EmptySeq
<1>2. InitialIndex \in 1..Len(Rotation) BY <1>1, NextIndexType DEF InitialIndex
<1>3. InitialCursor \in 1..Len(Rotation) BY <1>1, <1>2, NextIndexType DEF InitialCursor
<1>4. Rotation[InitialIndex] \in LevelSet BY <1>2, LevelsAssumption
<1>5. loading \in Seq(LevelSet) /\ Len(loading) = 1 BY <1>4 DEF Init, CreationLevel
<1>6. pc \in [Threads -> {"idle", "queue", "start", "update", "lock", "clear", "stuck"}]
  BY DEF Init
<1>7. level \in [Threads -> LevelSet \cup {None}] BY DEF Init
<1>8. TypeOK
  <2>1. entries \in Seq(LevelSet) /\ entries # <<>> /\ cursor \in 0..Len(entries)
    BY <1>1, <1>3, LevelsAssumption DEF Init
  <2>2. currentLevel \in LevelSet /\ asked \in LevelSet /\ request \in LevelSet \cup {None}
    BY <1>4 DEF Init, CreationLevel
  <2>3. running \in LevelSet \cup {None} /\ messages \in Nat /\ updates \in Seq(LevelSet)
    BY DEF Init
  <2>4. listed \in LevelSet \cup {None} /\ fresh \in BOOLEAN BY <1>4 DEF Init, CreationLevel
  <2>5. levelLoaded \in BOOLEAN /\ held \in BOOLEAN /\ registered \in BOOLEAN BY DEF Init
  <2>6. missed \in BOOLEAN /\ raced \in BOOLEAN BY DEF Init
  <2> QED BY <1>5, <1>6, <1>7, <2>1, <2>2, <2>3, <2>4, <2>5, <2>6 DEF TypeOK
<1>9. InFlight BY DEF Init, InFlight
<1>10. FlagTells BY <1>5 DEF Init, FlagTells
<1> QED BY <1>8, <1>9, <1>10 DEF IInv

-----------------------------------------------------------------------------

\* Entering ServerLoadLevelMessagePostHk with a level.
LEMMA EnterKeeps ==
  ASSUME IInv, NEW t \in Threads, NEW l \in LevelSet, Enter(t, l)
  PROVE  /\ currentLevel' \in LevelSet
         /\ pc' \in [Threads -> {"idle", "queue", "start", "update", "lock", "clear", "stuck"}]
         /\ level' \in [Threads -> LevelSet \cup {None}]
         /\ InFlight'
BY DEF IInv, TypeOK, InFlight, Enter, Goto

LEMMA AskKeeps ==
  ASSUME IInv, NEW t \in Threads, NEW l \in LevelSet, LoadNextLevel(t, l),
         entries' = entries, cursor' \in 0..Len(entries),
         UNCHANGED <<levelLoaded, request_, engine, listing, raced>>
  PROVE  IInv'
<1>1. Enter(t, l) /\ asked' = l BY DEF LoadNextLevel
<1>2. TypeOK' BY <1>1, EnterKeeps DEF IInv, TypeOK, request_, engine, listing
<1>3. InFlight' BY <1>1, EnterKeeps
<1>4. FlagTells' BY DEF IInv, FlagTells, engine
<1> QED BY <1>2, <1>3, <1>4 DEF IInv

LEMMA QueueKeeps == ASSUME IInv, NEW t \in Threads, Queue(t) PROVE IInv'
<1>1. TypeOK' BY DEF IInv, TypeOK, InFlight, Queue, Goto, Overtaken, rotation, engine, listing
<1>2. InFlight' BY DEF IInv, TypeOK, InFlight, Queue, Goto
<1>3. FlagTells' BY DEF IInv, FlagTells, Queue, engine
<1> QED BY <1>1, <1>2, <1>3 DEF IInv

\* A call that was not overtaken starts a load only when there is none.
LEMMA StartKeeps == ASSUME IInv, NEW t \in Threads, Start(t) PROVE IInv'
<1>1. level[t] \in LevelSet BY DEF IInv, InFlight, Start
<1>2. loading' \in Seq(LevelSet) /\ Len(loading') = Len(loading) + 1
  BY <1>1, AppendProperties DEF IInv, TypeOK, Start
<1>3. TypeOK' BY <1>2 DEF IInv, TypeOK, Start, Goto, Overtaken, rotation, request_, listing
<1>4. InFlight' BY DEF IInv, TypeOK, InFlight, Start, Goto
<1>5. ASSUME ~raced' PROVE Len(loading) + messages = 0
  BY <1>5 DEF Start, Overtaken, IInv, FlagTells
<1>6. FlagTells' BY <1>2, <1>5 DEF IInv, TypeOK, FlagTells, Start
<1> QED BY <1>3, <1>4, <1>6 DEF IInv

LEMMA UpdateKeeps == ASSUME IInv, NEW t \in Threads, Update(t) PROVE IInv'
<1>1. level[t] \in LevelSet BY DEF IInv, InFlight, Update
<1>a. updates \in Seq(LevelSet) BY DEF IInv, TypeOK
<1>b. Append(updates, level[t]) \in Seq(LevelSet) BY <1>1, <1>a, AppendProperties
<1>c. updates' = updates \/ updates' = Append(updates, level[t]) BY DEF Update
<1>2. updates' \in Seq(LevelSet) BY <1>a, <1>b, <1>c
<1>3. TypeOK' BY <1>2 DEF IInv, TypeOK, Update, Goto, Overtaken, rotation, request_, engine
<1>4. InFlight' BY DEF IInv, TypeOK, InFlight, Update, Goto
<1>5. FlagTells' BY DEF IInv, FlagTells, Update, engine
<1> QED BY <1>3, <1>4, <1>5 DEF IInv

LEMMA CompletedKeeps == ASSUME IInv, LevelCompleted PROVE IInv'
<1>1. Len(entries) \in Nat \ {0} BY EmptySeq DEF IInv, TypeOK
<1>2. cursor' \in 1..Len(entries) BY <1>1, NextIndexType DEF LevelCompleted, IInv, TypeOK
<1>3. entries[cursor'] \in LevelSet BY <1>2 DEF IInv, TypeOK
<1>4. Server \in Threads BY DEF Threads
<1>5. /\ LoadNextLevel(Server, entries[cursor']) /\ entries' = entries
      /\ UNCHANGED <<levelLoaded, request_, engine, listing, raced>>
  BY DEF LevelCompleted
<1>6. cursor' \in 0..Len(entries) BY <1>1, <1>2
<1> QED BY <1>3, <1>4, <1>5, <1>6, AskKeeps

LEMMA AddLevelKeeps == ASSUME IInv, NEW l \in LevelSet, AddLevelCommand(l) PROVE IInv'
<1>1. entries' \in Seq(LevelSet) /\ entries' # <<>> /\ Len(entries') = Len(entries) + 1
  BY AppendProperties DEF IInv, TypeOK, AddLevelCommand
<1>2. cursor' \in 0..Len(entries') BY <1>1 DEF IInv, TypeOK, AddLevelCommand
<1>3. TypeOK' BY <1>1, <1>2 DEF IInv, TypeOK, AddLevelCommand, request_, engine, listing
<1> QED BY <1>3 DEF IInv, InFlight, FlagTells, AddLevelCommand, engine

\* The message that a level is loaded is the only one, so nothing is left to load.
LEMMA LoadedKeeps == ASSUME IInv, OnLevelLoaded PROVE IInv'
<1>a. messages' \in Nat /\ levelLoaded' = TRUE BY DEF IInv, TypeOK, OnLevelLoaded
<1>b. pc' \in [Threads -> {"idle", "queue", "start", "update", "lock", "clear", "stuck"}]
  BY DEF IInv, TypeOK, OnLevelLoaded, Goto
<1>1. TypeOK' BY <1>a, <1>b DEF IInv, TypeOK, OnLevelLoaded, rotation, request_, listing
<1>2. InFlight' BY DEF IInv, TypeOK, InFlight, OnLevelLoaded, Goto
<1>3. Len(loading) \in Nat BY LenProperties DEF IInv, TypeOK
<1>4. FlagTells' BY <1>3 DEF IInv, TypeOK, FlagTells, OnLevelLoaded
<1> QED BY <1>1, <1>2, <1>4 DEF IInv

LEMMA RequestedKeeps == ASSUME IInv, LoadRequested PROVE IInv'
<1>1. Server \in Threads BY DEF Threads
<1>2. FlagTells' BY DEF IInv, FlagTells, LoadRequested, engine
<1>3. CASE request = None
  <2>1. TypeOK' BY <1>3 DEF IInv, TypeOK, LoadRequested, Goto, rotation, engine, listing
  <2>2. InFlight' BY <1>3 DEF IInv, TypeOK, InFlight, LoadRequested, Goto
  <2> QED BY <1>2, <2>1, <2>2 DEF IInv
<1>4. CASE request # None
  <2>1. request \in LevelSet /\ Enter(Server, request) /\ held' = TRUE
    BY <1>4 DEF IInv, TypeOK, LoadRequested
  <2>2. TypeOK' BY <1>1, <2>1, EnterKeeps DEF IInv, TypeOK, LoadRequested, rotation, engine, listing
  <2> QED BY <1>1, <1>2, <2>1, <2>2, EnterKeeps DEF IInv
<1> QED BY <1>3, <1>4

LEMMA ClearKeeps == ASSUME IInv, ClearRequest PROVE IInv'
<1>1. TypeOK' BY DEF IInv, TypeOK, ClearRequest, Goto, rotation, engine, listing
<1>2. InFlight' BY DEF IInv, TypeOK, InFlight, ClearRequest, Goto
<1> QED BY <1>1, <1>2 DEF IInv, FlagTells, ClearRequest, engine

\* A loaded level becomes a message: their sum stays.
LEMMA DoneKeeps == ASSUME IInv, LoadDone PROVE IInv'
<1>1. Head(loading) \in LevelSet /\ loading' \in Seq(LevelSet) /\ Len(loading') = Len(loading) - 1
  BY HeadTailProperties DEF IInv, TypeOK, LoadDone
<1>2. TypeOK' BY <1>1 DEF IInv, TypeOK, LoadDone, rotation, request_, listing
<1>3. Len(loading) \in Nat BY LenProperties DEF IInv, TypeOK
<1>4. FlagTells' BY <1>1, <1>3 DEF IInv, TypeOK, FlagTells, LoadDone
<1> QED BY <1>2, <1>4 DEF IInv, InFlight, LoadDone

LEMMA UpdateServerKeeps == ASSUME IInv, UpdateServer PROVE IInv'
<1>1. PICK i \in 1..Len(updates), ok \in BOOLEAN :
        /\ ok => listed # None
        /\ updates' = SubSeq(updates, 1, i - 1) \o SubSeq(updates, i + 1, Len(updates))
        /\ listed' = IF ok THEN updates[i] ELSE listed
        /\ missed' = (missed \/ (i = Len(updates) /\ (~ok \/ i > 1)))
        /\ UNCHANGED <<rotation, currentLevel, levelLoaded, request_, pc, level, engine,
                       registered, fresh, asked, raced>>
  BY DEF UpdateServer
<1>2. updates \in Seq(LevelSet) BY DEF IInv, TypeOK
<1>3. updates' \in Seq(LevelSet) BY <1>1, <1>2, RemoveType
<1>4. updates[i] \in LevelSet BY <1>1, <1>2
<1>5. listed' \in LevelSet \cup {None} BY <1>1, <1>4 DEF IInv, TypeOK
<1>6. missed' \in BOOLEAN BY <1>1
<1>7. TypeOK' BY <1>1, <1>3, <1>5, <1>6 DEF IInv, TypeOK, rotation, request_, engine
<1> QED BY <1>1, <1>7 DEF IInv, InFlight, FlagTells, engine

\* The level of m_creationInfo is one of the rotation.
LEMMA CreationLevelType == CreationLevel \in LevelSet
<1>1. Len(Rotation) \in Nat \ {0} BY LevelsAssumption, EmptySeq
<1>2. InitialIndex \in 1..Len(Rotation) BY <1>1, NextIndexType DEF InitialIndex
<1> QED BY <1>2, LevelsAssumption DEF CreationLevel

LEMMA ListingKeeps == ASSUME IInv, Register \/ Delist PROVE IInv'
<1>1. /\ UNCHANGED <<entries, cursor, currentLevel, levelLoaded, request, held, pc, level,
                     running, loading, messages, asked, raced>>
  BY DEF Register, Delist, rotation, request_, engine
<1>a. registered' \in BOOLEAN /\ missed' \in BOOLEAN /\ fresh' \in BOOLEAN
  <2>1. CASE Register BY <2>1, Zenon DEF Register
  <2>2. CASE Delist BY <2>2 DEF Delist, IInv, TypeOK
  <2> QED BY <2>1, <2>2
<1>b. updates' \in Seq(LevelSet) /\ listed' \in LevelSet \cup {None}
  <2>0. <<>> \in Seq(LevelSet) OBVIOUS
  <2>1. CASE Register BY <2>0, <2>1, CreationLevelType DEF Register
  <2>2. CASE Delist BY <2>2 DEF Delist, IInv, TypeOK
  <2> QED BY <2>1, <2>2
<1>2. TypeOK' BY <1>1, <1>a, <1>b DEF IInv, TypeOK
<1> QED BY <1>1, <1>2 DEF IInv, InFlight, FlagTells

LEMMA NextInv == IInv /\ [Next]_vars => IInv'
<1> SUFFICES ASSUME IInv, [Next]_vars PROVE IInv' OBVIOUS
<1>1. ASSUME NEW t \in Threads, Step(t) PROVE IInv'
  BY <1>1, QueueKeeps, StartKeeps, UpdateKeeps DEF Step
<1>2. ASSUME NEW t \in RpcThreads, NEW l \in LevelSet, RpcLoadLevel(t, l) PROVE IInv'
  <2>1. t \in Threads BY DEF Threads
  <2>2. entries' = entries /\ cursor' \in 0..Len(entries)
    BY <1>2 DEF RpcLoadLevel, rotation, IInv, TypeOK
  <2> QED BY <1>2, <2>1, <2>2, AskKeeps DEF RpcLoadLevel
<1>3. ASSUME NEW l \in LevelSet, LoadLevelCommand(l) PROVE IInv'
  <2>1. Server \in Threads BY DEF Threads
  <2>2. entries' = entries /\ cursor' \in 0..Len(entries)
    BY <1>3 DEF LoadLevelCommand, rotation, IInv, TypeOK
  <2> QED BY <1>3, <2>1, <2>2, AskKeeps DEF LoadLevelCommand
<1>4. ASSUME NEW l \in LevelSet, AddLevelCommand(l) PROVE IInv' BY <1>4, AddLevelKeeps
<1>5. CASE LevelCompleted BY <1>5, CompletedKeeps
<1>6. CASE OnLevelLoaded BY <1>6, LoadedKeeps
<1>7. CASE LoadRequested BY <1>7, RequestedKeeps
<1>8. CASE ClearRequest BY <1>8, ClearKeeps
<1>9. CASE LoadDone BY <1>9, DoneKeeps
<1>10. CASE UpdateServer BY <1>10, UpdateServerKeeps
<1>11. CASE Register \/ Delist BY <1>11, ListingKeeps
<1>12. CASE UNCHANGED vars
  BY <1>12 DEF vars, IInv, TypeOK, InFlight, FlagTells, rotation, request_, engine, listing
<1> QED BY <1>1, <1>2, <1>3, <1>4, <1>5, <1>6, <1>7, <1>8, <1>9, <1>10, <1>11, <1>12 DEF Next

LEMMA Invariance == Spec => []IInv
BY InitInv, NextInv, PTL DEF Spec

-----------------------------------------------------------------------------
(* The request that wins, and the level that is listed. *)

\* The level asked for last is still to be put in m_latestLoadLevelRequest or handed to the engine.
Coming == \E t \in Threads : pc[t] \in {"queue", "start"} /\ level[t] = asked

\* OnLevelLoaded is bound to queue the request it is loading: calls will have overtaken each other.
Doomed ==
    \/ pc[Server] = "lock" /\ ~levelLoaded /\ request # None
    \/ pc[Server] = "queue" /\ held

\* The request's mutex is held inside OnLevelLoaded and what it calls.
HeldInside ==
    /\ held => pc[Server] \in {"queue", "start", "update", "clear", "stuck"}
    /\ pc[Server] = "clear" => held

\* A request waits for the level that loads; one that does not is about to be taken.
RequestWaits == ~raced /\ request # None /\ levelLoaded => pc[Server] = "lock" \/ held

\* A request that waits is the last one, or the last one is on its way.
RequestIsLast ==
    ~raced /\ request # None /\ ~held /\ ~Doomed => request = asked \/ Coming

\* So is m_currentLevel, ...
CurrentIsLast == ~raced /\ ~Doomed => currentLevel = asked \/ Coming

\* ... and so is the level the engine will end up with, when no request waits.
LastLoad == IF loading = <<>> THEN running ELSE loading[Len(loading)]
LoadIsLast ==
    ~raced /\ ~Doomed /\ (request = None \/ held) => LastLoad = asked \/ Coming

\* The call that set m_currentLevel has not come to its UpdateServer call.
Telling == \E t \in Threads : pc[t] \in {"queue", "start", "update"} /\ level[t] = currentLevel

\* The level the API will end up listing is the current one, or its update is on its way.
LastUpdate == IF updates = <<>> THEN listed ELSE updates[Len(updates)]
Told ==
    /\ ~registered => listed = None
    /\ fresh => updates = <<>> /\ listed \in {CreationLevel, None}
    /\ listed # None /\ ~fresh /\ ~raced /\ ~missed => LastUpdate = currentLevel \/ Telling

Wins == HeldInside /\ RequestWaits /\ RequestIsLast /\ CurrentIsLast /\ LoadIsLast /\ Told

LEMMA InitWins == Init => Wins
<1> SUFFICES ASSUME Init PROVE Wins OBVIOUS
<1>1. LastLoad = asked
  <2>1. loading = <<currentLevel>> /\ asked = currentLevel BY DEF Init
  <2> QED BY <2>1 DEF LastLoad
<1>2. Server \in Threads BY DEF Threads
<1>3. HeldInside /\ RequestWaits /\ RequestIsLast /\ CurrentIsLast
  BY <1>2 DEF Init, HeldInside, RequestWaits, RequestIsLast, CurrentIsLast
<1>4. LoadIsLast BY <1>1 DEF LoadIsLast
<1>5. Told BY DEF Init, Told, LastUpdate
<1> QED BY <1>3, <1>4, <1>5 DEF Wins

\* Whoever asks has the level asked for last under way.
LEMMA AskWins ==
  ASSUME IInv, Wins, NEW t \in Threads, NEW l \in LevelSet, LoadNextLevel(t, l),
         UNCHANGED <<levelLoaded, request_, engine, listing, raced>>
  PROVE  Wins'
<1>1. /\ pc[t] = "idle" /\ asked' = l /\ currentLevel' = l
      /\ pc'[t] \in {"queue", "start"} /\ level'[t] = l
      /\ \A u \in Threads \ {t} : pc'[u] = pc[u] /\ level'[u] = level[u]
  BY DEF LoadNextLevel, Enter, Goto, IInv, TypeOK
<1>2. Coming' /\ Telling' BY <1>1 DEF Coming, Telling
<1>3. HeldInside' BY <1>1 DEF Wins, HeldInside, request_, Threads
<1>4. RequestWaits'
  <2>1. pc[Server] = "lock" => pc'[Server] = "lock" BY <1>1 DEF Threads
  <2> QED BY <2>1 DEF Wins, RequestWaits, request_
<1>5. Told' BY <1>2 DEF Wins, Told, listing
<1> QED BY <1>2, <1>3, <1>4, <1>5 DEF Wins, RequestIsLast, CurrentIsLast, LoadIsLast

\* A call that is not overtaken queues the level of m_currentLevel.
LEMMA QueueWins == ASSUME IInv, Wins, NEW t \in Threads, Queue(t) PROVE Wins'
<1>0. Server \in Threads BY DEF Threads
<1>1. /\ UNCHANGED <<currentLevel, levelLoaded, held, level, loading, running, listing, asked>>
      /\ pc[t] = "queue" /\ pc'[t] \in {"update", "stuck"}
      /\ \A u \in Threads \ {t} : pc'[u] = pc[u]
      /\ raced => raced'
  BY DEF Queue, Goto, engine, IInv, TypeOK
<1>2. HeldInside' BY <1>0, <1>1 DEF Wins, HeldInside
<1>3. ASSUME ~raced'
      PROVE  /\ ~raced /\ ~levelLoaded /\ ~held /\ currentLevel = level[t]
             /\ request' = level[t] /\ pc'[t] = "update"
  BY <1>3 DEF Queue, Overtaken, Goto, IInv, TypeOK
<1>4. RequestWaits' BY <1>1, <1>3 DEF RequestWaits
<1>5. ASSUME ~raced', ~Doomed' PROVE currentLevel = asked \/ Coming'
  <2>1. ~Doomed \/ pc[Server] = "lock" BY <1>3, <1>5 DEF Doomed
  <2>2. level[t] # None BY LevelsAssumption, <1>1 DEF IInv, InFlight
  <2>3. ~Doomed BY <1>0, <1>1, <1>3, <1>5, <2>1, <2>2 DEF Doomed
  <2>4. CASE currentLevel = asked BY <2>4
  <2>5. CASE Coming
    <3>1. PICK u \in Threads : pc[u] \in {"queue", "start"} /\ level[u] = asked BY <2>5 DEF Coming
    <3> QED BY <1>1, <1>3, <1>5, <3>1 DEF Coming
  <2> QED BY <1>3, <1>5, <2>3, <2>4, <2>5 DEF Wins, CurrentIsLast
<1>6. RequestIsLast' BY <1>1, <1>3, <1>5 DEF RequestIsLast
<1>7. CurrentIsLast' BY <1>1, <1>5 DEF CurrentIsLast
<1>8. LoadIsLast'
  <2>1. level[t] # None BY LevelsAssumption, <1>1 DEF IInv, InFlight
  <2> QED BY <1>1, <1>3, <2>1 DEF LoadIsLast
<1>9. Told'
  <2>1. ASSUME ~raced', Telling PROVE Telling' BY <1>1, <1>3, <2>1 DEF Telling
  <2>2. LastUpdate' = LastUpdate BY <1>1 DEF LastUpdate, listing
  <2> QED BY <1>1, <1>3, <2>1, <2>2 DEF Wins, Told, listing
<1> QED BY <1>2, <1>4, <1>6, <1>7, <1>8, <1>9 DEF Wins

\* A call that is not overtaken has the engine load the level of m_currentLevel.
LEMMA StartWins == ASSUME IInv, Wins, NEW t \in Threads, Start(t) PROVE Wins'
<1>0. Server \in Threads BY DEF Threads
<1>1. /\ UNCHANGED <<currentLevel, request, held, level, running, listing, asked>>
      /\ ~levelLoaded' /\ pc[t] = "start" /\ pc'[t] = "update"
      /\ \A u \in Threads \ {t} : pc'[u] = pc[u]
      /\ raced => raced'
  BY DEF Start, Goto, request_, IInv, TypeOK
<1>2. HeldInside' BY <1>0, <1>1 DEF Wins, HeldInside
<1>3. ASSUME ~raced' PROVE ~raced /\ levelLoaded /\ currentLevel = level[t]
  BY <1>3 DEF Start, Overtaken
<1>4. RequestWaits' BY <1>1 DEF RequestWaits
<1>5. ASSUME ~raced', ~Doomed' PROVE currentLevel = asked \/ Coming'
  <2>1. ~Doomed BY <1>0, <1>1, <1>3, <1>5 DEF Doomed
  <2>2. CASE currentLevel = asked BY <2>2
  <2>3. CASE Coming
    <3>1. PICK u \in Threads : pc[u] \in {"queue", "start"} /\ level[u] = asked BY <2>3 DEF Coming
    <3> QED BY <1>1, <1>3, <1>5, <3>1 DEF Coming
  <2> QED BY <1>3, <1>5, <2>1, <2>2, <2>3 DEF Wins, CurrentIsLast
<1>6. RequestIsLast'
  <2>1. ASSUME ~raced', request' # None, ~held' PROVE Doomed'
    <3>1. pc[Server] = "lock" BY <1>1, <1>3, <2>1 DEF Wins, RequestWaits
    <3> QED BY <1>0, <1>1, <2>1, <3>1 DEF Doomed
  <2> QED BY <2>1 DEF RequestIsLast
<1>7. CurrentIsLast' BY <1>1, <1>5 DEF CurrentIsLast
<1>8. LoadIsLast'
  <2>1. level[t] \in LevelSet BY <1>1 DEF IInv, InFlight
  <2>2. /\ loading' # <<>> /\ Len(loading') = Len(loading) + 1
        /\ loading'[Len(loading) + 1] = level[t]
    BY <2>1, AppendProperties DEF Start, IInv, TypeOK
  <2>3. LastLoad' = level[t] BY <2>2 DEF LastLoad
  <2> QED BY <1>1, <1>3, <1>5, <2>3 DEF LoadIsLast
<1>9. Told'
  <2>1. ASSUME Telling PROVE Telling' BY <1>1, <2>1 DEF Telling
  <2>2. LastUpdate' = LastUpdate BY <1>1 DEF LastUpdate, listing
  <2> QED BY <1>1, <2>1, <2>2 DEF Wins, Told, listing
<1> QED BY <1>2, <1>4, <1>6, <1>7, <1>8, <1>9 DEF Wins

\* A call that is not overtaken tells the API the level of m_currentLevel.
LEMMA UpdateWins == ASSUME IInv, Wins, NEW t \in Threads, Update(t) PROVE Wins'
<1>0. Server \in Threads BY DEF Threads
<1>1. /\ UNCHANGED <<currentLevel, levelLoaded, request, held, running, loading, registered, listed, asked>>
      /\ pc[t] = "update" /\ pc'[t] = IF t = Server /\ held THEN "clear" ELSE "idle"
      /\ \A u \in Threads \ {t} : pc'[u] = pc[u] /\ level'[u] = level[u]
      /\ raced => raced'
  BY DEF Update, Goto, request_, engine, IInv, TypeOK
<1>2. HeldInside' BY <1>0, <1>1 DEF Wins, HeldInside
<1>3. RequestWaits' BY <1>0, <1>1 DEF Wins, RequestWaits
<1>4. Doomed' <=> Doomed BY <1>0, <1>1 DEF Doomed
<1>5. Coming => Coming' BY <1>1 DEF Coming
<1>6. LastLoad' = LastLoad BY <1>1 DEF LastLoad
<1>7. RequestIsLast' /\ CurrentIsLast' /\ LoadIsLast'
  BY <1>1, <1>4, <1>5, <1>6 DEF Wins, RequestIsLast, CurrentIsLast, LoadIsLast
<1>8. Told'
  <2>0. CASE ~registered
    <3>1. listed = None /\ UNCHANGED <<updates, fresh>> BY <2>0 DEF Wins, Told, Update
    <3> QED BY <1>1, <3>1 DEF Wins, Told
  <2>1. SUFFICES ASSUME registered, ~raced' PROVE ~fresh' /\ LastUpdate' = currentLevel
    <3>1. registered => ~fresh' BY DEF Update
    <3> QED BY <1>1, <2>0, <2>1, <3>1 DEF Told
  <2>2. level[t] \in LevelSet /\ level[t] = currentLevel
    BY <1>1, <2>1 DEF Update, Overtaken, IInv, InFlight
  <2>3. updates' = Append(updates, level[t]) /\ ~fresh' BY <2>1 DEF Update
  <2>4. /\ updates' # <<>> /\ Len(updates') = Len(updates) + 1
        /\ updates'[Len(updates) + 1] = level[t]
    BY <2>2, <2>3, AppendProperties DEF IInv, TypeOK
  <2> QED BY <2>2, <2>3, <2>4 DEF LastUpdate
<1> QED BY <1>2, <1>3, <1>7, <1>8 DEF Wins

\* OnLevelLoaded takes the request out: if its level is not the one asked for last, that one
\* is under way, or m_levelLoaded is unset again and the call is bound to be overtaken.
LEMMA RequestedWins == ASSUME IInv, Wins, LoadRequested PROVE Wins'
<1>0. Server \in Threads BY DEF Threads
<1>1. /\ pc[Server] = "lock" /\ ~held
      /\ UNCHANGED <<levelLoaded, request, running, loading, listing, asked, raced>>
  BY DEF LoadRequested, engine, Wins, HeldInside
<1>2. LastLoad' = LastLoad /\ LastUpdate' = LastUpdate BY <1>1 DEF LastLoad, LastUpdate, listing
<1>3. CASE request = None
  <2>1. /\ UNCHANGED <<currentLevel, level, held>> /\ pc'[Server] = "idle"
        /\ \A u \in Threads \ {Server} : pc'[u] = pc[u]
    BY <1>0, <1>3 DEF LoadRequested, Goto, IInv, TypeOK
  <2>2. ~Doomed /\ ~Doomed' BY <1>1, <1>3, <2>1 DEF Doomed
  <2>3. Coming => Coming' BY <1>1, <2>1 DEF Coming
  <2>4. Telling => Telling' BY <1>1, <2>1 DEF Telling
  <2> QED BY <1>1, <1>2, <1>3, <2>1, <2>2, <2>3, <2>4 DEF Wins, HeldInside, RequestWaits,
             RequestIsLast, CurrentIsLast, LoadIsLast, Told, listing
<1>4. CASE request # None
  <2>1. /\ held' /\ currentLevel' = request /\ level'[Server] = request
        /\ pc'[Server] = IF levelLoaded THEN "start" ELSE "queue"
        /\ \A u \in Threads \ {Server} : pc'[u] = pc[u] /\ level'[u] = level[u]
    BY <1>0, <1>4 DEF LoadRequested, Enter, Goto, IInv, TypeOK
  <2>2. Telling' BY <1>0, <2>1 DEF Telling
  <2>3. ASSUME ~raced, ~Doomed' PROVE Coming'
    <3>1. levelLoaded BY <2>1, <2>3 DEF Doomed
    <3>2. ~Doomed BY <1>1, <3>1 DEF Doomed
    <3>3. request = asked \/ Coming BY <1>1, <1>4, <2>3, <3>2 DEF Wins, RequestIsLast
    <3>4. CASE request = asked BY <1>0, <1>1, <2>1, <3>1, <3>4 DEF Coming
    <3>5. CASE Coming BY <1>1, <2>1, <3>5 DEF Coming
    <3> QED BY <3>3, <3>4, <3>5
  <2>4. Told' BY <1>1, <2>2 DEF Wins, Told, listing
  <2> QED BY <1>1, <2>1, <2>3, <2>4 DEF Wins, HeldInside, RequestWaits, RequestIsLast,
             CurrentIsLast, LoadIsLast
<1> QED BY <1>3, <1>4

LEMMA ClearWins == ASSUME IInv, Wins, ClearRequest PROVE Wins'
<1>0. Server \in Threads BY DEF Threads
<1>1. /\ pc[Server] = "clear" /\ pc'[Server] = "idle" /\ request' = None /\ ~held'
      /\ \A u \in Threads \ {Server} : pc'[u] = pc[u]
      /\ UNCHANGED <<currentLevel, levelLoaded, level, running, loading, listing, asked, raced>>
  BY <1>0 DEF ClearRequest, Goto, engine, IInv, TypeOK
<1>2. held BY <1>1 DEF Wins, HeldInside
<1>3. ~Doomed /\ ~Doomed' BY <1>1 DEF Doomed
<1>4. Coming => Coming' BY <1>1 DEF Coming
<1>5. Telling => Telling' BY <1>1 DEF Telling
<1>6. LastLoad' = LastLoad /\ LastUpdate' = LastUpdate BY <1>1 DEF LastLoad, LastUpdate, listing
<1> QED BY <1>1, <1>2, <1>3, <1>4, <1>5, <1>6 DEF Wins, HeldInside, RequestWaits,
           RequestIsLast, CurrentIsLast, LoadIsLast, Told, listing

LEMMA LoadedWins == ASSUME IInv, Wins, OnLevelLoaded PROVE Wins'
<1>0. Server \in Threads BY DEF Threads
<1>1. /\ pc[Server] = "idle" /\ pc'[Server] = "lock" /\ levelLoaded'
      /\ \A u \in Threads \ {Server} : pc'[u] = pc[u]
      /\ UNCHANGED <<currentLevel, request, held, level, running, loading, listing, asked, raced>>
  BY <1>0 DEF OnLevelLoaded, Goto, request_, IInv, TypeOK
<1>2. ~held BY <1>1 DEF Wins, HeldInside
<1>3. ~Doomed /\ ~Doomed' BY <1>1 DEF Doomed
<1>4. Coming => Coming' BY <1>1 DEF Coming
<1>5. Telling => Telling' BY <1>1 DEF Telling
<1>6. LastLoad' = LastLoad /\ LastUpdate' = LastUpdate BY <1>1 DEF LastLoad, LastUpdate, listing
<1> QED BY <1>1, <1>2, <1>3, <1>4, <1>5, <1>6 DEF Wins, HeldInside, RequestWaits,
           RequestIsLast, CurrentIsLast, LoadIsLast, Told, listing

\* The engine loads one level at a time, so the last one it was given is the one it ends with.
LEMMA DoneWins == ASSUME IInv, Wins, LoadDone PROVE Wins'
<1>1. UNCHANGED <<currentLevel, levelLoaded, request, held, pc, level, listing, asked, raced>>
  BY DEF LoadDone, request_
<1>2. Coming' <=> Coming BY <1>1 DEF Coming
<1>3. Telling' <=> Telling BY <1>1 DEF Telling
<1>4. LastUpdate' = LastUpdate BY <1>1 DEF LastUpdate, listing
<1>5. Doomed' <=> Doomed BY <1>1 DEF Doomed
<1>6. ASSUME ~raced PROVE LastLoad' = LastLoad
  <2>1. loading # <<>> /\ Len(loading) + messages <= 1 /\ messages \in Nat /\ loading \in Seq(LevelSet)
    BY <1>6 DEF IInv, TypeOK, FlagTells, LoadDone
  <2>2. Len(loading) = 1 BY <2>1, EmptySeq
  <2>3. loading' = <<>> /\ running' = loading[1] BY <2>1, <2>2 DEF LoadDone
  <2> QED BY <2>1, <2>2, <2>3 DEF LastLoad
<1> QED BY <1>1, <1>2, <1>3, <1>4, <1>5, <1>6 DEF Wins, HeldInside, RequestWaits,
           RequestIsLast, CurrentIsLast, LoadIsLast, Told, listing

\* A delivered call that was not the last leaves the last one last.
LEMMA RemoveLast ==
  ASSUME NEW S, NEW s \in Seq(S), NEW i \in 1..Len(s), i # Len(s)
  PROVE  LET r == SubSeq(s, 1, i - 1) \o SubSeq(s, i + 1, Len(s))
         IN r # <<>> /\ r[Len(r)] = s[Len(s)]
<1> DEFINE a == SubSeq(s, 1, i - 1)
           b == SubSeq(s, i + 1, Len(s))
<1>0. Len(s) \in Nat OBVIOUS
<1>1. \A j \in 1..(i - 1) : s[j] \in S OBVIOUS
<1>2. \A j \in (i + 1)..Len(s) : s[j] \in S OBVIOUS
<1>3. a \in Seq(S) /\ Len(a) = i - 1
  <2>1. a \in Seq(S) /\ Len(a) = IF 1 <= i - 1 THEN (i - 1) - 1 + 1 ELSE 0 BY <1>1, SubSeqProperties
  <2> QED BY <2>1
<1>4. b \in Seq(S) /\ Len(b) = Len(s) - i /\ b[Len(s) - i] = s[Len(s)]
  <2>1. /\ b \in Seq(S) /\ Len(b) = IF i + 1 <= Len(s) THEN Len(s) - (i + 1) + 1 ELSE 0
        /\ \A j \in 1..(Len(s) - (i + 1) + 1) : b[j] = s[(i + 1) + j - 1]
    BY <1>0, <1>2, SubSeqProperties
  <2>2. Len(s) - i \in 1..(Len(s) - (i + 1) + 1) BY <1>0
  <2> QED BY <1>0, <2>1, <2>2
<1> HIDE DEF a, b
<1>5. /\ a \o b \in Seq(S) /\ Len(a \o b) = Len(a) + Len(b)
      /\ \A j \in 1..(Len(a) + Len(b)) : (a \o b)[j] = IF j <= Len(a) THEN a[j] ELSE b[j - Len(a)]
  BY <1>3, <1>4, ConcatProperties
<1>6. Len(a \o b) = Len(s) - 1 /\ Len(s) - 1 \in 1..(Len(a) + Len(b)) BY <1>0, <1>3, <1>4, <1>5
<1>7. (a \o b)[Len(s) - 1] = b[Len(s) - i] BY <1>0, <1>3, <1>4, <1>5, <1>6
<1>8. a \o b # <<>> BY <1>6, <1>0
<1> QED BY <1>4, <1>6, <1>7, <1>8 DEF a, b

LEMMA UpdateServerWins == ASSUME IInv, Wins, UpdateServer PROVE Wins'
<1>1. PICK i \in 1..Len(updates), ok \in BOOLEAN :
        /\ ok => listed # None
        /\ updates' = SubSeq(updates, 1, i - 1) \o SubSeq(updates, i + 1, Len(updates))
        /\ listed' = IF ok THEN updates[i] ELSE listed
        /\ missed' = (missed \/ (i = Len(updates) /\ (~ok \/ i > 1)))
        /\ UNCHANGED <<rotation, currentLevel, levelLoaded, request_, pc, level, engine,
                       registered, fresh, asked, raced>>
  BY DEF UpdateServer
<1>2. UNCHANGED <<currentLevel, levelLoaded, request, held, pc, level, running, loading, registered, fresh, asked, raced>>
  BY <1>1 DEF request_, engine
<1>3. updates \in Seq(LevelSet) /\ Len(updates) \in Nat BY LenProperties DEF IInv, TypeOK
<1>4. Coming' <=> Coming BY <1>2 DEF Coming
<1>5. Telling' <=> Telling BY <1>2 DEF Telling
<1>6. Doomed' <=> Doomed BY <1>2 DEF Doomed
<1>7. LastLoad' = LastLoad BY <1>2 DEF LastLoad
<1>8. ASSUME ~missed' PROVE ~missed /\ LastUpdate' = LastUpdate
  <2>1. updates # <<>> BY <1>1, <1>3
  <2>2. CASE i # Len(updates)
    <3>1. updates' # <<>> /\ updates'[Len(updates')] = updates[Len(updates)]
      BY <1>1, <1>3, <2>2, RemoveLast
    <3> QED BY <1>1, <1>8, <2>1, <3>1 DEF LastUpdate
  <2>3. CASE i = Len(updates)
    <3>a. ok /\ ~(i > 1) /\ ~missed BY <1>1, <1>8, <2>3, Zenon
    <3>1. i = 1 /\ Len(updates) = 1 BY <1>1, <1>3, <2>3, <3>a
    <3>2. SubSeq(updates, 1, 0) = <<>> /\ SubSeq(updates, 2, 1) = <<>> BY SubSeqEmpty
    <3>3. updates' = <<>> BY <1>1, <3>1, <3>2
    <3>4. listed' = updates[1] BY <1>1, <3>1, <3>a
    <3> QED BY <2>1, <3>1, <3>a, <3>3, <3>4 DEF LastUpdate
  <2> QED BY <2>2, <2>3
<1>9. listed' # None => listed # None BY <1>1
<1>10. ~fresh
  <2>1. updates # <<>> BY <1>1, <1>3
  <2> QED BY <2>1 DEF Wins, Told
<1>11. Told' BY <1>2, <1>5, <1>8, <1>9, <1>10, <1>1 DEF Wins, Told
<1> QED BY <1>2, <1>4, <1>6, <1>7, <1>11 DEF Wins, HeldInside, RequestWaits,
           RequestIsLast, CurrentIsLast, LoadIsLast

\* A new listing shows the level of m_creationInfo; a deleted one shows nothing.
LEMMA ListingWins == ASSUME IInv, Wins, Register \/ Delist PROVE Wins'
<1>1. UNCHANGED <<currentLevel, levelLoaded, request, held, pc, level, running, loading, asked, raced>>
  BY DEF Register, Delist, request_, engine
<1>2. Told' BY DEF Register, Delist, Wins, Told
<1> QED BY <1>1, <1>2 DEF Wins, HeldInside, RequestWaits, RequestIsLast, CurrentIsLast,
           LoadIsLast, Coming, Doomed, LastLoad

LEMMA NextWins == IInv /\ Wins /\ [Next]_vars => Wins'
<1> SUFFICES ASSUME IInv, Wins, [Next]_vars PROVE Wins' OBVIOUS
<1>0. Server \in Threads BY DEF Threads
<1>1. ASSUME NEW t \in Threads, Step(t) PROVE Wins'
  BY <1>1, QueueWins, StartWins, UpdateWins DEF Step
<1>2. ASSUME NEW t \in RpcThreads, NEW l \in LevelSet, RpcLoadLevel(t, l) PROVE Wins'
  <2>1. t \in Threads BY DEF Threads
  <2> QED BY <1>2, <2>1, AskWins DEF RpcLoadLevel
<1>3. ASSUME NEW l \in LevelSet, LoadLevelCommand(l) PROVE Wins'
  BY <1>0, <1>3, AskWins DEF LoadLevelCommand
<1>4. CASE LevelCompleted
  <2>1. Len(entries) \in Nat \ {0} BY EmptySeq DEF IInv, TypeOK
  <2>2. cursor' \in 1..Len(entries) BY <1>4, <2>1, NextIndexType DEF LevelCompleted, IInv, TypeOK
  <2>3. entries[cursor'] \in LevelSet BY <2>2 DEF IInv, TypeOK
  <2> QED BY <1>0, <1>4, <2>3, AskWins DEF LevelCompleted
<1>5. CASE \/ \E l \in LevelSet : AddLevelCommand(l)
           \/ UNCHANGED vars
  <2>1. UNCHANGED <<currentLevel, levelLoaded, request, held, pc, level, running, loading,
                    registered, updates, listed, missed, fresh, asked, raced>>
    BY <1>5 DEF AddLevelCommand, vars, request_, engine, listing
  <2> QED BY <2>1 DEF Wins, HeldInside, RequestWaits, RequestIsLast, CurrentIsLast,
             LoadIsLast, Told, Coming, Doomed, LastLoad, Telling, LastUpdate
<1>6. CASE OnLevelLoaded BY <1>6, LoadedWins
<1>7. CASE LoadRequested BY <1>7, RequestedWins
<1>8. CASE ClearRequest BY <1>8, ClearWins
<1>9. CASE LoadDone BY <1>9, DoneWins
<1>10. CASE UpdateServer BY <1>10, UpdateServerWins
<1>11. CASE Register \/ Delist BY <1>11, ListingWins
<1> QED BY <1>1, <1>2, <1>3, <1>4, <1>5, <1>6, <1>7, <1>8, <1>9, <1>10, <1>11 DEF Next

LEMMA WinsInvariance == Spec => []Wins
BY InitInv, NextInv, InitWins, NextWins, PTL DEF Spec

\* Every variable of the level hooks keeps its type: m_current stays within the rotation and
\* no call is about the empty level.
THEOREM TypeCorrect == Spec => []TypeOK
<1>1. IInv => TypeOK BY DEF IInv
<1> QED BY <1>1, Invariance, PTL

\* The engine is never told to load a second level while one loads, whatever the number of
\* gRPC threads, unless calls overtook each other.
THEOREM OneLoadHolds == Spec => []OneLoad
<1>1. IInv => OneLoad BY DEF IInv, FlagTells, OneLoad
<1> QED BY <1>1, Invariance, PTL

\* Of several requests made while levels load the last one wins, for any number of threads,
\* levels and requests: the proof follows the last request from the call that made it through
\* m_latestLoadLevelRequest to the engine.
THEOREM LatestWinsHolds == Spec => []LatestWins
<1>1. IInv /\ Wins => LatestWins
  <2>1. SUFFICES ASSUME IInv, Wins, Settled, ~raced PROVE running = asked /\ currentLevel = asked
    BY DEF LatestWins
  <2>2. Server \in Threads /\ \A t \in Threads : pc[t] = "idle" BY <2>1 DEF Settled, Idle, Threads
  <2>3. ~Doomed /\ ~Coming BY <2>2 DEF Doomed, Coming
  <2> QED BY <2>1, <2>3 DEF Wins, CurrentIsLast, LoadIsLast, LastLoad, Settled
<1> QED BY <1>1, Invariance, WinsInvariance, PTL

\* Once no call is in flight the browser lists the level of m_currentLevel, or the one of
\* m_creationInfo if the server registered again and was asked for no level since, however the
\* UpdateServer calls of the threads were ordered, unless the last one was lost or overtaken
\* (missed) or calls of two threads overtook each other (raced).
THEOREM ListingAgreesHolds == Spec => []ListingAgrees
<1>1. Wins => ListingAgrees BY DEF Wins, Told, LastUpdate, Telling, ListingAgrees, Idle
<1> QED BY <1>1, WinsInvariance, PTL
=============================================================================
