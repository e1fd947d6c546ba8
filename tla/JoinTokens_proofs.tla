-------------------------- MODULE JoinTokens_proofs --------------------------
(***************************************************************************)
(* Proofs about JoinTokens, for any users, servers, requests and clock.    *)
(***************************************************************************)
EXTENDS JoinTokens, FiniteSetTheorems, TLAPS

\* A document id that CreateJoinToken or RegisterServer has already inserted under:
\* it is never inserted under again.
Issued(i) == i \in CreateReqs => pc[i] = "ok"

\* Only an answered create has its document in the collection, owned by its caller.
LiveIssued ==
    \A i \in CreateReqs : joinTokens[i] # NoDoc => pc[i] = "ok" /\ joinTokens[i].user = user[i]

\* A consume past its lookup works on a real document that was issued.
FoundIssued ==
    \A r \in ConsumeReqs : pc[r] \notin {"idle", "failed"} =>
        found[r] \in TokenIds /\ Issued(found[r]) /\ model[r] \in Doc

\* What a consume has taken stays out of the collection.
TookGone == \A r \in ConsumeReqs : Took(r) => joinTokens[found[r]] = NoDoc

\* Progress of the delete loop of a create.
SeenIssued == \A r \in CreateReqs : \A i \in seen[r] : Issued(i)
SeenGone ==
    \A r \in CreateReqs : pc[r] \in {"DeleteByToken", "Create", "ok"} =>
        \A i \in seen[r] \ pending[r] : joinTokens[i] = NoDoc
PendingDone == \A r \in CreateReqs : pc[r] \in {"Create", "ok"} => pending[r] = {}

\* Calls of a user without overlap: one in flight, and past its read every live token
\* of the user is still on its list.
Running(r) == pc[r] \notin Final \cup {"idle"}
Alone ==
    \A q, r \in CreateReqs :
        Running(q) /\ Running(r) /\ user[q] = user[r] /\ user[r] \notin overlapped => q = r
OnList ==
    \A r \in CreateReqs :
        pc[r] \in {"DeleteByToken", "Create"} /\ user[r] \notin overlapped =>
            \A i \in CreateReqs :
                joinTokens[i] # NoDoc /\ joinTokens[i].user = user[r] => i \in pending[r]

\* The bans of the history are in force, and a check passed means none of its kind.
BarredActive ==
    \A r \in ConsumeReqs : barred[r] \subseteq bans
BarredKind ==
    \A r \in ConsumeReqs : pc[r] \notin {"idle", "failed"} =>
        barred[r] \subseteq {<<Global, model[r].user>>, <<HostOf[model[r].server], model[r].user>>}
GlobalChecked ==
    \A r \in ConsumeReqs :
        pc[r] \in {"GetServer", "DropOrphan", "GetBanForServer"} =>
            <<Global, model[r].user>> \notin barred[r]
BothChecked ==
    \A r \in ConsumeReqs : pc[r] \in {"DeleteByToken", "UpdateUser", "ok"} => barred[r] = {}

TokenInv == LiveIssued /\ FoundIssued /\ TookGone /\ SingleUse
SupersedeInv == SeenIssued /\ SeenGone /\ PendingDone
AloneInv == Alone /\ OnList /\ OneLiveToken
BanInv == BarredActive /\ BarredKind /\ GlobalChecked /\ BothChecked
IInv == TypeOK /\ TokenInv /\ SupersedeInv /\ AloneInv /\ BanInv

-----------------------------------------------------------------------------
USE ConstantsAssumption

\* The documents counted for player_count are finitely many.
LEMMA CountNat == ASSUME NEW s PROVE Cardinality(GetByServerID(s)) \in Nat
<1>1. IsFiniteSet(TokenIds) BY FS_Union DEF TokenIds
<1>2. GetByServerID(s) \subseteq TokenIds BY DEF GetByServerID
<1>3. IsFiniteSet(GetByServerID(s)) BY <1>1, <1>2, FS_Subset
<1> QED BY <1>3, FS_CardinalityType

LEMMA TypeInit == Init => TypeOK
<1> SUFFICES ASSUME Init PROVE TypeOK OBVIOUS
<1>1. \A s \in Servers : ProxyDoc(s) \in Doc BY DEF ProxyDoc, Doc
<1>2. (CHOOSE u \in Users : TRUE) \in Users OBVIOUS
<1>3. (CHOOSE s \in Servers : TRUE) \in Servers OBVIOUS
<1> QED BY <1>1, <1>2, <1>3 DEF Init, TypeOK, TokenIds, CreatePC, ConsumePC, Reqs

\* A jump stays inside the handler the request belongs to.
PCType ==
    /\ pc \in [Reqs -> CreatePC \cup ConsumePC]
    /\ \A r \in CreateReqs : pc[r] \in CreatePC
    /\ \A r \in ConsumeReqs : pc[r] \in ConsumePC

LEMMA GotoCreate ==
  ASSUME PCType, NEW r \in CreateReqs, NEW l \in CreatePC, Goto(r, l) PROVE PCType'
<1> QED BY DEF PCType, Goto, Reqs

LEMMA GotoConsume ==
  ASSUME PCType, NEW r \in ConsumeReqs, NEW l \in ConsumePC, Goto(r, l) PROVE PCType'
<1> QED BY DEF PCType, Goto, Reqs

\* Every action keeps every variable in its type: in particular a consume is never sent
\* to a state of the create handler, and player_count never goes below zero.
LEMMA TypeNext == TypeOK /\ [Next]_vars => TypeOK'
<1> SUFFICES ASSUME TypeOK, [Next]_vars PROVE TypeOK' OBVIOUS
<1> USE DEF store, createLocals, consumeLocals, history
<1>0. PCType BY DEF PCType, TypeOK
<1>1. ASSUME NEW r \in CreateReqs, NEW u \in Callers, NEW s \in Servers, CreateGetServer(r, u, s)
      PROVE TypeOK'
  <2>1. u \in Users OBVIOUS
  <2>2. (overlapped \subseteq Users)' BY <1>1, <2>1 DEF CreateGetServer, TypeOK
  <2>3. PCType' BY <1>0, <1>1, GotoCreate DEF CreateGetServer, CreatePC
  <2>4. user' \in [CreateReqs -> Users] /\ server' \in [Reqs -> Servers] /\ count' \in [CreateReqs -> Nat]
    BY <1>1, <2>1 DEF CreateGetServer, TypeOK
  <2> QED BY <1>1, <2>2, <2>3, <2>4 DEF CreateGetServer, TypeOK, PCType
<1>2. ASSUME NEW r \in CreateReqs, CreateIsBanned(r) PROVE TypeOK'
  <2>1. PCType' BY <1>0, <1>2, GotoCreate DEF CreateIsBanned, CreatePC
  <2> QED BY <1>2, <2>1 DEF CreateIsBanned, TypeOK, PCType
<1>3. ASSUME NEW r \in CreateReqs, CreateGetExisting(r) PROVE TypeOK'
  <2>1. GetByUserID(user[r]) \subseteq TokenIds BY DEF GetByUserID
  <2>2. PCType' BY <1>0, <1>3, GotoCreate DEF CreateGetExisting, CreatePC
  <2> QED BY <1>3, <2>1, <2>2 DEF CreateGetExisting, TypeOK, PCType
<1>4. ASSUME NEW r \in CreateReqs, NEW i \in TokenIds, CreateDeleteExisting(r, i) PROVE TypeOK'
  <2>1. PCType' BY <1>0, <1>4, GotoCreate DEF CreateDeleteExisting, CreatePC
  <2> QED BY <1>4, <2>1 DEF CreateDeleteExisting, DeleteByToken, AlreadyDeleted, TypeOK, PCType
<1>5. ASSUME NEW r \in CreateReqs, NEW p \in BOOLEAN, CreateInsert(r, p) PROVE TypeOK'
  <2>1. [token |-> [user |-> user[r], server |-> server[r], iat |-> now],
         user |-> user[r], server |-> server[r], created |-> now] \in Doc
    BY DEF Doc, Jwt, TypeOK, Reqs
  <2>2. PCType' BY <1>0, <1>5, GotoCreate DEF CreateInsert, CreatePC
  <2>3. CASE UNCHANGED joinTokens
    BY <1>5, <2>2, <2>3 DEF CreateInsert, TypeOK, PCType
  <2>4. CASE joinTokens' = [joinTokens EXCEPT ![r] =
               [token |-> [user |-> user[r], server |-> server[r], iat |-> now],
                user |-> user[r], server |-> server[r], created |-> now]]
    BY <1>5, <2>1, <2>2, <2>4 DEF CreateInsert, TypeOK, PCType, TokenIds
  <2> QED BY <1>5, <2>3, <2>4 DEF CreateInsert
<1>6. ASSUME NEW r \in CreateReqs, CreateError(r) PROVE TypeOK'
  <2>1. PCType' BY <1>0, <1>6, GotoCreate DEF CreateError, CreatePC
  <2> QED BY <1>6, <2>1 DEF CreateError, TypeOK, PCType
<1>7. ASSUME NEW r \in ConsumeReqs, NEW t \in Jwt, NEW s \in Servers, ConsumeGetToken(r, t, s)
      PROVE TypeOK'
  <2>0. PCType' BY <1>0, <1>7, GotoConsume DEF ConsumeGetToken, ConsumePC
  <2>1. CASE UNCHANGED <<found, model, barred>>
    BY <1>7, <2>0, <2>1 DEF ConsumeGetToken, TypeOK, PCType
  <2>2. ASSUME NEW i \in GetByToken(t),
               found' = [found EXCEPT ![r] = i],
               model' = [model EXCEPT ![r] = joinTokens[i]],
               barred' = [barred EXCEPT ![r] = BansAgainst(joinTokens[i])]
        PROVE TypeOK'
    <3>1. i \in TokenIds /\ joinTokens[i] \in Doc BY <2>2 DEF GetByToken, TypeOK
    <3>2. BansAgainst(joinTokens[i]) \subseteq Ban BY DEF BansAgainst, TypeOK
    <3> QED BY <1>7, <2>0, <2>2, <3>1, <3>2 DEF ConsumeGetToken, TypeOK, PCType
  <2> QED BY <1>7, <2>1, <2>2 DEF ConsumeGetToken
<1>8. ASSUME NEW r \in ConsumeReqs, ConsumeGetGlobalBan(r) PROVE TypeOK'
  <2>1. PCType' BY <1>0, <1>8, GotoConsume DEF ConsumeGetGlobalBan, ConsumePC
  <2> QED BY <1>8, <2>1 DEF ConsumeGetGlobalBan, TypeOK, PCType
<1>9. ASSUME NEW r \in ConsumeReqs, ConsumeGetServer(r) PROVE TypeOK'
  <2>1. PCType' BY <1>0, <1>9, GotoConsume DEF ConsumeGetServer, ConsumePC
  <2> QED BY <1>9, <2>1 DEF ConsumeGetServer, TypeOK, PCType
<1>10. ASSUME NEW r \in ConsumeReqs, ConsumeDropOrphan(r) PROVE TypeOK'
  <2>1. PCType' BY <1>0, <1>10, GotoConsume DEF ConsumeDropOrphan, ConsumePC
  <2> QED BY <1>10, <2>1 DEF ConsumeDropOrphan, DeleteByToken, AlreadyDeleted, TypeOK, PCType
<1>11. ASSUME NEW r \in ConsumeReqs, ConsumeGetServerBan(r) PROVE TypeOK'
  <2>1. PCType' BY <1>0, <1>11, GotoConsume DEF ConsumeGetServerBan, ConsumePC
  <2> QED BY <1>11, <2>1 DEF ConsumeGetServerBan, TypeOK, PCType
<1>12. ASSUME NEW r \in ConsumeReqs, ConsumeDelete(r) PROVE TypeOK'
  <2>1. PCType' BY <1>0, <1>12, GotoConsume DEF ConsumeDelete, ConsumePC
  <2> QED BY <1>12, <2>1 DEF ConsumeDelete, DeleteByToken, AlreadyDeleted, TypeOK, PCType
<1>13. ASSUME NEW r \in ConsumeReqs, ConsumeUpdateUser(r) PROVE TypeOK'
  <2>1. PCType' BY <1>0, <1>13, GotoConsume DEF ConsumeUpdateUser, ConsumePC
  <2>2. joined' = [u \in Users |-> IF u = model[r].user THEN joined[u] + 1 ELSE joined[u]]
    BY <1>13 DEF ConsumeUpdateUser, TypeOK
  <2>3. joined' \in [Users -> Nat] BY <2>2 DEF TypeOK
  <2> QED BY <1>13, <2>1, <2>3 DEF ConsumeUpdateUser, TypeOK, PCType
<1>14. ASSUME NEW r \in ConsumeReqs, ConsumeError(r) PROVE TypeOK'
  <2>1. PCType' BY <1>0, <1>14, GotoConsume DEF ConsumeError, ConsumePC
  <2> QED BY <1>14, <2>1 DEF ConsumeError, TypeOK, PCType
<1>15. ASSUME NEW s \in Servers, NEW u \in Callers, BanPlayer(s, u) PROVE TypeOK'
  <2>1. <<HostOf[s], u>> \in Ban BY DEF Ban
  <2> QED BY <1>15, <2>1 DEF BanPlayer, TypeOK
<1>16. ASSUME NEW u \in Callers, BanGlobally(u) PROVE TypeOK'
  <2>1. <<Global, u>> \in Ban BY DEF Ban
  <2> QED BY <1>16, <2>1 DEF BanGlobally, TypeOK
<1>17. ASSUME NEW b \in bans, BanEnds(b) PROVE TypeOK'
  BY <1>17 DEF BanEnds, TypeOK
<1>18. ASSUME NEW s \in Servers, CleanupServer(s) PROVE TypeOK'
  BY <1>18 DEF CleanupServer, TypeOK
<1>19. ASSUME NEW s \in Servers, NEW n \in PlayerCounts, UpdatePlayerCount(s, n)
       PROVE TypeOK'
  <2>1. n + Cardinality(GetByServerID(s)) \in Nat BY CountNat
  <2> QED BY <1>19, <2>1 DEF UpdatePlayerCount, TypeOK
<1>20. ASSUME Tick PROVE TypeOK'
  BY <1>20 DEF Tick, TypeOK
<1>21. ASSUME NEW i \in TokenIds, ExpireToken(i) PROVE TypeOK'
  BY <1>21 DEF ExpireToken, TypeOK
<1>22. CASE UNCHANGED vars
  BY <1>22 DEF vars, TypeOK
<1> QED
  BY <1>1, <1>2, <1>3, <1>4, <1>5, <1>6, <1>7, <1>8, <1>9, <1>10, <1>11, <1>12, <1>13, <1>14,
     <1>15, <1>16, <1>17, <1>18, <1>19, <1>20, <1>21, <1>22
     DEF Next, CreateStep, ConsumeStep, Environment

\* The state of the API's token collection and of every request stays well formed,
\* for any number of users, servers and concurrent requests.
THEOREM TypeCorrect == Spec => []TypeOK
<1> QED BY TypeInit, TypeNext, PTL DEF Spec

\* Environment steps that touch neither tokens nor requests.
Quiet ==
    UNCHANGED <<joinTokens, pc, server, createLocals, found, model, history>>

LEMMA QuietSteps ==
  ASSUME [Next]_vars,
         ~(\E r \in CreateReqs : CreateStep(r) \/ CreateError(r)),
         ~(\E r \in ConsumeReqs : ConsumeStep(r) \/ ConsumeError(r)),
         ~(\E i \in TokenIds : ExpireToken(i))
  PROVE  Quiet
<1> QED
  BY DEF Next, Environment, BanPlayer, BanGlobally, BanEnds, CleanupServer, UpdatePlayerCount,
         Tick, Quiet, vars, store, createLocals, consumeLocals, history

LEMMA TookFacts ==
  ASSUME TypeOK, TokenInv, NEW q \in ConsumeReqs, Took(q)
  PROVE  found[q] \in TokenIds /\ Issued(found[q]) /\ joinTokens[found[q]] = NoDoc
<1> QED BY DEF TokenInv, FoundIssued, TookGone, Took

\* Documents are inserted once, taken once and stay gone.
LEMMA TokenNext == ASSUME TypeOK, TypeOK', TokenInv, [Next]_vars PROVE TokenInv'
<1> USE DEF store, createLocals, consumeLocals, history, Goto, Final
<1> USE DEF TokenInv, LiveIssued, FoundIssued, TookGone, SingleUse, Issued, Took, TypeOK, TokenIds, Reqs
<1>1. ASSUME NEW r \in CreateReqs, NEW u \in Callers, NEW s \in Servers, CreateGetServer(r, u, s) PROVE TokenInv'
  <2>1. LiveIssued' BY <1>1 DEF CreateGetServer
  <2>2. FoundIssued' BY <1>1 DEF CreateGetServer
  <2>3. TookGone' BY <1>1 DEF CreateGetServer
  <2>4. SingleUse' BY <1>1 DEF CreateGetServer
  <2> QED BY <2>1, <2>2, <2>3, <2>4
<1>2. ASSUME NEW r \in CreateReqs, CreateIsBanned(r) PROVE TokenInv'
  BY <1>2 DEF CreateIsBanned
<1>3. ASSUME NEW r \in CreateReqs, CreateGetExisting(r) PROVE TokenInv'
  BY <1>3 DEF CreateGetExisting, GetByUserID
<1>4. ASSUME NEW r \in CreateReqs, NEW i \in TokenIds, CreateDeleteExisting(r, i) PROVE TokenInv'
  <2>1. LiveIssued' BY <1>4 DEF CreateDeleteExisting, DeleteByToken, AlreadyDeleted
  <2>2. FoundIssued' BY <1>4 DEF CreateDeleteExisting, DeleteByToken, AlreadyDeleted
  <2>3. TookGone'
    <3>1. \A q \in ConsumeReqs : (Took(q)' <=> Took(q)) /\ found'[q] = found[q]
      BY <1>4 DEF CreateDeleteExisting
    <3>2. \A j \in TokenIds : joinTokens[j] = NoDoc => joinTokens'[j] = NoDoc
      BY <1>4 DEF CreateDeleteExisting, DeleteByToken, AlreadyDeleted
    <3> HIDE DEF Took, TypeOK, TokenInv
    <3> QED BY <3>1, <3>2, TookFacts
  <2>4. SingleUse' BY <1>4 DEF CreateDeleteExisting, DeleteByToken, AlreadyDeleted
  <2> QED BY <2>1, <2>2, <2>3, <2>4
<1>5. ASSUME NEW r \in CreateReqs, NEW p \in BOOLEAN, CreateInsert(r, p) PROVE TokenInv'
  <2>0. \A i \in TokenIds : i # r => joinTokens'[i] = joinTokens[i] BY <1>5 DEF CreateInsert
  <2>1. LiveIssued' BY <1>5, <2>0 DEF CreateInsert
  <2>2. FoundIssued'
    <3>1. \A q \in ConsumeReqs : pc'[q] = pc[q] /\ found'[q] = found[q] /\ model'[q] = model[q]
      BY <1>5 DEF CreateInsert
    <3>2. \A q \in CreateReqs : pc[q] = "ok" => pc'[q] = "ok" BY <1>5 DEF CreateInsert
    <3> HIDE DEF TypeOK
    <3> QED BY <3>1, <3>2
  <2>3. TookGone'
    <3>1. \A q \in ConsumeReqs : (Took(q)' <=> Took(q)) /\ found'[q] = found[q]
      BY <1>5 DEF CreateInsert
    <3>2. ~Issued(r) BY <1>5 DEF CreateInsert
    <3> HIDE DEF Took, TypeOK, TokenInv, Issued
    <3> QED BY <2>0, <3>1, <3>2, TookFacts
  <2>4. SingleUse' BY <1>5, <2>0 DEF CreateInsert
  <2> QED BY <2>1, <2>2, <2>3, <2>4
<1>6. ASSUME NEW r \in CreateReqs, CreateError(r) PROVE TokenInv'
  BY <1>6 DEF CreateError
<1>7. ASSUME NEW r \in ConsumeReqs, NEW t \in Jwt, NEW s \in Servers, ConsumeGetToken(r, t, s) PROVE TokenInv'
  <2>1. LiveIssued' BY <1>7 DEF ConsumeGetToken, GetByToken
  <2>2. FoundIssued' BY <1>7 DEF ConsumeGetToken, GetByToken
  <2>3. TookGone' BY <1>7 DEF ConsumeGetToken, GetByToken
  <2>4. SingleUse'
    <3>1. \A q \in ConsumeReqs : (Took(q)' <=> Took(q)) /\ (Took(q) => found'[q] = found[q])
      BY <1>7 DEF ConsumeGetToken
    <3> HIDE DEF Took, TypeOK
    <3> QED BY <3>1
  <2> QED BY <2>1, <2>2, <2>3, <2>4
<1>8. ASSUME NEW r \in ConsumeReqs, ConsumeGetGlobalBan(r) PROVE TokenInv'
  BY <1>8 DEF ConsumeGetGlobalBan, GetGlobalBan
<1>9. ASSUME NEW r \in ConsumeReqs, ConsumeGetServer(r) PROVE TokenInv'
  BY <1>9 DEF ConsumeGetServer
<1>10. ASSUME NEW r \in ConsumeReqs, ConsumeDropOrphan(r) PROVE TokenInv'
  BY <1>10 DEF ConsumeDropOrphan, DeleteByToken, AlreadyDeleted
<1>11. ASSUME NEW r \in ConsumeReqs, ConsumeGetServerBan(r) PROVE TokenInv'
  BY <1>11 DEF ConsumeGetServerBan, GetBanForServer
<1>12. ASSUME NEW r \in ConsumeReqs, ConsumeDelete(r) PROVE TokenInv'
  <2>1. LiveIssued' BY <1>12 DEF ConsumeDelete, DeleteByToken, AlreadyDeleted
  <2>2. FoundIssued' BY <1>12 DEF ConsumeDelete, DeleteByToken, AlreadyDeleted
  <2>a. \A q \in ConsumeReqs : q # r => (Took(q)' <=> Took(q))
    BY <1>12 DEF ConsumeDelete
  <2>b. found' = found /\ found[r] \in TokenIds BY <1>12 DEF ConsumeDelete
  <2>c. \A j \in TokenIds : joinTokens[j] = NoDoc => joinTokens'[j] = NoDoc
    BY <1>12 DEF ConsumeDelete, DeleteByToken, AlreadyDeleted
  <2>d. Took(r)' => joinTokens[found[r]] # NoDoc /\ joinTokens'[found[r]] = NoDoc
    BY <1>12, <2>b DEF ConsumeDelete, DeleteByToken, AlreadyDeleted
  <2>3. TookGone'
    <3> HIDE DEF Took, TypeOK, TokenInv
    <3> QED BY <2>a, <2>b, <2>c, <2>d, TookFacts
  <2>4. SingleUse'
    <3>1. \A q \in ConsumeReqs : Took(q) /\ Took(r)' => found[q] # found[r]
      BY <2>d, TookFacts
    <3>2. ~Took(r) BY <1>12 DEF ConsumeDelete
    <3>3. \A q1, q2 \in ConsumeReqs : Took(q1) /\ Took(q2) /\ found[q1] = found[q2] => q1 = q2
      BY DEF TokenInv, SingleUse
    <3> HIDE DEF Took, TypeOK, TokenInv
    <3> QED BY <2>a, <2>b, <3>1, <3>2, <3>3
  <2> QED BY <2>1, <2>2, <2>3, <2>4
<1>13. ASSUME NEW r \in ConsumeReqs, ConsumeUpdateUser(r) PROVE TokenInv'
  BY <1>13 DEF ConsumeUpdateUser
<1>14. ASSUME NEW r \in ConsumeReqs, ConsumeError(r) PROVE TokenInv'
  BY <1>14 DEF ConsumeError
<1>15. ASSUME NEW i \in TokenIds, ExpireToken(i) PROVE TokenInv'
  BY <1>15 DEF ExpireToken
<1>16. CASE Quiet
  BY <1>16 DEF Quiet
<1> QED
  BY <1>1, <1>2, <1>3, <1>4, <1>5, <1>6, <1>7, <1>8, <1>9, <1>10, <1>11, <1>12, <1>13, <1>14, <1>15, <1>16, QuietSteps DEF CreateStep, ConsumeStep

-----------------------------------------------------------------------------
\* What steps of the other handler, and the TTL index, can do to a create: delete.
CreateFrame ==
    /\ \A q \in CreateReqs : pc'[q] = pc[q]
    /\ UNCHANGED <<user, seen, pending, overlapped>>
    /\ \A i \in TokenIds : joinTokens'[i] \in {joinTokens[i], NoDoc}

LEMMA CreateFramed ==
  ASSUME TypeOK, [Next]_vars, ~(\E r \in CreateReqs : CreateStep(r) \/ CreateError(r))
  PROVE  CreateFrame
<1> USE DEF store, createLocals, consumeLocals, history, Goto
<1>1. ASSUME NEW r \in ConsumeReqs, ConsumeStep(r) \/ ConsumeError(r) PROVE CreateFrame
  <2>0. \E l : pc' = [pc EXCEPT ![r] = l]
    BY <1>1 DEF ConsumeStep, ConsumeGetToken, ConsumeGetGlobalBan, ConsumeGetServer, ConsumeDropOrphan,
                ConsumeGetServerBan, ConsumeDelete, ConsumeUpdateUser, ConsumeError
  <2>1. \A q \in CreateReqs : pc'[q] = pc[q] BY <2>0 DEF TypeOK
  <2>2. UNCHANGED <<user, seen, pending, overlapped>>
    BY <1>1 DEF ConsumeStep, ConsumeGetToken, ConsumeGetGlobalBan, ConsumeGetServer, ConsumeDropOrphan,
                ConsumeGetServerBan, ConsumeDelete, ConsumeUpdateUser, ConsumeError
  <2>3. joinTokens' = joinTokens \/ \E j \in TokenIds \cup {NoId} : joinTokens' = [joinTokens EXCEPT ![j] = NoDoc]
    <3>1. CASE ConsumeDropOrphan(r) \/ ConsumeDelete(r)
      <4>1. found[r] \in TokenIds \cup {NoId} BY DEF TypeOK
      <4> QED BY <3>1, <4>1 DEF ConsumeDropOrphan, ConsumeDelete, DeleteByToken, AlreadyDeleted
    <3>2. CASE ~(ConsumeDropOrphan(r) \/ ConsumeDelete(r))
      BY <1>1, <3>2 DEF ConsumeStep, ConsumeGetToken, ConsumeGetGlobalBan, ConsumeGetServer,
                        ConsumeGetServerBan, ConsumeUpdateUser, ConsumeError
    <3> QED BY <3>1, <3>2
  <2> QED BY <2>1, <2>2, <2>3 DEF CreateFrame, TypeOK
<1>2. ASSUME NEW i \in TokenIds, ExpireToken(i) PROVE CreateFrame
  BY <1>2 DEF ExpireToken, CreateFrame, TypeOK
<1>3. CASE Quiet BY <1>3 DEF Quiet, CreateFrame
<1> QED BY <1>1, <1>2, <1>3, QuietSteps

\* The delete loop of a create leaves none of the documents it read.
LEMMA SupersedeNext ==
  ASSUME TypeOK, TypeOK', TokenInv, SupersedeInv, [Next]_vars PROVE SupersedeInv'
<1> USE DEF store, createLocals, consumeLocals, history, Goto
<1> USE DEF SupersedeInv, SeenIssued, SeenGone, PendingDone, Issued, TokenIds
<1>1. ASSUME NEW r \in CreateReqs, NEW u \in Callers, NEW s \in Servers, CreateGetServer(r, u, s)
      PROVE SupersedeInv'
  <2>1. \A q \in CreateReqs : q # r => pc'[q] = pc[q] BY <1>1 DEF CreateGetServer, TypeOK, Reqs
  <2>2. pc[r] = "idle" /\ pc'[r] \in {"failed", "isBanned"} BY <1>1 DEF CreateGetServer, TypeOK, Reqs
  <2>3. UNCHANGED <<joinTokens, seen, pending>> BY <1>1 DEF CreateGetServer
  <2> QED BY <2>1, <2>2, <2>3
<1>2. ASSUME NEW r \in CreateReqs, CreateIsBanned(r) PROVE SupersedeInv'
  BY <1>2 DEF CreateIsBanned, TypeOK, Reqs
<1>3. ASSUME NEW r \in CreateReqs, CreateGetExisting(r) PROVE SupersedeInv'
  BY <1>3 DEF CreateGetExisting, GetByUserID, TypeOK, Reqs, TokenInv, LiveIssued
<1>4. ASSUME NEW r \in CreateReqs, NEW i \in TokenIds, CreateDeleteExisting(r, i)
      PROVE SupersedeInv'
  <2>1. \A q \in CreateReqs : q # r => pc'[q] = pc[q] /\ pending'[q] = pending[q]
    BY <1>4 DEF CreateDeleteExisting, TypeOK, Reqs
  <2>2. seen' = seen /\ pc[r] = "DeleteByToken" BY <1>4 DEF CreateDeleteExisting
  <2>3. \A j \in TokenIds : joinTokens[j] = NoDoc => joinTokens'[j] = NoDoc
    BY <1>4 DEF CreateDeleteExisting, DeleteByToken, AlreadyDeleted, TypeOK
  <2>4. \/ pc'[r] = "failed"
        \/ /\ pending'[r] = pending[r] \ {i} /\ joinTokens'[i] = NoDoc
           /\ pc'[r] = IF pending[r] = {i} THEN "Create" ELSE "DeleteByToken"
    BY <1>4 DEF CreateDeleteExisting, DeleteByToken, AlreadyDeleted, TypeOK, Reqs
  <2>5. seen[r] \subseteq TokenIds /\ \A q \in CreateReqs : seen[q] \subseteq TokenIds BY DEF TypeOK
  <2>6. SeenIssued' BY <2>1, <2>2
  <2>7. SeenGone'
    <3> SUFFICES ASSUME NEW q \in CreateReqs, (pc[q] \in {"DeleteByToken", "Create", "ok"})',
                        NEW j \in seen[q] \ pending'[q]
                 PROVE joinTokens'[j] = NoDoc
      BY <2>2
    <3>1. CASE q # r BY <2>1, <2>3, <2>5, <3>1
    <3>2. CASE q = r BY <2>2, <2>3, <2>4, <2>5, <3>2
    <3> QED BY <3>1, <3>2
  <2>8. PendingDone' BY <2>1, <2>4
  <2> QED BY <2>6, <2>7, <2>8
<1>5. ASSUME NEW r \in CreateReqs, NEW p \in BOOLEAN, CreateInsert(r, p) PROVE SupersedeInv'
  <2>1. \A q \in CreateReqs : q # r => pc'[q] = pc[q] BY <1>5 DEF CreateInsert, TypeOK, Reqs
  <2>2. pc[r] = "Create" /\ pc'[r] \in {"ok", "failed"} BY <1>5 DEF CreateInsert, TypeOK, Reqs
  <2>3. UNCHANGED <<seen, pending>> BY <1>5 DEF CreateInsert
  <2>4. \A j \in TokenIds : j # r => joinTokens'[j] = joinTokens[j]
    BY <1>5 DEF CreateInsert, TypeOK
  <2>5. \A q \in CreateReqs : seen[q] \subseteq TokenIds /\ r \notin seen[q] BY <2>2 DEF TypeOK
  <2> QED BY <2>1, <2>2, <2>3, <2>4, <2>5
<1>6. ASSUME NEW r \in CreateReqs, CreateError(r) PROVE SupersedeInv'
  BY <1>6 DEF CreateError, Final, TypeOK, Reqs
<1>7. CASE CreateFrame
  <2>1. \A q \in CreateReqs : seen[q] \subseteq TokenIds BY DEF TypeOK
  <2> QED BY <1>7, <2>1 DEF CreateFrame
<1> QED BY <1>1, <1>2, <1>3, <1>4, <1>5, <1>6, <1>7, CreateFramed DEF CreateStep

\* A user without overlapping creates has one document at most.
LEMMA AloneNext ==
  ASSUME TypeOK, TypeOK', TokenInv, SupersedeInv, AloneInv, [Next]_vars PROVE AloneInv'
<1> USE DEF store, createLocals, consumeLocals, history, Goto, Final
<1> USE DEF AloneInv, Alone, OnList, OneLiveToken, Running, TokenIds
<1>1. ASSUME NEW r \in CreateReqs, NEW u \in Callers, NEW s \in Servers, CreateGetServer(r, u, s)
      PROVE AloneInv'
  BY <1>1 DEF CreateGetServer, InFlight, TypeOK, Reqs
<1>2. ASSUME NEW r \in CreateReqs, CreateIsBanned(r) PROVE AloneInv'
  BY <1>2 DEF CreateIsBanned, TypeOK, Reqs
<1>3. ASSUME NEW r \in CreateReqs, CreateGetExisting(r) PROVE AloneInv'
  BY <1>3 DEF CreateGetExisting, GetByUserID, TypeOK, Reqs
<1>4. ASSUME NEW r \in CreateReqs, NEW i \in TokenIds, CreateDeleteExisting(r, i)
      PROVE AloneInv'
  <2>1. \A q \in CreateReqs : q # r => pc'[q] = pc[q] /\ pending'[q] = pending[q]
    BY <1>4 DEF CreateDeleteExisting, TypeOK, Reqs
  <2>2. UNCHANGED <<user, overlapped>> /\ pc[r] = "DeleteByToken" BY <1>4 DEF CreateDeleteExisting
  <2>3. \A j \in TokenIds : joinTokens'[j] \in {joinTokens[j], NoDoc}
    BY <1>4 DEF CreateDeleteExisting, DeleteByToken, AlreadyDeleted, TypeOK
  <2>4. \/ pc'[r] = "failed"
        \/ /\ pending'[r] = pending[r] \ {i} /\ joinTokens'[i] = NoDoc
           /\ pc'[r] \in {"Create", "DeleteByToken"}
    BY <1>4 DEF CreateDeleteExisting, DeleteByToken, AlreadyDeleted, TypeOK, Reqs
  <2>5. Alone' BY <2>1, <2>2, <2>4
  <2>6. OnList' BY <2>1, <2>2, <2>3, <2>4
  <2>7. OneLiveToken' BY <2>2, <2>3
  <2> QED BY <2>5, <2>6, <2>7
<1>5. ASSUME NEW r \in CreateReqs, NEW p \in BOOLEAN, CreateInsert(r, p) PROVE AloneInv'
  <2>1. \A q \in CreateReqs : q # r => pc'[q] = pc[q] BY <1>5 DEF CreateInsert, TypeOK, Reqs
  <2>2. UNCHANGED <<user, pending, overlapped>> /\ pc[r] = "Create" /\ pc'[r] \in {"ok", "failed"}
    BY <1>5 DEF CreateInsert, TypeOK, Reqs
  <2>3. \A j \in TokenIds : j # r => joinTokens'[j] = joinTokens[j]
    BY <1>5 DEF CreateInsert, TypeOK
  <2>4. joinTokens'[r] = joinTokens[r] \/ joinTokens'[r].user = user[r]
    BY <1>5 DEF CreateInsert, TypeOK
  <2>5. pending[r] = {} /\ joinTokens[r] = NoDoc
    BY <2>2 DEF SupersedeInv, PendingDone, TokenInv, LiveIssued
  <2>6. Alone' BY <2>1, <2>2
  <2>7. OnList' BY <2>1, <2>2, <2>3, <2>4, <2>5
  <2>8. OneLiveToken' BY <2>2, <2>3, <2>4, <2>5
  <2> QED BY <2>6, <2>7, <2>8
<1>6. ASSUME NEW r \in CreateReqs, CreateError(r) PROVE AloneInv'
  BY <1>6 DEF CreateError, TypeOK, Reqs
<1>7. CASE CreateFrame
  BY <1>7 DEF CreateFrame
<1> QED BY <1>1, <1>2, <1>3, <1>4, <1>5, <1>6, <1>7, CreateFramed DEF CreateStep

\* A ban in force since the lookup stops the consume at one of its two checks.
LEMMA BanNext ==
  ASSUME TypeOK, TypeOK', TokenInv, BanInv, [Next]_vars PROVE BanInv'
<1> USE DEF store, createLocals, consumeLocals, history, Goto
<1> USE DEF BanInv, BarredActive, BarredKind, GlobalChecked, BothChecked
<1>1. ASSUME NEW r \in CreateReqs, CreateStep(r) \/ CreateError(r) PROVE BanInv'
  <2>0. \E l : pc' = [pc EXCEPT ![r] = l]
    BY <1>1 DEF CreateStep, CreateGetServer, CreateIsBanned, CreateGetExisting, CreateDeleteExisting,
                CreateInsert, CreateError
  <2>1. \A q \in ConsumeReqs : pc'[q] = pc[q] BY <2>0 DEF TypeOK
  <2>2. UNCHANGED <<bans, model, barred>>
    BY <1>1 DEF CreateStep, CreateGetServer, CreateIsBanned, CreateGetExisting, CreateDeleteExisting,
                CreateInsert, CreateError
  <2> QED BY <2>1, <2>2
<1>2. ASSUME NEW r \in ConsumeReqs, NEW t \in Jwt, NEW s \in Servers, ConsumeGetToken(r, t, s)
      PROVE BanInv'
  <2>1. \A q \in ConsumeReqs : q # r => pc'[q] = pc[q] /\ model'[q] = model[q] /\ barred'[q] = barred[q]
    BY <1>2 DEF ConsumeGetToken, TypeOK, Reqs
  <2>2. bans' = bans BY <1>2 DEF ConsumeGetToken
  <2>3. \/ pc'[r] = "failed" /\ barred'[r] = barred[r]
        \/ /\ pc'[r] = "GetGlobalBan" /\ barred'[r] \subseteq bans
           /\ barred'[r] \subseteq {<<Global, model'[r].user>>, <<HostOf[model'[r].server], model'[r].user>>}
    BY <1>2 DEF ConsumeGetToken, BansAgainst, TypeOK, Reqs
  <2> QED BY <2>1, <2>2, <2>3
<1>3. ASSUME NEW r \in ConsumeReqs, ConsumeGetGlobalBan(r) PROVE BanInv'
  BY <1>3 DEF ConsumeGetGlobalBan, GetGlobalBan, TypeOK, Reqs
<1>4. ASSUME NEW r \in ConsumeReqs, ConsumeGetServer(r) PROVE BanInv'
  BY <1>4 DEF ConsumeGetServer, TypeOK, Reqs
<1>5. ASSUME NEW r \in ConsumeReqs, ConsumeDropOrphan(r) PROVE BanInv'
  BY <1>5 DEF ConsumeDropOrphan, TypeOK, Reqs
<1>6. ASSUME NEW r \in ConsumeReqs, ConsumeGetServerBan(r) PROVE BanInv'
  <2>1. \A q \in ConsumeReqs : q # r => pc'[q] = pc[q] BY <1>6 DEF ConsumeGetServerBan, TypeOK, Reqs
  <2>2. UNCHANGED <<bans, model, barred>> /\ pc[r] = "GetBanForServer" BY <1>6 DEF ConsumeGetServerBan
  <2>3. \/ pc'[r] = "failed"
        \/ pc'[r] = "DeleteByToken" /\ <<HostOf[model[r].server], model[r].user>> \notin bans
    BY <1>6 DEF ConsumeGetServerBan, GetBanForServer, TypeOK, Reqs
  <2> QED BY <2>1, <2>2, <2>3
<1>7. ASSUME NEW r \in ConsumeReqs, ConsumeDelete(r) PROVE BanInv'
  BY <1>7 DEF ConsumeDelete, TypeOK, Reqs
<1>8. ASSUME NEW r \in ConsumeReqs, ConsumeUpdateUser(r) PROVE BanInv'
  BY <1>8 DEF ConsumeUpdateUser, TypeOK, Reqs
<1>9. ASSUME NEW r \in ConsumeReqs, ConsumeError(r) PROVE BanInv'
  BY <1>9 DEF ConsumeError, Final, TypeOK, Reqs
<1>10. ASSUME NEW b \in bans, BanEnds(b) PROVE BanInv'
  BY <1>10 DEF BanEnds, TypeOK
<1>11. CASE UNCHANGED <<pc, model, barred>> /\ bans \subseteq bans'
  BY <1>11
<1>12. ASSUME Environment, ~(\E b \in bans : BanEnds(b))
       PROVE UNCHANGED <<pc, model, barred>> /\ bans \subseteq bans'
  BY <1>12 DEF Environment, BanPlayer, BanGlobally, CleanupServer, UpdatePlayerCount, Tick, ExpireToken
<1> QED
  BY <1>1, <1>2, <1>3, <1>4, <1>5, <1>6, <1>7, <1>8, <1>9, <1>10, <1>11, <1>12
     DEF Next, ConsumeStep, vars

-----------------------------------------------------------------------------
LEMMA InvInit == Init => IInv
<1> SUFFICES ASSUME Init PROVE IInv OBVIOUS
<1>1. TypeOK BY TypeInit
<1>2. TokenInv
  BY <1>1 DEF Init, TokenInv, LiveIssued, FoundIssued, TookGone, SingleUse, Took, TokenIds, Reqs
<1>3. SupersedeInv BY DEF Init, SupersedeInv, SeenIssued, SeenGone, PendingDone, Reqs
<1>4. AloneInv
  BY DEF Init, AloneInv, Alone, OnList, OneLiveToken, Running, Final, TokenIds, Reqs
<1>5. BanInv BY DEF Init, BanInv, BarredActive, BarredKind, GlobalChecked, BothChecked, Reqs
<1> QED BY <1>1, <1>2, <1>3, <1>4, <1>5 DEF IInv

LEMMA InvNext == IInv /\ [Next]_vars => IInv'
<1> QED BY TypeNext, TokenNext, SupersedeNext, AloneNext, BanNext DEF IInv

LEMMA InvCorrect == Spec => []IInv
<1> QED BY InvInit, InvNext, PTL DEF Spec

\* However many ConsumeJoinToken calls race for one token, at most one of them is told
\* by FindOneAndDelete that it took the document.
THEOREM SingleUseCorrect == Spec => []SingleUse
<1>1. IInv => SingleUse BY DEF IInv, TokenInv
<1> QED BY <1>1, InvCorrect, PTL

\* No document that an answered CreateJoinToken read with GetByUserID is left.
THEOREM SupersededCorrect == Spec => []Superseded
<1>1. IInv => Superseded BY DEF IInv, SupersedeInv, SeenGone, PendingDone, Superseded
<1> QED BY <1>1, InvCorrect, PTL

\* Without overlapping CreateJoinToken calls a user holds one join token at most.
THEOREM OneLiveTokenCorrect == Spec => []OneLiveToken
<1>1. IInv => OneLiveToken BY DEF IInv, AloneInv
<1> QED BY <1>1, InvCorrect, PTL

\* A consume admits nobody against whom a ban was in force from its lookup on.
THEOREM BanRespectedCorrect == Spec => []BanRespected
<1>1. IInv => BanRespected BY DEF IInv, BanInv, BothChecked, BanRespected
<1> QED BY <1>1, InvCorrect, PTL

-----------------------------------------------------------------------------
(* The refinement. *)

\* A step that takes nothing, of those consumes that took nothing before.
SameTaken ==
    \A q \in ConsumeReqs : (Took(q)' <=> Took(q)) /\ (Took(q) => found'[q] = found[q])
SameIssued == \A r \in CreateReqs : pc'[r] = "ok" <=> pc[r] = "ok"

\* The four things a step can do to the collection.
Inserted(r) ==
    /\ ~Issued(r) /\ pc'[r] = "ok" /\ joinTokens'[r] # NoDoc
    /\ \A q \in CreateReqs \ {r} : pc'[q] = pc[q]
    /\ \A i \in TokenIds \ {r} : joinTokens'[i] = joinTokens[i]
    /\ SameTaken
Removed(i) ==
    /\ joinTokens[i] # NoDoc /\ joinTokens'[i] = NoDoc
    /\ \A j \in TokenIds \ {i} : joinTokens'[j] = joinTokens[j]
    /\ SameIssued
Taken(q) ==
    /\ ~Took(q) /\ Took(q)' /\ found' = found
    /\ \A p \in ConsumeReqs \ {q} : Took(p)' <=> Took(p)
Kept == joinTokens' = joinTokens /\ SameTaken /\ SameIssued

Effect ==
    \/ Kept
    \/ \E r \in CreateReqs : Inserted(r)
    \/ \E i \in TokenIds : Removed(i) /\ SameTaken
    \/ \E q \in ConsumeReqs : found[q] \in TokenIds /\ Removed(found[q]) /\ Taken(q)

LEMMA StepEffect == ASSUME IInv, [Next]_vars PROVE Effect
<1> USE DEF store, createLocals, consumeLocals, history, Goto, Final
<1> USE DEF SameTaken, SameIssued, Took, TypeOK, TokenIds, Reqs
<1>0. TypeOK /\ FoundIssued BY DEF IInv, TokenInv
<1>1. ASSUME NEW r \in CreateReqs, NEW u \in Callers, NEW s \in Servers, CreateGetServer(r, u, s)
      PROVE Kept
  BY <1>0, <1>1 DEF CreateGetServer, Kept
<1>2. ASSUME NEW r \in CreateReqs, CreateIsBanned(r) PROVE Kept
  BY <1>0, <1>2 DEF CreateIsBanned, Kept
<1>3. ASSUME NEW r \in CreateReqs, CreateGetExisting(r) PROVE Kept
  BY <1>0, <1>3 DEF CreateGetExisting, Kept
<1>4. ASSUME NEW r \in CreateReqs, NEW i \in TokenIds, CreateDeleteExisting(r, i)
      PROVE Kept \/ (Removed(i) /\ SameTaken)
  <2>1. SameTaken /\ SameIssued BY <1>0, <1>4 DEF CreateDeleteExisting
  <2>2. CASE DeleteByToken(i) BY <1>0, <2>1, <2>2 DEF DeleteByToken, Removed
  <2>3. CASE AlreadyDeleted(i) BY <2>1, <2>3 DEF AlreadyDeleted, Kept
  <2> QED BY <1>4, <2>2, <2>3 DEF CreateDeleteExisting
<1>5. ASSUME NEW r \in CreateReqs, NEW p \in BOOLEAN, CreateInsert(r, p) PROVE Kept \/ Inserted(r)
  <2>1. SameTaken /\ ~Issued(r) /\ \A q \in CreateReqs \ {r} : pc'[q] = pc[q]
    BY <1>0, <1>5 DEF CreateInsert, Issued
  <2>2. CASE joinTokens' = joinTokens /\ pc'[r] = "failed"
    BY <1>0, <2>1, <2>2 DEF Kept, Issued
  <2>3. CASE /\ pc'[r] = "ok"
             /\ joinTokens' = [joinTokens EXCEPT ![r] =
                  [token |-> [user |-> user[r], server |-> server[r], iat |-> now],
                   user |-> user[r], server |-> server[r], created |-> now]]
    <3>1. [token |-> [user |-> user[r], server |-> server[r], iat |-> now],
           user |-> user[r], server |-> server[r], created |-> now] \in Doc
      BY <1>0 DEF Doc, Jwt
    <3> QED BY <1>0, <2>1, <2>3, <3>1 DEF Inserted
  <2> QED BY <1>0, <1>5, <2>2, <2>3 DEF CreateInsert
<1>6. ASSUME NEW r \in CreateReqs, CreateError(r) PROVE Kept
  BY <1>0, <1>6 DEF CreateError, Kept
<1>7. ASSUME NEW r \in ConsumeReqs, NEW t \in Jwt, NEW s \in Servers, ConsumeGetToken(r, t, s)
      PROVE Kept
  BY <1>0, <1>7 DEF ConsumeGetToken, Kept
<1>8. ASSUME NEW r \in ConsumeReqs,
             ConsumeGetGlobalBan(r) \/ ConsumeGetServer(r) \/ ConsumeGetServerBan(r)
      PROVE Kept
  BY <1>0, <1>8 DEF ConsumeGetGlobalBan, ConsumeGetServer, ConsumeGetServerBan, Kept
<1>9. ASSUME NEW r \in ConsumeReqs, ConsumeDropOrphan(r)
      PROVE Kept \/ (found[r] \in TokenIds /\ Removed(found[r]) /\ SameTaken)
  <2>1. SameTaken /\ SameIssued /\ found[r] \in TokenIds
    BY <1>0, <1>9 DEF ConsumeDropOrphan, FoundIssued
  <2>2. CASE DeleteByToken(found[r]) BY <1>0, <2>1, <2>2 DEF DeleteByToken, Removed
  <2>3. CASE AlreadyDeleted(found[r]) BY <2>1, <2>3 DEF AlreadyDeleted, Kept
  <2> QED BY <1>9, <2>2, <2>3, <2>1 DEF ConsumeDropOrphan
<1>10. ASSUME NEW r \in ConsumeReqs, ConsumeDelete(r)
       PROVE Kept \/ (found[r] \in TokenIds /\ Removed(found[r]) /\ Taken(r))
  <2>1. SameIssued /\ found[r] \in TokenIds
    BY <1>0, <1>10 DEF ConsumeDelete, FoundIssued
  <2>2. CASE DeleteByToken(found[r]) /\ Goto(r, "UpdateUser")
    <3>1. Taken(r) BY <1>0, <1>10, <2>2 DEF ConsumeDelete, Taken
    <3> QED BY <1>0, <2>1, <2>2, <3>1 DEF DeleteByToken, Removed
  <2>3. CASE AlreadyDeleted(found[r]) /\ Goto(r, "failed")
    BY <1>0, <1>10, <2>1, <2>3 DEF AlreadyDeleted, Kept, ConsumeDelete
  <2> QED BY <1>10, <2>2, <2>3 DEF ConsumeDelete
<1>11. ASSUME NEW r \in ConsumeReqs, ConsumeUpdateUser(r) \/ ConsumeError(r) PROVE Kept
  BY <1>0, <1>11 DEF ConsumeUpdateUser, ConsumeError, Kept
<1>12. ASSUME NEW i \in TokenIds, ExpireToken(i) PROVE Removed(i) /\ SameTaken
  BY <1>0, <1>12 DEF ExpireToken, Removed
<1>13. CASE Quiet BY <1>13 DEF Quiet, Kept, Effect
<1> HIDE DEF SameTaken, SameIssued, Took, TypeOK, TokenIds, Reqs
<1> QED
  BY <1>1, <1>2, <1>3, <1>4, <1>5, <1>6, <1>7, <1>8, <1>9, <1>10, <1>11, <1>12, <1>13, QuietSteps
     DEF CreateStep, ConsumeStep, Effect

\* Nothing taken is in the collection, and only what was issued is there or taken.
LEMMA TicketFacts ==
  ASSUME IInv
  PROVE  /\ \A q \in ConsumeReqs : Took(q) => /\ found[q] \in TokenIds /\ Issued(found[q])
                                            /\ joinTokens[found[q]] = NoDoc
         /\ \A q \in ConsumeReqs : Took(q) => found[q] # NoId
         /\ \A i \in TokenIds : joinTokens[i] # NoDoc => Issued(i)
         /\ \A p, q \in ConsumeReqs : Took(p) /\ Took(q) /\ found[p] = found[q] => p = q
<1>1. TypeOK /\ TokenInv BY DEF IInv
<1>2. \A q \in ConsumeReqs : Took(q) => /\ found[q] \in TokenIds /\ Issued(found[q])
                                        /\ joinTokens[found[q]] = NoDoc
  BY <1>1, TookFacts
<1> QED BY <1>1, <1>2 DEF TokenInv, LiveIssued, SingleUse, Issued

LEMMA TicketInit == Init => TicketView!Init
<1> SUFFICES ASSUME Init PROVE TicketView!Init OBVIOUS
<1>1. \A q \in ConsumeReqs : ~Took(q) BY DEF Init, Took, Reqs
<1>2. \A s \in Servers : ProxyDoc(s) \in Doc BY DEF ProxyDoc, Doc
<1>3. \A i \in TokenIds : joinTokens[i] = NoDoc => i \notin Servers /\ i \in CreateReqs
  BY <1>2 DEF Init, TokenIds
<1>4. \A i \in CreateReqs : pc[i] = "idle" BY DEF Init, Reqs
<1>5. \A i \in TokenIds : TicketState(i) \in {"unissued", "live"}
  BY <1>3, <1>4 DEF TicketState
<1> QED BY <1>1, <1>5 DEF TicketView!Init

LEMMA TicketNext == ASSUME IInv, IInv', [Next]_vars PROVE [TicketView!Next]_(TicketView!vars)
<1> DEFINE ticket == [i \in TokenIds |-> TicketState(i)]
           usedBy == [r \in ConsumeReqs |-> IF Took(r) THEN found[r] ELSE NoId]
<1>0. /\ \A i \in TokenIds : i \in Servers \/ i \in CreateReqs
      /\ \A i \in Servers : i \notin CreateReqs
  BY DEF TokenIds
<1>1. CASE Kept
  <2>1. \A i \in TokenIds : TicketState(i)' = TicketState(i)
    BY <1>0, <1>1 DEF Kept, SameTaken, SameIssued, TicketState
  <2>2. usedBy' = usedBy BY <1>1 DEF Kept, SameTaken
  <2> QED BY <2>1, <2>2 DEF TicketView!vars
<1>2. ASSUME NEW r \in CreateReqs, Inserted(r) PROVE TicketView!Issue(r)
  <2>1. TicketState(r) = "unissued" /\ TicketState(r)' = "live"
    BY <1>2, <1>0, TicketFacts DEF Inserted, TicketState, Issued, TokenIds
  <2>2. \A i \in TokenIds \ {r} : TicketState(i)' = TicketState(i)
    BY <1>0, <1>2 DEF Inserted, SameTaken, TicketState
  <2>3. usedBy' = usedBy BY <1>2 DEF Inserted, SameTaken
  <2>4. r \in TokenIds BY DEF TokenIds
  <2> QED BY <2>1, <2>2, <2>3, <2>4 DEF TicketView!Issue
<1>3. ASSUME NEW i \in TokenIds, Removed(i), SameTaken PROVE TicketView!Void(i)
  <2>1. TicketState(i) = "live" /\ TicketState(i)' = "void"
    <3>1. \A q \in ConsumeReqs : ~(found'[q] = i /\ Took(q)')
      BY <1>3, TicketFacts DEF Removed, SameTaken
    <3>2. i \in CreateReqs => pc'[i] = "ok" BY <1>3, TicketFacts DEF Removed, SameIssued, Issued
    <3> QED BY <1>0, <1>3, <3>1, <3>2 DEF Removed, TicketState
  <2>2. \A j \in TokenIds \ {i} : TicketState(j)' = TicketState(j)
    BY <1>0, <1>3 DEF Removed, SameTaken, SameIssued, TicketState
  <2>3. usedBy' = usedBy BY <1>3 DEF SameTaken
  <2> QED BY <2>1, <2>2, <2>3 DEF TicketView!Void
<1>4. ASSUME NEW q \in ConsumeReqs, found[q] \in TokenIds, Removed(found[q]), Taken(q)
      PROVE TicketView!Use(found[q], q)
  <2>1. TicketState(found[q]) = "live" /\ TicketState(found[q])' = "used"
    <3>1. found[q] \in CreateReqs => pc'[found[q]] = "ok"
      BY <1>4, TicketFacts DEF Removed, SameIssued, Issued
    <3>2. TicketState(found[q])' = "used" BY <1>0, <1>4, <3>1 DEF Removed, Taken, TicketState
    <3> QED BY <1>4, <3>2 DEF Removed, TicketState
  <2>2. \A j \in TokenIds \ {found[q]} : TicketState(j)' = TicketState(j)
    BY <1>0, <1>4 DEF Removed, Taken, SameIssued, TicketState
  <2>3. usedBy[q] = NoId /\ usedBy' = [usedBy EXCEPT ![q] = found[q]]
    BY <1>4 DEF Taken
  <2> QED BY <1>4, <2>1, <2>2, <2>3 DEF TicketView!Use
<1> QED
  <2>1. Effect BY StepEffect
  <2>2. CreateReqs \subseteq TokenIds BY DEF TokenIds
  <2> QED BY <1>1, <1>2, <1>3, <1>4, <2>1, <2>2 DEF Effect, TicketView!Next

\* The join tokens of the API are one-shot tickets, for any number of concurrent calls: a
\* document is issued once, and then taken by one consume or voided, and it never returns.
THEOREM ImplementsTicketsCorrect == Spec => ImplementsTickets
<1> QED BY TicketInit, TicketNext, InvCorrect, PTL DEF Spec, ImplementsTickets, TicketView!Spec
=============================================================================
