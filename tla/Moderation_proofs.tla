-------------------------- MODULE Moderation_proofs --------------------------
(***************************************************************************)
(* Proofs about Moderation, for any sets of users and calls: the moderator *)
(* list has no duplicates and keeps every edit, and bans and unbans agree  *)
(* on the one ban in force.                                                *)
(***************************************************************************)
EXTENDS Moderation, SequenceTheorems, TLAPS

-----------------------------------------------------------------------------
(* Lists without duplicates. *)

Distinct(s) == \A j, k \in DOMAIN s : s[j] = s[k] => j = k

\* What RemoveModerator's two halves put together: the list without u.
LEMMA WithoutDistinct ==
    ASSUME NEW s \in Seq(Users), NEW u \in Elements(s), Distinct(s)
    PROVE  /\ Without(s, u) \in Seq(Users) /\ Distinct(Without(s, u))
           /\ Elements(Without(s, u)) = Elements(s) \ {u}
<1> DEFINE First(j) == j \in DOMAIN s /\ s[j] = u /\ \A i \in 1..(j - 1) : s[i] # u
           k == CHOOSE j \in DOMAIN s : s[j] = u /\ \A i \in 1..(j - 1) : s[i] # u
           a == SubSeq(s, 1, k - 1)
           b == SubSeq(s, k + 1, Len(s))
           t == a \o b
<1>1. PICK m \in DOMAIN s : s[m] = u
  BY DEF Elements
<1>2. \A i \in 1..(m - 1) : s[i] # u
  BY <1>1 DEF Distinct
<1>3. k \in DOMAIN s /\ s[k] = u
  BY <1>1, <1>2
<1>4. k \in 1..Len(s) /\ Len(s) \in Nat
  BY <1>3
<1> HIDE DEF k
<1>5. a \in Seq(Users) /\ Len(a) = k - 1 /\ \A j \in 1..(k - 1) : a[j] = s[j]
  BY <1>4
<1>6. b \in Seq(Users) /\ Len(b) = Len(s) - k /\ \A j \in 1..(Len(s) - k) : b[j] = s[k + j]
  BY <1>4
<1> HIDE DEF a, b
<1>14. /\ t \in Seq(Users) /\ Len(t) = Len(a) + Len(b)
      /\ \A j \in 1 .. Len(a) + Len(b) : t[j] = IF j <= Len(a) THEN a[j] ELSE b[j - Len(a)]
  BY <1>5, <1>6, ConcatProperties, Zenon
<1>7. Len(t) = Len(s) - 1 /\ DOMAIN t = 1..(Len(s) - 1)
  BY <1>4, <1>5, <1>6, <1>14
<1>8. ASSUME NEW j \in 1..(Len(s) - 1) PROVE t[j] = IF j < k THEN s[j] ELSE s[j + 1]
  <2>1. CASE j < k
    BY <1>4, <1>5, <1>7, <1>14, <2>1
  <2>2. CASE ~(j < k)
    <3>1. j - (k - 1) \in 1..(Len(s) - k) /\ k + (j - (k - 1)) = j + 1
      BY <1>4, <2>2
    <3>2. t[j] = b[j - (k - 1)]
      BY <1>4, <1>5, <1>7, <1>14, <2>2
    <3> QED BY <1>6, <2>2, <3>1, <3>2
  <2> QED BY <2>1, <2>2
<1>9. t = Without(s, u)
  BY DEF Without, k, a, b
<1> HIDE DEF t
<1>10. Distinct(t)
  <2> DEFINE at(j) == IF j < k THEN j ELSE j + 1
  <2>1. ASSUME NEW i \in 1..(Len(s) - 1), NEW j \in 1..(Len(s) - 1), t[i] = t[j] PROVE i = j
    <3>1. at(i) \in DOMAIN s /\ at(j) \in DOMAIN s
      BY <1>4
    <3>2. s[at(i)] = s[at(j)]
      BY <1>8, <2>1
    <3>3. at(i) = at(j)
      BY <3>1, <3>2 DEF Distinct
    <3> QED BY <1>4, <3>3
  <2> QED BY <1>7, <2>1 DEF Distinct
<1>11. Elements(t) \subseteq Elements(s) \ {u}
  <2>1. ASSUME NEW j \in 1..(Len(s) - 1) PROVE t[j] \in Elements(s) \ {u}
    <3>1. CASE j < k
      BY <1>3, <1>4, <1>8, <3>1 DEF Distinct, Elements
    <3>2. CASE ~(j < k)
      <4>1. j + 1 \in DOMAIN s /\ j + 1 # k /\ t[j] = s[j + 1]
        BY <1>4, <1>8, <3>2
      <4> QED BY <1>3, <4>1 DEF Distinct, Elements
    <3> QED BY <3>1, <3>2
  <2> QED BY <1>7, <2>1 DEF Elements
<1>12. ASSUME NEW j \in DOMAIN s, s[j] # u PROVE s[j] \in Elements(t)
  <2>1. CASE j < k
    <3>1. j \in 1..Len(t) /\ t[j] = s[j]
      BY <1>4, <1>7, <1>8, <2>1
    <3> QED BY <3>1, <1>7 DEF Elements
  <2>2. CASE j > k
    <3>1. j - 1 \in 1..Len(t) /\ t[j - 1] = s[j]
      BY <1>4, <1>7, <1>8, <2>2
    <3> QED BY <3>1, <1>7 DEF Elements
  <2> QED BY <2>1, <2>2, <1>3, <1>4, <1>12
<1>13. Elements(s) \ {u} \subseteq Elements(t)
  BY <1>12 DEF Elements
<1> QED BY <1>14, <1>9, <1>10, <1>11, <1>13

\* What AddModerator's append does.
LEMMA AppendDistinct ==
    ASSUME NEW s \in Seq(Users), NEW u \in Users, u \notin Elements(s), Distinct(s),
           NEW t, t = Append(s, u)
    PROVE  t \in Seq(Users) /\ Distinct(t) /\ Elements(t) = Elements(s) \cup {u}
<1>1. /\ t \in Seq(Users) /\ t[Len(s) + 1] = u /\ \A j \in 1..Len(s) : t[j] = s[j]
      /\ DOMAIN t = 1..(Len(s) + 1) /\ DOMAIN s = 1..Len(s) /\ Len(s) \in Nat
  OBVIOUS
<1>2. Distinct(t)
  BY <1>1 DEF Distinct, Elements
<1>3. Elements(t) = Elements(s) \cup {u}
  BY <1>1 DEF Elements
<1> QED BY <1>1, <1>2, <1>3

-----------------------------------------------------------------------------
(* The inductive invariant. *)

\* What an unban is about to overturn was found in the collection.
Found == \A r \in Unbans : pc[r] = "update" => found[r] \in punishments

\* An edit about to write holds a list without duplicates, to which its edit applies.
Copy ==
    \A e \in Edits :
        /\ Distinct(list[e])
        /\ pc[e] = "write" => (op[e] = "add") = (target[e] \notin Elements(list[e]))

\* While no two edits were in flight at once, the one that is holds the current list.
Alone ==
    clashed = {} =>
        /\ \A e \in Edits : InFlight(e) => list[e] = moderatorIDs
        /\ \A d, e \in Edits : InFlight(d) /\ InFlight(e) => d = e

\* A punishment does not exist before its call inserts it.
NotYet ==
    \A b \in Bans \cup Kicks :
        pc[b] \in {"idle", "lookup", "create"} => b \notin punishments

\* Two bans of one player in flight at once are in the history.
RacedKnown ==
    \A b, c \in Bans :
        b # c /\ InFlight(b) /\ InFlight(c) /\ target[b] = target[c] => target[b] \in raced

\* The check a ban has made still holds when it inserts, unless it raced.
Clear ==
    \A b \in Bans : pc[b] = "create" /\ target[b] \notin raced => GetBanForServer(target[b]) = {}

\* UnbanLifts, before the update: only the ban it found is left to lift.
OnlyFound ==
    \A r \in Unbans : pc[r] = "update" /\ target[r] \notin raced =>
        GetBanForServer(target[r]) \subseteq {found[r]} \cup since[r]

IInv ==
    /\ TypeOK /\ Found /\ Copy /\ Alone /\ NoDuplicates /\ EditsKept
    /\ NotYet /\ RacedKnown /\ Clear /\ OneActiveBan /\ OnlyFound /\ UnbanLifts

-----------------------------------------------------------------------------

\* What EditWrite makes of a list its edit applies to.
LEMMA WriteDistinct ==
    ASSUME TypeOK, Copy, NEW e \in Edits, EditWrite(e)
    PROVE  /\ moderatorIDs' \in Seq(Users) /\ Distinct(moderatorIDs')
           /\ Elements(moderatorIDs') =
                IF op[e] = "add" THEN Elements(list[e]) \cup {target[e]}
                ELSE Elements(list[e]) \ {target[e]}
<1>1. /\ list[e] \in Seq(Users) /\ target[e] \in Users /\ Distinct(list[e])
      /\ (op[e] = "add") = (target[e] \notin Elements(list[e]))
  BY DEF TypeOK, Copy, EditWrite, Reqs
<1>2. CASE op[e] = "add"
  <2>1. moderatorIDs' = Append(list[e], target[e])
    BY <1>2 DEF EditWrite
  <2> QED BY <1>1, <1>2, <2>1, AppendDistinct
<1>3. CASE op[e] # "add"
  <2>1. moderatorIDs' = Without(list[e], target[e]) /\ target[e] \in Elements(list[e])
    BY <1>1, <1>3 DEF EditWrite
  <2> QED BY <1>1, <1>3, <2>1, WithoutDistinct
<1> QED BY <1>2, <1>3

\* The edits of the moderator list leave the punishments and the calls about them alone.
LEMMA EditFrame ==
    ASSUME TypeOK,
           \E e \in Edits : EditWrite(e) \/ \E u \in Users, o \in {"add", "remove"} : EditRead(e, u, o)
    PROVE  /\ \A r \in Calls : pc'[r] = pc[r] /\ target'[r] = target[r]
           /\ UNCHANGED <<punishments, overturned, expired, found, raced, since>>
           /\ \A v \in Users : GetBanForServer(v)' = GetBanForServer(v)
<1>1. PICK e \in Edits : EditWrite(e) \/ \E u \in Users, o \in {"add", "remove"} : EditRead(e, u, o)
  OBVIOUS
<1>2. /\ \A r \in Calls : pc'[r] = pc[r] /\ target'[r] = target[r]
      /\ UNCHANGED <<punishments, overturned, expired, found, raced, since>>
  <2>1. CASE EditWrite(e)
    BY <2>1, ModerationAssumption DEF EditWrite, TypeOK, Answer, Goto, banVars, Reqs
  <2>2. CASE \E u \in Users, o \in {"add", "remove"} : EditRead(e, u, o)
    BY <2>2, ModerationAssumption DEF EditRead, TypeOK, Goto, store, banVars, Reqs
  <2> QED BY <1>1, <2>1, <2>2
<1> QED BY <1>2 DEF GetBanForServer, Calls, TypeOK

\* Every step keeps the types, and overturns only punishments that exist.
LEMMA TypeStep ==
    ASSUME TypeOK, Found, Copy, [Next]_vars
    PROVE  TypeOK'
<1> USE ModerationAssumption DEF TypeOK, Found, Copy, Goto, Answer, InFlight,
        GetBanForServer, store, editVars, banVars, Reqs, Calls
<1>1. CASE \E e \in Edits, u \in Users, o \in {"add", "remove"} : EditRead(e, u, o)
  BY <1>1 DEF EditRead
<1>2. CASE \E e \in Edits : EditWrite(e)
  <2>1. PICK e \in Edits : EditWrite(e)
    BY <1>2
  <2>2. moderatorIDs' \in Seq(Users)
    BY <2>1, WriteDistinct
  <2>3. intended' \subseteq Users
    BY <2>1 DEF EditWrite
  <2> QED BY <2>1, <2>2, <2>3 DEF EditWrite
<1>3. CASE \E r \in Calls, caller, u \in Users : IsModerator(r, caller, u)
  BY <1>3 DEF IsModerator
<1>4. CASE \E r \in Calls : BanLookup(r)
  BY <1>4 DEF BanLookup
<1>5. CASE \E r \in Calls : Create(r)
  <2>1. since' \in [Unbans -> SUBSET Bans]
    BY <1>5 DEF Create
  <2> QED BY <1>5, <2>1 DEF Create
<1>6. CASE \E r \in Calls : UnbanLookup(r)
  <2>1. PICK r \in Unbans : UnbanLookup(r)
    BY <1>6 DEF UnbanLookup
  <2>2. since' \in [Unbans -> SUBSET Bans]
    BY <2>1 DEF UnbanLookup
  <2>3. /\ found' \in [Unbans -> Bans \cup Kicks \cup {NoPunishment}]
        /\ pc' \in [Reqs -> {"idle", "write", "lookup", "create", "update", "ok", "failed"}]
    <3>1. CASE Goto(r, "failed") /\ UNCHANGED found
      BY <3>1
    <3>2. CASE \E p \in GetBanForServer(target[r]) :
                  found' = [found EXCEPT ![r] = p] /\ Goto(r, "update")
      BY <3>2
    <3> QED BY <2>1, <3>1, <3>2 DEF UnbanLookup
  <2> QED BY <2>1, <2>2, <2>3 DEF UnbanLookup
<1>7. CASE \E r \in Calls : UnbanUpdate(r)
  BY <1>7 DEF UnbanUpdate
<1>8. CASE \E r \in Reqs : Error(r)
  BY <1>8 DEF Error
<1>9. CASE \E p \in Bans : Expire(p)
  BY <1>9 DEF Expire
<1>10. CASE UNCHANGED vars
  BY <1>10 DEF vars
<1> QED BY <1>1, <1>2, <1>3, <1>4, <1>5, <1>6, <1>7, <1>8, <1>9, <1>10 DEF Next

\* Every step keeps Found: punishments are never deleted.
LEMMA FoundStep ==
    ASSUME TypeOK, Found, [Next]_vars
    PROVE  Found'
<1> USE ModerationAssumption DEF TypeOK, Found, Goto, Answer, InFlight, GetBanForServer,
        store, editVars, banVars, Reqs, Calls
<1>1. CASE \E e \in Edits, u \in Users, o \in {"add", "remove"} : EditRead(e, u, o)
  BY <1>1 DEF EditRead
<1>2. CASE \E e \in Edits : EditWrite(e)
  BY <1>2 DEF EditWrite
<1>3. CASE \E r \in Calls, caller, u \in Users : IsModerator(r, caller, u)
  BY <1>3 DEF IsModerator
<1>4. CASE \E r \in Calls : BanLookup(r)
  BY <1>4 DEF BanLookup
<1>5. CASE \E r \in Calls : Create(r)
  BY <1>5 DEF Create
<1>6. CASE \E r \in Calls : UnbanLookup(r)
  BY <1>6 DEF UnbanLookup
<1>7. CASE \E r \in Calls : UnbanUpdate(r)
  BY <1>7 DEF UnbanUpdate
<1>8. CASE \E r \in Reqs : Error(r)
  BY <1>8 DEF Error
<1>9. CASE \E p \in Bans : Expire(p)
  BY <1>9 DEF Expire
<1>10. CASE UNCHANGED vars
  BY <1>10 DEF vars
<1> QED BY <1>1, <1>2, <1>3, <1>4, <1>5, <1>6, <1>7, <1>8, <1>9, <1>10 DEF Next

\* Every step keeps Copy.
LEMMA CopyStep ==
    ASSUME TypeOK, NoDuplicates, Copy, [Next]_vars
    PROVE  Copy'
<1> USE ModerationAssumption DEF TypeOK, NoDuplicates, Copy, Goto, Answer, InFlight,
        GetBanForServer, store, editVars, banVars, Reqs, Calls, Distinct
<1>1. CASE \E e \in Edits, u \in Users, o \in {"add", "remove"} : EditRead(e, u, o)
  BY <1>1 DEF EditRead
<1>2. CASE \E e \in Edits : EditWrite(e)
  BY <1>2 DEF EditWrite
<1>3. CASE \E r \in Calls, caller, u \in Users : IsModerator(r, caller, u)
  BY <1>3 DEF IsModerator
<1>4. CASE \E r \in Calls : BanLookup(r)
  BY <1>4 DEF BanLookup
<1>5. CASE \E r \in Calls : Create(r)
  BY <1>5 DEF Create
<1>6. CASE \E r \in Calls : UnbanLookup(r)
  BY <1>6 DEF UnbanLookup
<1>7. CASE \E r \in Calls : UnbanUpdate(r)
  BY <1>7 DEF UnbanUpdate
<1>8. CASE \E r \in Reqs : Error(r)
  BY <1>8 DEF Error
<1>9. CASE \E p \in Bans : Expire(p)
  BY <1>9 DEF Expire
<1>10. CASE UNCHANGED vars
  BY <1>10 DEF vars
<1> QED BY <1>1, <1>2, <1>3, <1>4, <1>5, <1>6, <1>7, <1>8, <1>9, <1>10 DEF Next

\* Every step keeps Alone: a second edit is in the history when it begins.
LEMMA AloneStep ==
    ASSUME TypeOK, Alone, [Next]_vars
    PROVE  Alone'
<1> USE ModerationAssumption DEF TypeOK, Alone, Goto, Answer, InFlight, GetBanForServer,
        store, editVars, banVars, Reqs, Calls
<1>1. CASE \E e \in Edits, u \in Users, o \in {"add", "remove"} : EditRead(e, u, o)
  <2>1. PICK e \in Edits, u \in Users, o \in {"add", "remove"} : EditRead(e, u, o)
    BY <1>1
  <2>2. CASE \E d \in Edits : InFlight(d)
    BY <2>1, <2>2 DEF EditRead
  <2>3. CASE \A d \in Edits : ~InFlight(d)
    <3>1. list'[e] = moderatorIDs /\ moderatorIDs' = moderatorIDs
      BY <2>1 DEF EditRead
    <3>2. \A d \in Edits \ {e} : pc'[d] = pc[d]
      BY <2>1 DEF EditRead
    <3> QED BY <2>3, <3>1, <3>2
  <2> QED BY <2>2, <2>3
<1>2. CASE \E e \in Edits : EditWrite(e)
  <2>1. PICK e \in Edits : EditWrite(e)
    BY <1>2
  <2>2. /\ clashed' = clashed /\ InFlight(e) /\ pc'[e] \in {"ok", "failed"}
        /\ \A d \in Edits \ {e} : pc'[d] = pc[d]
    BY <2>1 DEF EditWrite
  <2> QED BY <2>2
<1>3. CASE \E r \in Calls, caller, u \in Users : IsModerator(r, caller, u)
  BY <1>3 DEF IsModerator
<1>4. CASE \E r \in Calls : BanLookup(r)
  BY <1>4 DEF BanLookup
<1>5. CASE \E r \in Calls : Create(r)
  BY <1>5 DEF Create
<1>6. CASE \E r \in Calls : UnbanLookup(r)
  BY <1>6 DEF UnbanLookup
<1>7. CASE \E r \in Calls : UnbanUpdate(r)
  BY <1>7 DEF UnbanUpdate
<1>8. CASE \E r \in Reqs : Error(r)
  BY <1>8 DEF Error
<1>9. CASE \E p \in Bans : Expire(p)
  BY <1>9 DEF Expire
<1>10. CASE UNCHANGED vars
  BY <1>10 DEF vars
<1> QED BY <1>1, <1>2, <1>3, <1>4, <1>5, <1>6, <1>7, <1>8, <1>9, <1>10 DEF Next

\* Every step keeps NoDuplicates.
LEMMA NoDuplicatesStep ==
    ASSUME TypeOK, Copy, NoDuplicates, [Next]_vars
    PROVE  NoDuplicates'
<1> USE ModerationAssumption DEF TypeOK, Copy, NoDuplicates, Goto, Answer, InFlight,
        GetBanForServer, store, editVars, banVars, Reqs, Calls
<1>1. CASE \E e \in Edits, u \in Users, o \in {"add", "remove"} : EditRead(e, u, o)
  BY <1>1 DEF EditRead
<1>2. CASE \E e \in Edits : EditWrite(e)
  BY <1>2, WriteDistinct DEF Distinct
<1>3. CASE \E r \in Calls, caller, u \in Users : IsModerator(r, caller, u)
  BY <1>3 DEF IsModerator
<1>4. CASE \E r \in Calls : BanLookup(r)
  BY <1>4 DEF BanLookup
<1>5. CASE \E r \in Calls : Create(r)
  BY <1>5 DEF Create
<1>6. CASE \E r \in Calls : UnbanLookup(r)
  BY <1>6 DEF UnbanLookup
<1>7. CASE \E r \in Calls : UnbanUpdate(r)
  BY <1>7 DEF UnbanUpdate
<1>8. CASE \E r \in Reqs : Error(r)
  BY <1>8 DEF Error
<1>9. CASE \E p \in Bans : Expire(p)
  BY <1>9 DEF Expire
<1>10. CASE UNCHANGED vars
  BY <1>10 DEF vars
<1> QED BY <1>1, <1>2, <1>3, <1>4, <1>5, <1>6, <1>7, <1>8, <1>9, <1>10 DEF Next

\* Every step keeps EditsKept.
LEMMA EditsStep ==
    ASSUME TypeOK, Copy, Alone, EditsKept, [Next]_vars
    PROVE  EditsKept'
<1> USE ModerationAssumption DEF TypeOK, Copy, Alone, EditsKept, Goto, Answer, InFlight,
        GetBanForServer, store, editVars, banVars, Reqs, Calls
<1>1. CASE \E e \in Edits, u \in Users, o \in {"add", "remove"} : EditRead(e, u, o)
  BY <1>1 DEF EditRead
<1>2. CASE \E e \in Edits : EditWrite(e)
  <2>1. PICK e \in Edits : EditWrite(e)
    BY <1>2
  <2>2. clashed' = clashed /\ (clashed = {} => list[e] = moderatorIDs)
    BY <2>1 DEF EditWrite
  <2>3. Elements(moderatorIDs') =
          IF op[e] = "add" THEN Elements(list[e]) \cup {target[e]} ELSE Elements(list[e]) \ {target[e]}
    BY <2>1, WriteDistinct
  <2>4. intended' = IF op[e] = "add" THEN intended \cup {target[e]} ELSE intended \ {target[e]}
    BY <2>1 DEF EditWrite
  <2> QED BY <2>2, <2>3, <2>4
<1>3. CASE \E r \in Calls, caller, u \in Users : IsModerator(r, caller, u)
  BY <1>3 DEF IsModerator
<1>4. CASE \E r \in Calls : BanLookup(r)
  BY <1>4 DEF BanLookup
<1>5. CASE \E r \in Calls : Create(r)
  BY <1>5 DEF Create
<1>6. CASE \E r \in Calls : UnbanLookup(r)
  BY <1>6 DEF UnbanLookup
<1>7. CASE \E r \in Calls : UnbanUpdate(r)
  BY <1>7 DEF UnbanUpdate
<1>8. CASE \E r \in Reqs : Error(r)
  BY <1>8 DEF Error
<1>9. CASE \E p \in Bans : Expire(p)
  BY <1>9 DEF Expire
<1>10. CASE UNCHANGED vars
  BY <1>10 DEF vars
<1> QED BY <1>1, <1>2, <1>3, <1>4, <1>5, <1>6, <1>7, <1>8, <1>9, <1>10 DEF Next

\* Every step keeps NotYet.
LEMMA NotYetStep ==
    ASSUME TypeOK, NotYet, [Next]_vars
    PROVE  NotYet'
<1> USE ModerationAssumption DEF TypeOK, NotYet, Goto, Answer, InFlight,
        GetBanForServer, store, editVars, banVars, Reqs, Calls
<1>1. CASE \E e \in Edits, u \in Users, o \in {"add", "remove"} : EditRead(e, u, o)
  BY <1>1, EditFrame
<1>2. CASE \E e \in Edits : EditWrite(e)
  BY <1>2, EditFrame
<1>3. CASE \E r \in Calls, caller, u \in Users : IsModerator(r, caller, u)
  BY <1>3 DEF IsModerator
<1>4. CASE \E r \in Calls : BanLookup(r)
  BY <1>4 DEF BanLookup
<1>5. CASE \E r \in Calls : Create(r)
  BY <1>5 DEF Create
<1>6. CASE \E r \in Calls : UnbanLookup(r)
  BY <1>6 DEF UnbanLookup
<1>7. CASE \E r \in Calls : UnbanUpdate(r)
  BY <1>7 DEF UnbanUpdate
<1>8. CASE \E r \in Reqs : Error(r)
  BY <1>8 DEF Error
<1>9. CASE \E p \in Bans : Expire(p)
  BY <1>9 DEF Expire
<1>10. CASE UNCHANGED vars
  BY <1>10 DEF vars
<1> QED BY <1>1, <1>2, <1>3, <1>4, <1>5, <1>6, <1>7, <1>8, <1>9, <1>10 DEF Next

\* Every step keeps RacedKnown.
LEMMA RacedStep ==
    ASSUME TypeOK, RacedKnown, [Next]_vars
    PROVE  RacedKnown'
<1> USE ModerationAssumption DEF TypeOK, RacedKnown, Goto, Answer, InFlight,
        GetBanForServer, store, editVars, banVars, Reqs, Calls
<1>1. CASE \E e \in Edits, u \in Users, o \in {"add", "remove"} : EditRead(e, u, o)
  BY <1>1, EditFrame
<1>2. CASE \E e \in Edits : EditWrite(e)
  BY <1>2, EditFrame
<1>3. CASE \E r \in Calls, caller, u \in Users : IsModerator(r, caller, u)
  BY <1>3 DEF IsModerator
<1>4. CASE \E r \in Calls : BanLookup(r)
  BY <1>4 DEF BanLookup
<1>5. CASE \E r \in Calls : Create(r)
  BY <1>5 DEF Create
<1>6. CASE \E r \in Calls : UnbanLookup(r)
  BY <1>6 DEF UnbanLookup
<1>7. CASE \E r \in Calls : UnbanUpdate(r)
  BY <1>7 DEF UnbanUpdate
<1>8. CASE \E r \in Reqs : Error(r)
  BY <1>8 DEF Error
<1>9. CASE \E p \in Bans : Expire(p)
  BY <1>9 DEF Expire
<1>10. CASE UNCHANGED vars
  BY <1>10 DEF vars
<1> QED BY <1>1, <1>2, <1>3, <1>4, <1>5, <1>6, <1>7, <1>8, <1>9, <1>10 DEF Next

\* Every step keeps Clear: another ban of the player would be in flight too.
LEMMA ClearStep ==
    ASSUME TypeOK, NotYet, RacedKnown, Clear, [Next]_vars
    PROVE  Clear'
<1> USE ModerationAssumption DEF TypeOK, NotYet, RacedKnown, Clear, Goto, Answer,
        InFlight, GetBanForServer, store, editVars, banVars, Reqs, Calls
<1>1. CASE \E e \in Edits, u \in Users, o \in {"add", "remove"} : EditRead(e, u, o)
  BY <1>1, EditFrame
<1>2. CASE \E e \in Edits : EditWrite(e)
  BY <1>2, EditFrame
<1>3. CASE \E r \in Calls, caller, u \in Users : IsModerator(r, caller, u)
  BY <1>3 DEF IsModerator
<1>4. CASE \E r \in Calls : BanLookup(r)
  BY <1>4 DEF BanLookup
<1>5. CASE \E r \in Calls : Create(r)
  BY <1>5 DEF Create
<1>6. CASE \E r \in Calls : UnbanLookup(r)
  BY <1>6 DEF UnbanLookup
<1>7. CASE \E r \in Calls : UnbanUpdate(r)
  BY <1>7 DEF UnbanUpdate
<1>8. CASE \E r \in Reqs : Error(r)
  BY <1>8 DEF Error
<1>9. CASE \E p \in Bans : Expire(p)
  BY <1>9 DEF Expire
<1>10. CASE UNCHANGED vars
  BY <1>10 DEF vars
<1> QED BY <1>1, <1>2, <1>3, <1>4, <1>5, <1>6, <1>7, <1>8, <1>9, <1>10 DEF Next

\* Every step keeps OneActiveBan.
LEMMA OneActiveBanStep ==
    ASSUME TypeOK, NotYet, Clear, OneActiveBan, [Next]_vars
    PROVE  OneActiveBan'
<1> USE ModerationAssumption DEF TypeOK, NotYet, Clear, OneActiveBan, Goto, Answer,
        InFlight, GetBanForServer, store, editVars, banVars, Reqs, Calls
<1>1. CASE \E e \in Edits, u \in Users, o \in {"add", "remove"} : EditRead(e, u, o)
  <2>1. /\ \A r \in Calls : pc'[r] = pc[r] /\ target'[r] = target[r]
        /\ UNCHANGED <<punishments, overturned, expired, found, raced, since>>
    BY <1>1, EditFrame
  <2> QED BY <2>1
<1>2. CASE \E e \in Edits : EditWrite(e)
  <2>1. /\ \A r \in Calls : pc'[r] = pc[r] /\ target'[r] = target[r]
        /\ UNCHANGED <<punishments, overturned, expired, found, raced, since>>
    BY <1>2, EditFrame
  <2> QED BY <2>1
<1>3. CASE \E r \in Calls, caller, u \in Users : IsModerator(r, caller, u)
  BY <1>3 DEF IsModerator
<1>4. CASE \E r \in Calls : BanLookup(r)
  BY <1>4 DEF BanLookup
<1>5. CASE \E r \in Calls : Create(r)
  <2>1. PICK r \in Bans \cup Kicks : Create(r)
    BY <1>5 DEF Create
  <2>2. /\ pc[r] = "create" /\ punishments' = punishments \cup {r}
        /\ UNCHANGED <<overturned, expired, target, raced>>
    BY <2>1 DEF Create
  <2>3. ASSUME r \in Bans, target[r] \notin raced
        PROVE  \A p \in punishments \cap Bans : target[p] = target[r] => p \in overturned \cup expired
    BY <2>2, <2>3
  <2>4. ASSUME NEW p \in punishments' \cap Bans, NEW q \in punishments' \cap Bans,
               target[p] = target[q], target[p] \notin raced,
               p \notin overturned \cup expired, q \notin overturned \cup expired
        PROVE  p = q
    <3>1. CASE p = r \/ q = r
      BY <2>2, <2>3, <2>4, <3>1
    <3>2. CASE p # r /\ q # r
      BY <2>2, <2>4, <3>2
    <3> QED BY <3>1, <3>2
  <2> QED BY <2>2, <2>4
<1>6. CASE \E r \in Calls : UnbanLookup(r)
  <2>1. UNCHANGED <<punishments, overturned, expired, target, raced>>
    BY <1>6 DEF UnbanLookup
  <2> QED BY <2>1
<1>7. CASE \E r \in Calls : UnbanUpdate(r)
  BY <1>7 DEF UnbanUpdate
<1>8. CASE \E r \in Reqs : Error(r)
  BY <1>8 DEF Error
<1>9. CASE \E p \in Bans : Expire(p)
  BY <1>9 DEF Expire
<1>10. CASE UNCHANGED vars
  BY <1>10 DEF vars
<1> QED BY <1>1, <1>2, <1>3, <1>4, <1>5, <1>6, <1>7, <1>8, <1>9, <1>10 DEF Next

\* Every step keeps OnlyFound: what is inserted after the lookup is in since.
LEMMA OnlyFoundStep ==
    ASSUME TypeOK, NotYet, OneActiveBan, OnlyFound, [Next]_vars
    PROVE  OnlyFound'
<1> USE ModerationAssumption DEF TypeOK, NotYet, OneActiveBan, OnlyFound, Goto, Answer,
        InFlight, GetBanForServer, store, editVars, banVars, Reqs, Calls
<1>1. CASE \E e \in Edits, u \in Users, o \in {"add", "remove"} : EditRead(e, u, o)
  <2>1. /\ \A r \in Calls : pc'[r] = pc[r] /\ target'[r] = target[r]
        /\ UNCHANGED <<punishments, overturned, expired, found, raced, since>>
    BY <1>1, EditFrame
  <2> QED BY <2>1
<1>2. CASE \E e \in Edits : EditWrite(e)
  <2>1. /\ \A r \in Calls : pc'[r] = pc[r] /\ target'[r] = target[r]
        /\ UNCHANGED <<punishments, overturned, expired, found, raced, since>>
    BY <1>2, EditFrame
  <2> QED BY <2>1
<1>3. CASE \E r \in Calls, caller, u \in Users : IsModerator(r, caller, u)
  BY <1>3 DEF IsModerator
<1>4. CASE \E r \in Calls : BanLookup(r)
  BY <1>4 DEF BanLookup
<1>5. CASE \E r \in Calls : Create(r)
  <2>1. PICK r \in Bans \cup Kicks : Create(r)
    BY <1>5 DEF Create
  <2>2. /\ \A q \in Unbans : pc'[q] = pc[q] /\ since[q] \subseteq since'[q]
        /\ punishments' = punishments \cup {r}
        /\ UNCHANGED <<overturned, expired, target, found, raced>>
    BY <2>1 DEF Create
  <2>3. r \in Bans => \A q \in Unbans : r \in since'[q]
    BY <2>1 DEF Create
  <2> QED BY <2>1, <2>2, <2>3
<1>6. CASE \E r \in Calls : UnbanLookup(r)
  <2>1. PICK r \in Unbans : UnbanLookup(r)
    BY <1>6 DEF UnbanLookup
  <2>2. /\ \A q \in Unbans \ {r} : pc'[q] = pc[q] /\ found'[q] = found[q] /\ since'[q] = since[q]
        /\ UNCHANGED <<punishments, overturned, expired, target, raced>>
    BY <2>1 DEF UnbanLookup
  <2>3. ASSUME pc'[r] = "update", target[r] \notin raced
        PROVE  GetBanForServer(target[r]) \subseteq {found'[r]}
    <3>1. PICK p \in GetBanForServer(target[r]) : found' = [found EXCEPT ![r] = p]
      BY <2>1, <2>3 DEF UnbanLookup
    <3> QED BY <2>3, <3>1
  <2> QED BY <2>2, <2>3
<1>7. CASE \E r \in Calls : UnbanUpdate(r)
  BY <1>7 DEF UnbanUpdate
<1>8. CASE \E r \in Reqs : Error(r)
  BY <1>8 DEF Error
<1>9. CASE \E p \in Bans : Expire(p)
  BY <1>9 DEF Expire
<1>10. CASE UNCHANGED vars
  BY <1>10 DEF vars
<1> QED BY <1>1, <1>2, <1>3, <1>4, <1>5, <1>6, <1>7, <1>8, <1>9, <1>10 DEF Next

\* Every step keeps UnbanLifts.
LEMMA UnbanStep ==
    ASSUME TypeOK, NotYet, OnlyFound, UnbanLifts, [Next]_vars
    PROVE  UnbanLifts'
<1> USE ModerationAssumption DEF TypeOK, NotYet, OnlyFound, UnbanLifts, Goto, Answer,
        InFlight, GetBanForServer, store, editVars, banVars, Reqs, Calls
<1>1. CASE \E e \in Edits, u \in Users, o \in {"add", "remove"} : EditRead(e, u, o)
  BY <1>1, EditFrame
<1>2. CASE \E e \in Edits : EditWrite(e)
  BY <1>2, EditFrame
<1>3. CASE \E r \in Calls, caller, u \in Users : IsModerator(r, caller, u)
  BY <1>3 DEF IsModerator
<1>4. CASE \E r \in Calls : BanLookup(r)
  BY <1>4 DEF BanLookup
<1>5. CASE \E r \in Calls : Create(r)
  BY <1>5 DEF Create
<1>6. CASE \E r \in Calls : UnbanLookup(r)
  <2>1. PICK r \in Unbans : UnbanLookup(r)
    BY <1>6 DEF UnbanLookup
  <2>2. /\ \A q \in Unbans \ {r} : pc'[q] = pc[q] /\ found'[q] = found[q] /\ since'[q] = since[q]
        /\ UNCHANGED <<punishments, overturned, expired, target, raced>>
    BY <2>1 DEF UnbanLookup
  <2>3. pc'[r] \in {"failed", "update"}
    BY <2>1 DEF UnbanLookup
  <2> QED BY <2>2, <2>3
<1>7. CASE \E r \in Calls : UnbanUpdate(r)
  BY <1>7 DEF UnbanUpdate
<1>8. CASE \E r \in Reqs : Error(r)
  BY <1>8 DEF Error
<1>9. CASE \E p \in Bans : Expire(p)
  BY <1>9 DEF Expire
<1>10. CASE UNCHANGED vars
  BY <1>10 DEF vars
<1> QED BY <1>1, <1>2, <1>3, <1>4, <1>5, <1>6, <1>7, <1>8, <1>9, <1>10 DEF Next

\* The invariant holds in every reachable state.
LEMMA Invariance == Spec => []IInv
<1>1. Init => IInv
  BY ModerationAssumption DEF Init, IInv, TypeOK, Found, Copy, Alone, NoDuplicates, EditsKept,
       NotYet, RacedKnown, Clear, OneActiveBan, OnlyFound, UnbanLifts, Distinct, Elements,
       InFlight, GetBanForServer, Reqs, Calls
<1>2. IInv /\ [Next]_vars => IInv'
  BY TypeStep, FoundStep, CopyStep, AloneStep, NoDuplicatesStep, EditsStep, NotYetStep,
     RacedStep, ClearStep, OneActiveBanStep, OnlyFoundStep, UnbanStep DEF IInv
<1> QED BY <1>1, <1>2, PTL DEF Spec

\* Every variable keeps its type, and only punishments that exist are overturned.
THEOREM TypeCorrect == Spec => []TypeOK
BY Invariance, PTL DEF IInv

\* However AddModerator and RemoveModerator interleave, nobody is listed twice.
THEOREM NoDuplicatesHolds == Spec => []NoDuplicates
BY Invariance, PTL DEF IInv

\* Edits that do not overlap are all kept, for any number of them.
THEOREM EditsKeptHolds == Spec => []EditsKept
BY Invariance, PTL DEF IInv

\* A player whose BanPlayer calls never overlapped has at most one ban in force.
THEOREM OneActiveBanHolds == Spec => []OneActiveBan
BY Invariance, PTL DEF IInv

\* An answered UnbanPlayer call leaves only bans inserted since its lookup.
THEOREM UnbanLiftsHolds == Spec => []UnbanLifts
BY Invariance, PTL DEF IInv

=============================================================================
