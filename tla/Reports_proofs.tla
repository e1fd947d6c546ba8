--------------------------- MODULE Reports_proofs ---------------------------
(***************************************************************************)
(* Proofs about Reports, for any sets of players, reports and calls and    *)
(* any limits: no report is closed in silence, no two answered approvals   *)
(* ban for the same report, and a ban and a rejection of the report it     *)
(* names exclude each other.                                               *)
(***************************************************************************)
EXTENDS Reports, FiniteSetTheorems, TLAPS

-----------------------------------------------------------------------------
(* The inductive invariant. *)

\* A report's document does not exist before its call inserts it, and names a reporter and a
\* player then.
Fresh ==
    \A c \in Creates :
        /\ pc[c] \in {"idle", "create"} => status[c] = "none"
        /\ pc[c] # "idle" => reporter[c] \in Reporters /\ player[c] \in Players

\* What an approval has read is about its player, and it resolves only after its ban exists.
Approval ==
    \A a \in Approves :
        /\ pc[a] = "idle" => cites[a] = {}
        /\ pc[a] = "resolve" => a \in bans
        /\ \A i \in cites[a] : player[i] = subject[a]

\* A rejection or an update is about a report that exists, and about its player.
Subject ==
    \A s \in Rejects \cup Updates :
        pc[s] # "idle" =>
            /\ report[s] \in Creates /\ status[report[s]] # "none"
            /\ subject[s] = player[report[s]]

\* What an answered approval has banned for is closed, unless it was set back to NEW.
Closed ==
    \A a \in Approves : pc[a] = "ok" => \A i \in cites[a] \ reopened : status[i] # "NEW"

\* Two approvals, not failed, that read the same report overlapped.
SharedContested ==
    \A a, b \in Approves :
        a # b /\ pc[a] # "failed" /\ pc[b] # "failed" =>
            \A i \in (cites[a] \cap cites[b]) \ reopened : player[i] \in contested

\* So did a rejection about to be written and an approval that read its report.
RejectContested ==
    \A r \in Rejects, a \in Approves :
        pc[r] = "reject" /\ pc[a] # "failed" /\ report[r] \in cites[a] \ reopened =>
            subject[r] \in contested

\* VerdictsAgree for approvals that are still in flight too.
VerdictKnown ==
    \A a \in Approves : pc[a] # "failed" =>
        \A i \in cites[a] \ reopened :
            status[i] = "REJECTED" => player[i] \in contested \/ UpdatedTo(i, "REJECTED")

\* Two staff calls in flight about one player contest it.
AloneAbout ==
    \A s, t \in Staff :
        s # t /\ InFlight(s) /\ InFlight(t) /\ subject[s] = subject[t] => subject[s] \in contested

\* What an update read of the notes is still what the report has, unless its player is contested.
NotesRead ==
    \A u \in Updates : pc[u] \in {"filter", "write"} /\ subject[u] \notin contested =>
        readNotes[u] = notes[report[u]]

IInv ==
    /\ TypeOK /\ Fresh /\ Approval /\ Subject /\ Closed
    /\ SharedContested /\ RejectContested /\ VerdictKnown /\ NoSilentClose
    /\ AloneAbout /\ NotesRead /\ NoteKept

-----------------------------------------------------------------------------

\* Every step keeps the types.
LEMMA TypeStep ==
    ASSUME TypeOK, Fresh, Subject, [Next]_vars PROVE TypeOK'
<1> USE ReportsAssumption DEF TypeOK, Fresh, Subject, Goto, Then, SetStatus, InFlight, Contest,
        GetOpenReportsForUser, GetNewReportsByUserID, GetReportStatusFromProto, store, locals,
        history, Reqs, Staff, Decided, Protos
<1>1. CASE \E c \in Creates : CreateInsert(c)
  BY <1>1 DEF CreateInsert
<1>2. CASE \E c \in Creates, r \in Reporters, p \in Players : CreateCheck(c, r, p)
  BY <1>2 DEF CreateCheck
<1>3. CASE \E a \in Approves, p \in Players : ApproveRead(a, p)
  BY <1>3 DEF ApproveRead
<1>4. CASE \E a \in Approves : ApproveBan(a)
  BY <1>4 DEF ApproveBan
<1>5. CASE \E a \in Approves : ApproveResolve(a)
  BY <1>5 DEF ApproveResolve
<1>6. CASE \E r \in Rejects, i \in Creates : RejectRead(r, i)
  BY <1>6 DEF RejectRead
<1>7. CASE \E r \in Rejects : RejectWrite(r)
  BY <1>7 DEF RejectWrite
<1>8. CASE \E u \in Updates, i \in Creates, s \in Protos : UpdateRead(u, i, s)
  BY <1>8 DEF UpdateRead
<1>9. CASE \E u \in Updates : UpdateFilter(u)
  BY <1>9 DEF UpdateFilter
<1>10. CASE \E u \in Updates : UpdateWrite(u)
  BY <1>10 DEF UpdateWrite
<1>11. CASE \E r \in Reqs : Error(r)
  BY <1>11 DEF Error
<1>12. CASE UNCHANGED vars
  BY <1>12 DEF vars
<1> QED BY <1>1, <1>2, <1>3, <1>4, <1>5, <1>6, <1>7, <1>8, <1>9, <1>10, <1>11, <1>12 DEF Next

\* Every step keeps Fresh: staff calls write only to reports they have read.
LEMMA FreshStep ==
    ASSUME TypeOK, Fresh, Subject, [Next]_vars PROVE Fresh'
<1> USE ReportsAssumption DEF TypeOK, Fresh, Subject, Goto, Then, SetStatus, InFlight,
        Contest, GetOpenReportsForUser, GetNewReportsByUserID, GetReportStatusFromProto, store,
        locals, history, Reqs, Staff, Decided, Protos
<1>1. CASE \E c \in Creates : CreateInsert(c)
  BY <1>1 DEF CreateInsert
<1>2. CASE \E c \in Creates, r \in Reporters, p \in Players : CreateCheck(c, r, p)
  BY <1>2 DEF CreateCheck
<1>3. CASE \E a \in Approves, p \in Players : ApproveRead(a, p)
  BY <1>3 DEF ApproveRead
<1>4. CASE \E a \in Approves : ApproveBan(a)
  BY <1>4 DEF ApproveBan
<1>5. CASE \E a \in Approves : ApproveResolve(a)
  BY <1>5 DEF ApproveResolve
<1>6. CASE \E r \in Rejects, i \in Creates : RejectRead(r, i)
  BY <1>6 DEF RejectRead
<1>7. CASE \E r \in Rejects : RejectWrite(r)
  BY <1>7 DEF RejectWrite
<1>8. CASE \E u \in Updates, i \in Creates, s \in Protos : UpdateRead(u, i, s)
  BY <1>8 DEF UpdateRead
<1>9. CASE \E u \in Updates : UpdateFilter(u)
  BY <1>9 DEF UpdateFilter
<1>10. CASE \E u \in Updates : UpdateWrite(u)
  BY <1>10 DEF UpdateWrite
<1>11. CASE \E r \in Reqs : Error(r)
  BY <1>11 DEF Error
<1>12. CASE UNCHANGED vars
  BY <1>12 DEF vars
<1> QED BY <1>1, <1>2, <1>3, <1>4, <1>5, <1>6, <1>7, <1>8, <1>9, <1>10, <1>11, <1>12 DEF Next

\* Every step keeps Approval: the player of an inserted report never changes.
LEMMA ApprovalStep ==
    ASSUME TypeOK, Fresh, Approval, [Next]_vars PROVE Approval'
<1> USE ReportsAssumption DEF TypeOK, Fresh, Approval, Goto, Then, SetStatus, InFlight,
        Contest, GetOpenReportsForUser, GetNewReportsByUserID, GetReportStatusFromProto, store,
        locals, history, Reqs, Staff, Decided, Protos
<1>1. CASE \E c \in Creates : CreateInsert(c)
  BY <1>1 DEF CreateInsert
<1>2. CASE \E c \in Creates, r \in Reporters, p \in Players : CreateCheck(c, r, p)
  BY <1>2 DEF CreateCheck
<1>3. CASE \E a \in Approves, p \in Players : ApproveRead(a, p)
  BY <1>3 DEF ApproveRead
<1>4. CASE \E a \in Approves : ApproveBan(a)
  BY <1>4 DEF ApproveBan
<1>5. CASE \E a \in Approves : ApproveResolve(a)
  BY <1>5 DEF ApproveResolve
<1>6. CASE \E r \in Rejects, i \in Creates : RejectRead(r, i)
  BY <1>6 DEF RejectRead
<1>7. CASE \E r \in Rejects : RejectWrite(r)
  BY <1>7 DEF RejectWrite
<1>8. CASE \E u \in Updates, i \in Creates, s \in Protos : UpdateRead(u, i, s)
  BY <1>8 DEF UpdateRead
<1>9. CASE \E u \in Updates : UpdateFilter(u)
  BY <1>9 DEF UpdateFilter
<1>10. CASE \E u \in Updates : UpdateWrite(u)
  BY <1>10 DEF UpdateWrite
<1>11. CASE \E r \in Reqs : Error(r)
  BY <1>11 DEF Error
<1>12. CASE UNCHANGED vars
  BY <1>12 DEF vars
<1> QED BY <1>1, <1>2, <1>3, <1>4, <1>5, <1>6, <1>7, <1>8, <1>9, <1>10, <1>11, <1>12 DEF Next

\* Every step keeps Subject: no report is ever deleted.
LEMMA SubjectStep ==
    ASSUME TypeOK, Fresh, Subject, [Next]_vars PROVE Subject'
<1> USE ReportsAssumption DEF TypeOK, Fresh, Subject, Goto, Then, SetStatus, InFlight,
        Contest, GetOpenReportsForUser, GetNewReportsByUserID, GetReportStatusFromProto, store,
        locals, history, Reqs, Staff, Decided, Protos
<1>1. CASE \E c \in Creates : CreateInsert(c)
  BY <1>1 DEF CreateInsert
<1>2. CASE \E c \in Creates, r \in Reporters, p \in Players : CreateCheck(c, r, p)
  BY <1>2 DEF CreateCheck
<1>3. CASE \E a \in Approves, p \in Players : ApproveRead(a, p)
  BY <1>3 DEF ApproveRead
<1>4. CASE \E a \in Approves : ApproveBan(a)
  BY <1>4 DEF ApproveBan
<1>5. CASE \E a \in Approves : ApproveResolve(a)
  BY <1>5 DEF ApproveResolve
<1>6. CASE \E r \in Rejects, i \in Creates : RejectRead(r, i)
  BY <1>6 DEF RejectRead
<1>7. CASE \E r \in Rejects : RejectWrite(r)
  BY <1>7 DEF RejectWrite
<1>8. CASE \E u \in Updates, i \in Creates, s \in Protos : UpdateRead(u, i, s)
  <2>1. PICK u \in Updates, i \in Creates, s \in Protos : UpdateRead(u, i, s)
    BY <1>8
  <2>2. status[i] # "none" /\ report'[u] = i /\ subject'[u] = player[i]
    BY <2>1 DEF UpdateRead, TypeOK
  <2>3. UNCHANGED <<status, player>>
    BY <2>1 DEF UpdateRead
  <2>4. ASSUME NEW t \in (Rejects \cup Updates) \ {u}
        PROVE  pc'[t] = pc[t] /\ report'[t] = report[t] /\ subject'[t] = subject[t]
    BY <2>1 DEF UpdateRead, TypeOK
  <2> QED BY <2>2, <2>3, <2>4 DEF Subject
<1>9. CASE \E u \in Updates : UpdateFilter(u)
  BY <1>9 DEF UpdateFilter
<1>10. CASE \E u \in Updates : UpdateWrite(u)
  BY <1>10 DEF UpdateWrite
<1>11. CASE \E r \in Reqs : Error(r)
  BY <1>11 DEF Error
<1>12. CASE UNCHANGED vars
  BY <1>12 DEF vars
<1> QED BY <1>1, <1>2, <1>3, <1>4, <1>5, <1>6, <1>7, <1>8, <1>9, <1>10, <1>11, <1>12 DEF Next

\* Every step keeps Closed: only UpdateStatus sets an existing report to NEW.
LEMMA ClosedStep ==
    ASSUME TypeOK, Fresh, Approval, Closed, [Next]_vars PROVE Closed'
<1> USE ReportsAssumption DEF TypeOK, Fresh, Approval, Closed, Goto, Then, SetStatus,
        InFlight, Contest, GetOpenReportsForUser, GetNewReportsByUserID,
        GetReportStatusFromProto, store, locals, history, Reqs, Staff, Decided, Protos
<1>1. CASE \E c \in Creates : CreateInsert(c)
  BY <1>1 DEF CreateInsert
<1>2. CASE \E c \in Creates, r \in Reporters, p \in Players : CreateCheck(c, r, p)
  BY <1>2 DEF CreateCheck
<1>3. CASE \E a \in Approves, p \in Players : ApproveRead(a, p)
  BY <1>3 DEF ApproveRead
<1>4. CASE \E a \in Approves : ApproveBan(a)
  BY <1>4 DEF ApproveBan
<1>5. CASE \E a \in Approves : ApproveResolve(a)
  BY <1>5 DEF ApproveResolve
<1>6. CASE \E r \in Rejects, i \in Creates : RejectRead(r, i)
  BY <1>6 DEF RejectRead
<1>7. CASE \E r \in Rejects : RejectWrite(r)
  BY <1>7 DEF RejectWrite
<1>8. CASE \E u \in Updates, i \in Creates, s \in Protos : UpdateRead(u, i, s)
  BY <1>8 DEF UpdateRead
<1>9. CASE \E u \in Updates : UpdateFilter(u)
  BY <1>9 DEF UpdateFilter
<1>10. CASE \E u \in Updates : UpdateWrite(u)
  BY <1>10 DEF UpdateWrite
<1>11. CASE \E r \in Reqs : Error(r)
  BY <1>11 DEF Error
<1>12. CASE UNCHANGED vars
  BY <1>12 DEF vars
<1> QED BY <1>1, <1>2, <1>3, <1>4, <1>5, <1>6, <1>7, <1>8, <1>9, <1>10, <1>11, <1>12 DEF Next

\* Every step keeps SharedContested: by Closed, what an approval reads belongs to no answered one.
LEMMA SharedStep ==
    ASSUME TypeOK, Fresh, Approval, Closed, SharedContested, [Next]_vars PROVE SharedContested'
<1> USE ReportsAssumption DEF TypeOK, Fresh, Approval, Closed, SharedContested, Goto,
        Then, SetStatus, InFlight, Contest, GetOpenReportsForUser, GetNewReportsByUserID,
        GetReportStatusFromProto, store, locals, history, Reqs, Staff, Decided, Protos
<1>1. CASE \E c \in Creates : CreateInsert(c)
  BY <1>1 DEF CreateInsert
<1>2. CASE \E c \in Creates, r \in Reporters, p \in Players : CreateCheck(c, r, p)
  BY <1>2 DEF CreateCheck
<1>3. CASE \E a \in Approves, p \in Players : ApproveRead(a, p)
  BY <1>3 DEF ApproveRead
<1>4. CASE \E a \in Approves : ApproveBan(a)
  BY <1>4 DEF ApproveBan
<1>5. CASE \E a \in Approves : ApproveResolve(a)
  BY <1>5 DEF ApproveResolve
<1>6. CASE \E r \in Rejects, i \in Creates : RejectRead(r, i)
  BY <1>6 DEF RejectRead
<1>7. CASE \E r \in Rejects : RejectWrite(r)
  BY <1>7 DEF RejectWrite
<1>8. CASE \E u \in Updates, i \in Creates, s \in Protos : UpdateRead(u, i, s)
  BY <1>8 DEF UpdateRead
<1>9. CASE \E u \in Updates : UpdateFilter(u)
  BY <1>9 DEF UpdateFilter
<1>10. CASE \E u \in Updates : UpdateWrite(u)
  BY <1>10 DEF UpdateWrite
<1>11. CASE \E r \in Reqs : Error(r)
  BY <1>11 DEF Error
<1>12. CASE UNCHANGED vars
  BY <1>12 DEF vars
<1> QED BY <1>1, <1>2, <1>3, <1>4, <1>5, <1>6, <1>7, <1>8, <1>9, <1>10, <1>11, <1>12 DEF Next

\* Every step keeps RejectContested: the same argument for a rejection.
LEMMA RejectStep ==
    ASSUME TypeOK, Fresh, Approval, Subject, Closed, RejectContested, [Next]_vars
    PROVE  RejectContested'
<1> USE ReportsAssumption DEF TypeOK, Fresh, Approval, Subject, Closed, RejectContested,
        Goto, Then, SetStatus, InFlight, Contest, GetOpenReportsForUser, GetNewReportsByUserID,
        GetReportStatusFromProto, store, locals, history, Reqs, Staff, Decided, Protos
<1>1. CASE \E c \in Creates : CreateInsert(c)
  BY <1>1 DEF CreateInsert
<1>2. CASE \E c \in Creates, r \in Reporters, p \in Players : CreateCheck(c, r, p)
  BY <1>2 DEF CreateCheck
<1>3. CASE \E a \in Approves, p \in Players : ApproveRead(a, p)
  <2>1. PICK a \in Approves, p \in Players : ApproveRead(a, p)
    BY <1>3
  <2>2. ASSUME NEW r \in Rejects, pc'[r] = "reject"
        PROVE  /\ pc[r] = "reject" /\ report'[r] = report[r] /\ subject'[r] = subject[r]
               /\ subject[r] = player[report[r]]
    BY <2>1, <2>2 DEF ApproveRead, TypeOK, Subject
  <2>3. ASSUME NEW b \in Approves, b # a PROVE cites'[b] = cites[b] /\ pc'[b] = pc[b]
    BY <2>1, <2>3 DEF ApproveRead, TypeOK
  <2>4. /\ contested \subseteq contested' /\ reopened' = reopened
        /\ \A i \in cites'[a] : player[i] = p
    BY <2>1 DEF ApproveRead, TypeOK
  <2>5. ASSUME NEW r \in Rejects, pc[r] = "reject", subject[r] = p PROVE p \in contested'
    BY <2>1, <2>5 DEF ApproveRead, TypeOK
  <2> QED BY <2>2, <2>3, <2>4, <2>5 DEF RejectContested
<1>4. CASE \E a \in Approves : ApproveBan(a)
  BY <1>4 DEF ApproveBan
<1>5. CASE \E a \in Approves : ApproveResolve(a)
  BY <1>5 DEF ApproveResolve
<1>6. CASE \E r \in Rejects, i \in Creates : RejectRead(r, i)
  BY <1>6 DEF RejectRead
<1>7. CASE \E r \in Rejects : RejectWrite(r)
  BY <1>7 DEF RejectWrite
<1>8. CASE \E u \in Updates, i \in Creates, s \in Protos : UpdateRead(u, i, s)
  BY <1>8 DEF UpdateRead
<1>9. CASE \E u \in Updates : UpdateFilter(u)
  BY <1>9 DEF UpdateFilter
<1>10. CASE \E u \in Updates : UpdateWrite(u)
  BY <1>10 DEF UpdateWrite
<1>11. CASE \E r \in Reqs : Error(r)
  BY <1>11 DEF Error
<1>12. CASE UNCHANGED vars
  BY <1>12 DEF vars
<1> QED BY <1>1, <1>2, <1>3, <1>4, <1>5, <1>6, <1>7, <1>8, <1>9, <1>10, <1>11, <1>12 DEF Next

\* Every step keeps VerdictKnown: RejectReport and UpdateStatus alone reject.
LEMMA VerdictStep ==
    ASSUME TypeOK, Fresh, Approval, Subject, RejectContested, VerdictKnown, [Next]_vars
    PROVE  VerdictKnown'
<1> USE ReportsAssumption DEF TypeOK, Fresh, Approval, Subject, RejectContested,
        VerdictKnown, UpdatedTo, Goto, Then, SetStatus, InFlight, Contest,
        GetOpenReportsForUser, GetNewReportsByUserID, GetReportStatusFromProto, store, locals,
        history, Reqs, Staff, Decided, Protos
<1>1. CASE \E c \in Creates : CreateInsert(c)
  BY <1>1 DEF CreateInsert
<1>2. CASE \E c \in Creates, r \in Reporters, p \in Players : CreateCheck(c, r, p)
  BY <1>2 DEF CreateCheck
<1>3. CASE \E a \in Approves, p \in Players : ApproveRead(a, p)
  BY <1>3 DEF ApproveRead
<1>4. CASE \E a \in Approves : ApproveBan(a)
  BY <1>4 DEF ApproveBan
<1>5. CASE \E a \in Approves : ApproveResolve(a)
  BY <1>5 DEF ApproveResolve
<1>6. CASE \E r \in Rejects, i \in Creates : RejectRead(r, i)
  BY <1>6 DEF RejectRead
<1>7. CASE \E r \in Rejects : RejectWrite(r)
  BY <1>7 DEF RejectWrite
<1>8. CASE \E u \in Updates, i \in Creates, s \in Protos : UpdateRead(u, i, s)
  <2>1. PICK u \in Updates, i \in Creates, s \in Protos : UpdateRead(u, i, s)
    BY <1>8
  <2>2. UNCHANGED <<status, player, cites, reopened>> /\ contested \subseteq contested'
    BY <2>1 DEF UpdateRead
  <2>3. \A a \in Approves : pc'[a] = pc[a]
    BY <2>1 DEF UpdateRead
  <2>4. \A w \in Updates : pc[w] # "idle" =>
            pc'[w] = pc[w] /\ want'[w] = want[w] /\ subject'[w] = subject[w]
    BY <2>1 DEF UpdateRead
  <2>5. ASSUME NEW j \in Creates, UpdatedTo(j, "REJECTED") PROVE UpdatedTo(j, "REJECTED")'
    BY <2>2, <2>4, <2>5 DEF UpdatedTo
  <2> QED BY <2>2, <2>3, <2>5 DEF VerdictKnown
<1>9. CASE \E u \in Updates : UpdateFilter(u)
  BY <1>9 DEF UpdateFilter
<1>10. CASE \E u \in Updates : UpdateWrite(u)
  BY <1>10 DEF UpdateWrite
<1>11. CASE \E r \in Reqs : Error(r)
  BY <1>11 DEF Error
<1>12. CASE UNCHANGED vars
  BY <1>12 DEF vars
<1> QED BY <1>1, <1>2, <1>3, <1>4, <1>5, <1>6, <1>7, <1>8, <1>9, <1>10, <1>11, <1>12 DEF Next

\* Every step keeps NoSilentClose: an approval that resolves has its ban.
LEMMA SilentStep ==
    ASSUME TypeOK, Fresh, Approval, Subject, NoSilentClose, [Next]_vars PROVE NoSilentClose'
<1> USE ReportsAssumption DEF TypeOK, Fresh, Approval, Subject, NoSilentClose,
        UpdatedTo, Goto, Then, SetStatus, InFlight, Contest, GetOpenReportsForUser,
        GetNewReportsByUserID, GetReportStatusFromProto, store, locals, history, Reqs, Staff,
        Decided, Protos
<1>1. CASE \E c \in Creates : CreateInsert(c)
  BY <1>1 DEF CreateInsert
<1>2. CASE \E c \in Creates, r \in Reporters, p \in Players : CreateCheck(c, r, p)
  BY <1>2 DEF CreateCheck
<1>3. CASE \E a \in Approves, p \in Players : ApproveRead(a, p)
  BY <1>3 DEF ApproveRead
<1>4. CASE \E a \in Approves : ApproveBan(a)
  BY <1>4 DEF ApproveBan
<1>5. CASE \E a \in Approves : ApproveResolve(a)
  BY <1>5 DEF ApproveResolve
<1>6. CASE \E r \in Rejects, i \in Creates : RejectRead(r, i)
  BY <1>6 DEF RejectRead
<1>7. CASE \E r \in Rejects : RejectWrite(r)
  BY <1>7 DEF RejectWrite
<1>8. CASE \E u \in Updates, i \in Creates, s \in Protos : UpdateRead(u, i, s)
  <2>1. PICK u \in Updates, i \in Creates, s \in Protos : UpdateRead(u, i, s)
    BY <1>8
  <2>2. UNCHANGED <<status, player, bans, cites>> /\ pc[u] = "idle"
    BY <2>1 DEF UpdateRead
  <2>3. \A t \in Updates \ {u} : pc'[t] = pc[t] /\ want'[t] = want[t] /\ subject'[t] = subject[t]
    BY <2>1 DEF UpdateRead
  <2> HIDE DEF TypeOK, Approval, Subject, Fresh
  <2> QED BY <2>2, <2>3
<1>9. CASE \E u \in Updates : UpdateFilter(u)
  BY <1>9 DEF UpdateFilter
<1>10. CASE \E u \in Updates : UpdateWrite(u)
  BY <1>10 DEF UpdateWrite
<1>11. CASE \E r \in Reqs : Error(r)
  BY <1>11 DEF Error
<1>12. CASE UNCHANGED vars
  BY <1>12 DEF vars
<1> QED BY <1>1, <1>2, <1>3, <1>4, <1>5, <1>6, <1>7, <1>8, <1>9, <1>10, <1>11, <1>12 DEF Next

\* Every step keeps AloneAbout: a staff call looks for others about its player as it begins.
LEMMA AloneStep ==
    ASSUME TypeOK, Fresh, AloneAbout, [Next]_vars PROVE AloneAbout'
<1> USE ReportsAssumption DEF TypeOK, Fresh, AloneAbout, Goto, Then, SetStatus, InFlight,
        Contest, GetOpenReportsForUser, GetNewReportsByUserID, GetReportStatusFromProto, store,
        locals, history, Reqs, Staff, Decided, Protos
<1>1. CASE \E c \in Creates : CreateInsert(c)
  BY <1>1 DEF CreateInsert
<1>2. CASE \E c \in Creates, r \in Reporters, p \in Players : CreateCheck(c, r, p)
  BY <1>2 DEF CreateCheck
<1>3. CASE \E a \in Approves, p \in Players : ApproveRead(a, p)
  BY <1>3 DEF ApproveRead
<1>4. CASE \E a \in Approves : ApproveBan(a)
  BY <1>4 DEF ApproveBan
<1>5. CASE \E a \in Approves : ApproveResolve(a)
  BY <1>5 DEF ApproveResolve
<1>6. CASE \E r \in Rejects, i \in Creates : RejectRead(r, i)
  BY <1>6 DEF RejectRead
<1>7. CASE \E r \in Rejects : RejectWrite(r)
  BY <1>7 DEF RejectWrite
<1>8. CASE \E u \in Updates, i \in Creates, s \in Protos : UpdateRead(u, i, s)
  <2>1. PICK u \in Updates, i \in Creates, s \in Protos : UpdateRead(u, i, s)
    BY <1>8
  <2>2. subject'[u] = player[i] /\ contested \subseteq contested' /\ ~InFlight(u)
    BY <2>1 DEF UpdateRead
  <2>3. ASSUME NEW t \in Staff \ {u}
        PROVE  (InFlight(t)' <=> InFlight(t)) /\ subject'[t] = subject[t]
    BY <2>1 DEF UpdateRead
  <2>4. ASSUME NEW t \in Staff, InFlight(t), subject[t] = player[i] PROVE player[i] \in contested'
    BY <2>1, <2>4 DEF UpdateRead
  <2> HIDE DEF InFlight, TypeOK
  <2> QED BY <2>2, <2>3, <2>4 DEF AloneAbout
<1>9. CASE \E u \in Updates : UpdateFilter(u)
  BY <1>9 DEF UpdateFilter
<1>10. CASE \E u \in Updates : UpdateWrite(u)
  BY <1>10 DEF UpdateWrite
<1>11. CASE \E r \in Reqs : Error(r)
  BY <1>11 DEF Error
<1>12. CASE UNCHANGED vars
  BY <1>12 DEF vars
<1> QED BY <1>1, <1>2, <1>3, <1>4, <1>5, <1>6, <1>7, <1>8, <1>9, <1>10, <1>11, <1>12 DEF Next

\* Every step keeps NotesRead: only an overlapping UpdateStatus call writes notes meanwhile.
LEMMA NotesReadStep ==
    ASSUME TypeOK, Fresh, Subject, AloneAbout, NotesRead, [Next]_vars PROVE NotesRead'
<1> USE ReportsAssumption DEF TypeOK, Fresh, Subject, AloneAbout, NotesRead, Goto, Then, SetStatus, InFlight,
        Contest, GetOpenReportsForUser, GetNewReportsByUserID, GetReportStatusFromProto, store,
        locals, history, Reqs, Staff, Decided, Protos
<1>1. CASE \E c \in Creates : CreateInsert(c)
  BY <1>1 DEF CreateInsert
<1>2. CASE \E c \in Creates, r \in Reporters, p \in Players : CreateCheck(c, r, p)
  BY <1>2 DEF CreateCheck
<1>3. CASE \E a \in Approves, p \in Players : ApproveRead(a, p)
  BY <1>3 DEF ApproveRead
<1>4. CASE \E a \in Approves : ApproveBan(a)
  BY <1>4 DEF ApproveBan
<1>5. CASE \E a \in Approves : ApproveResolve(a)
  BY <1>5 DEF ApproveResolve
<1>6. CASE \E r \in Rejects, i \in Creates : RejectRead(r, i)
  BY <1>6 DEF RejectRead
<1>7. CASE \E r \in Rejects : RejectWrite(r)
  BY <1>7 DEF RejectWrite
<1>8. CASE \E u \in Updates, i \in Creates, s \in Protos : UpdateRead(u, i, s)
  BY <1>8 DEF UpdateRead
<1>9. CASE \E u \in Updates : UpdateFilter(u)
  BY <1>9 DEF UpdateFilter
<1>10. CASE \E u \in Updates : UpdateWrite(u)
  BY <1>10 DEF UpdateWrite
<1>11. CASE \E r \in Reqs : Error(r)
  BY <1>11 DEF Error
<1>12. CASE UNCHANGED vars
  BY <1>12 DEF vars
<1> QED BY <1>1, <1>2, <1>3, <1>4, <1>5, <1>6, <1>7, <1>8, <1>9, <1>10, <1>11, <1>12 DEF Next

\* Every step keeps NoteKept: what an update writes back includes what it read.
LEMMA NoteStep ==
    ASSUME TypeOK, Fresh, Subject, NotesRead, NoteKept, [Next]_vars PROVE NoteKept'
<1> USE ReportsAssumption DEF TypeOK, Fresh, Subject, NotesRead, NoteKept, Goto, Then, SetStatus, InFlight,
        Contest, GetOpenReportsForUser, GetNewReportsByUserID, GetReportStatusFromProto, store,
        locals, history, Reqs, Staff, Decided, Protos
<1>1. CASE \E c \in Creates : CreateInsert(c)
  BY <1>1 DEF CreateInsert
<1>2. CASE \E c \in Creates, r \in Reporters, p \in Players : CreateCheck(c, r, p)
  BY <1>2 DEF CreateCheck
<1>3. CASE \E a \in Approves, p \in Players : ApproveRead(a, p)
  BY <1>3 DEF ApproveRead
<1>4. CASE \E a \in Approves : ApproveBan(a)
  BY <1>4 DEF ApproveBan
<1>5. CASE \E a \in Approves : ApproveResolve(a)
  BY <1>5 DEF ApproveResolve
<1>6. CASE \E r \in Rejects, i \in Creates : RejectRead(r, i)
  BY <1>6 DEF RejectRead
<1>7. CASE \E r \in Rejects : RejectWrite(r)
  BY <1>7 DEF RejectWrite
<1>8. CASE \E u \in Updates, i \in Creates, s \in Protos : UpdateRead(u, i, s)
  BY <1>8 DEF UpdateRead
<1>9. CASE \E u \in Updates : UpdateFilter(u)
  BY <1>9 DEF UpdateFilter
<1>10. CASE \E u \in Updates : UpdateWrite(u)
  BY <1>10 DEF UpdateWrite
<1>11. CASE \E r \in Reqs : Error(r)
  BY <1>11 DEF Error
<1>12. CASE UNCHANGED vars
  BY <1>12 DEF vars
<1> QED BY <1>1, <1>2, <1>3, <1>4, <1>5, <1>6, <1>7, <1>8, <1>9, <1>10, <1>11, <1>12 DEF Next

\* The invariant holds in every reachable state.
LEMMA Invariance == Spec => []IInv
<1>1. Init => IInv
  BY ReportsAssumption DEF Init, IInv, TypeOK, Fresh, Approval, Subject, Closed, SharedContested,
       RejectContested, VerdictKnown, NoSilentClose, UpdatedTo, AloneAbout, NotesRead, NoteKept, InFlight, Reqs, Staff,
       Decided, Protos
<1>2. IInv /\ [Next]_vars => IInv'
  BY TypeStep, FreshStep, ApprovalStep, SubjectStep, ClosedStep, SharedStep, RejectStep,
     VerdictStep, SilentStep, AloneStep, NotesReadStep, NoteStep DEF IInv
<1> QED BY <1>1, <1>2, PTL DEF Spec

\* Every variable keeps its type; the reports a ban names exist.
THEOREM TypeCorrect == Spec => []TypeOK
BY Invariance, PTL DEF IInv

\* No report is closed in silence: ApproveReports creates the ban before it resolves
\* the reports, and resolves only the ones the ban names.
THEOREM NoSilentCloseHolds == Spec => []NoSilentClose
BY Invariance, PTL DEF IInv

\* Two answered ApproveReports calls never ban for the same report, but for calls that
\* overlapped and reports set back to NEW.
THEOREM OneBanPerReportHolds == Spec => []OneBanPerReport
<1>1. IInv => OneBanPerReport
  BY DEF IInv, TypeOK, SharedContested, OneBanPerReport
<1> QED BY <1>1, Invariance, PTL

\* What a ban was issued for is not rejected, but for calls that overlapped, an UpdateStatus
\* call that says so and reports set back to NEW.
THEOREM VerdictsAgreeHolds == Spec => []VerdictsAgree
<1>1. IInv => VerdictsAgree
  BY DEF IInv, TypeOK, VerdictKnown, VerdictsAgree
<1> QED BY <1>1, Invariance, PTL

\* The note of an answered UpdateStatus call stays with its report, however many updates
\* follow it, unless staff calls about the player overlapped.
THEOREM NoteKeptHolds == Spec => []NoteKept
BY Invariance, PTL DEF IInv

-----------------------------------------------------------------------------
(* The limits of open reports. *)

\* The open reports of a reporter, the ones set back to NEW left aside, and those on a player.
Open(r) == GetNewReportsByUserID(r) \ reopened
OpenOn(r, p) == {i \in Open(r) : player[i] = p}

\* Two CreateReport calls between check and insert make their reporter racing.
CreateAlone ==
    \A c, d \in Creates :
        c # d /\ pc[c] = "create" /\ pc[d] = "create" /\ reporter[c] = reporter[d] =>
            reporter[c] \in racing

\* A call that passed the check still has room under both limits.
Room ==
    \A c \in Creates : pc[c] = "create" /\ reporter[c] \notin racing =>
        /\ Cardinality(Open(reporter[c])) < MaxOpen
        /\ Cardinality(OpenOn(reporter[c], player[c])) < MaxPerTarget

LimitInv == CreateAlone /\ Room /\ OpenLimit

\* The sets counted are finite, and a subset counts no more.
LEMMA OpenFinite ==
    ASSUME NEW r, NEW p
    PROVE  /\ IsFiniteSet(Open(r)) /\ IsFiniteSet(OpenOn(r, p)) /\ IsFiniteSet(GetNewReportsByUserID(r))
           /\ IsFiniteSet({i \in GetNewReportsByUserID(r) : player[i] = p})
<1>1. /\ Open(r) \subseteq Creates /\ OpenOn(r, p) \subseteq Creates
      /\ GetNewReportsByUserID(r) \subseteq Creates
      /\ {i \in GetNewReportsByUserID(r) : player[i] = p} \subseteq Creates
  BY DEF Open, OpenOn, GetNewReportsByUserID
<1> QED BY <1>1, ReportsAssumption, FS_Subset

LEMMA FewerOpen ==
    ASSUME NEW S, NEW U, IsFiniteSet(U), S \subseteq U
    PROVE  IsFiniteSet(S) /\ Cardinality(S) \in Nat /\ Cardinality(U) \in Nat /\ Cardinality(S) <= Cardinality(U)
BY FS_Subset, FS_CardinalityType

LEMMA OneMore ==
    ASSUME NEW S, NEW c, IsFiniteSet(S)
    PROVE  /\ IsFiniteSet(S \cup {c}) /\ Cardinality(S) \in Nat
           /\ Cardinality(S \cup {c}) <= Cardinality(S) + 1
<1>1. Cardinality(S) \in Nat BY FS_CardinalityType
<1>2. CASE c \in S
  <2>1. S \cup {c} = S BY <1>2
  <2>2. Cardinality(S \cup {c}) = Cardinality(S) /\ IsFiniteSet(S \cup {c}) BY <2>1
  <2> QED BY <1>1, <2>2
<1>3. CASE c \notin S BY <1>1, <1>3, FS_AddElement
<1> QED BY <1>2, <1>3

\* Only CreateInsert adds to the open reports of anybody: what UpdateStatus opens again is
\* counted as reopened, and CreateCheck sets the reporter of a report that does not exist yet.
OpenShrinks ==
    \A r \in Reporters : Open(r)' \subseteq Open(r) /\ \A p \in Players : OpenOn(r, p)' \subseteq OpenOn(r, p)

LEMMA OpenStep ==
    ASSUME TypeOK, Fresh, Subject, [Next]_vars, ~(\E c \in Creates : CreateInsert(c))
    PROVE  OpenShrinks
<1> USE ReportsAssumption DEF TypeOK, Fresh, Subject, Open, OpenOn, OpenShrinks, Goto, Then, SetStatus,
        InFlight, Contest, GetOpenReportsForUser, GetNewReportsByUserID, GetReportStatusFromProto,
        store, locals, history, Reqs, Staff, Decided, Protos
<1>2. CASE \E c \in Creates, r \in Reporters, p \in Players : CreateCheck(c, r, p)
  BY <1>2 DEF CreateCheck
<1>3. CASE \E a \in Approves, p \in Players : ApproveRead(a, p)
  BY <1>3 DEF ApproveRead
<1>4. CASE \E a \in Approves : ApproveBan(a)
  BY <1>4 DEF ApproveBan
<1>5. CASE \E a \in Approves : ApproveResolve(a)
  BY <1>5 DEF ApproveResolve
<1>6. CASE \E r \in Rejects, i \in Creates : RejectRead(r, i)
  BY <1>6 DEF RejectRead
<1>7. CASE \E r \in Rejects : RejectWrite(r)
  BY <1>7 DEF RejectWrite
<1>8. CASE \E u \in Updates, i \in Creates, s \in Protos : UpdateRead(u, i, s)
  BY <1>8 DEF UpdateRead
<1>9. CASE \E u \in Updates : UpdateFilter(u)
  BY <1>9 DEF UpdateFilter
<1>10. CASE \E u \in Updates : UpdateWrite(u)
  BY <1>10 DEF UpdateWrite
<1>11. CASE \E r \in Reqs : Error(r)
  BY <1>11 DEF Error
<1>12. CASE UNCHANGED vars
  BY <1>12 DEF vars
<1> QED BY <1>2, <1>3, <1>4, <1>5, <1>6, <1>7, <1>8, <1>9, <1>10, <1>11, <1>12 DEF Next

\* A step that neither checks nor inserts leaves the calls between the two as they are, or
\* ends one.
LEMMA CreatesKept ==
    ASSUME TypeOK, [Next]_vars, ~(\E c \in Creates, r \in Reporters, p \in Players : CreateCheck(c, r, p)),
           ~(\E c \in Creates : CreateInsert(c))
    PROVE  /\ \A c \in Creates : pc'[c] = "create" => pc[c] = "create"
           /\ UNCHANGED <<reporter, player, racing>>
<1> USE ReportsAssumption DEF TypeOK, Goto, Then, InFlight, Contest, store, locals, history, Reqs, Staff
<1>3. CASE \E a \in Approves, p \in Players : ApproveRead(a, p)
  BY <1>3 DEF ApproveRead
<1>4. CASE \E a \in Approves : ApproveBan(a)
  BY <1>4 DEF ApproveBan
<1>5. CASE \E a \in Approves : ApproveResolve(a)
  BY <1>5 DEF ApproveResolve
<1>6. CASE \E r \in Rejects, i \in Creates : RejectRead(r, i)
  BY <1>6 DEF RejectRead
<1>7. CASE \E r \in Rejects : RejectWrite(r)
  BY <1>7 DEF RejectWrite
<1>8. CASE \E u \in Updates, i \in Creates, s \in Protos : UpdateRead(u, i, s)
  BY <1>8 DEF UpdateRead
<1>9. CASE \E u \in Updates : UpdateFilter(u)
  BY <1>9 DEF UpdateFilter
<1>10. CASE \E u \in Updates : UpdateWrite(u)
  BY <1>10 DEF UpdateWrite
<1>11. CASE \E r \in Reqs : Error(r)
  BY <1>11 DEF Error
<1>12. CASE UNCHANGED vars
  BY <1>12 DEF vars
<1> QED BY <1>3, <1>4, <1>5, <1>6, <1>7, <1>8, <1>9, <1>10, <1>11, <1>12 DEF Next

\* Room of the next state, with the reporter and the player as names of their values.
LEMMA RoomPrimed ==
    ASSUME \A d \in Creates : \A s, p :
               s = reporter'[d] /\ p = player'[d] /\ pc'[d] = "create" /\ s \notin racing' =>
                   Cardinality(Open(s)') < MaxOpen /\ Cardinality(OpenOn(s, p)') < MaxPerTarget
    PROVE  Room'
BY DEF Room, Open, OpenOn, GetNewReportsByUserID

LEMMA LimitStep ==
    ASSUME TypeOK, Fresh, Subject, LimitInv, [Next]_vars PROVE LimitInv'
<1>0. /\ \A r \in Reporters \ racing :
            /\ Cardinality(Open(r)) <= MaxOpen
            /\ \A p \in Players : Cardinality(OpenOn(r, p)) <= MaxPerTarget
      /\ \A c \in Creates : pc[c] # "idle" => reporter[c] \in Reporters /\ player[c] \in Players
      /\ MaxOpen \in Nat /\ MaxPerTarget \in Nat
  BY ReportsAssumption DEF LimitInv, OpenLimit, Open, OpenOn, Fresh
<1>a. OpenLimit' <=>
        \A r \in Reporters \ racing' :
            /\ Cardinality(Open(r)') <= MaxOpen
            /\ \A p \in Players : Cardinality(OpenOn(r, p)') <= MaxPerTarget
  BY DEF OpenLimit, Open, OpenOn, GetNewReportsByUserID
<1>1. ASSUME NEW c \in Creates, CreateInsert(c) PROVE LimitInv'
  <2> DEFINE r == reporter[c]
             q == player[c]
  <2>1. /\ UNCHANGED <<reporter, player, racing, reopened>>
        /\ pc[c] = "create" /\ pc'[c] # "create" /\ \A d \in Creates \ {c} : pc'[d] = pc[d]
        /\ status' = [i \in Creates |-> IF i = c THEN "NEW" ELSE status[i]]
    BY <1>1 DEF CreateInsert, SetStatus, Goto, Then, TypeOK, Reqs, locals, history
  <2>2. \A s : s # r => Open(s)' = Open(s)
    BY <2>1 DEF Open, GetNewReportsByUserID
  <2>3. Open(r)' \subseteq Open(r) \cup {c}
    BY <2>1 DEF Open, GetNewReportsByUserID
  <2>4. \A s, p : <<s, p>> # <<r, q>> => OpenOn(s, p)' \subseteq OpenOn(s, p)
    BY <2>1 DEF Open, OpenOn, GetNewReportsByUserID
  <2>5. OpenOn(r, q)' \subseteq OpenOn(r, q) \cup {c}
    BY <2>1 DEF Open, OpenOn, GetNewReportsByUserID
  <2>6. CreateAlone' BY <2>1 DEF LimitInv, CreateAlone
  <2>7. ASSUME NEW d \in Creates, pc'[d] = "create", reporter'[d] \notin racing' PROVE reporter[d] # r
    BY <2>1, <2>7 DEF LimitInv, CreateAlone
  <2>8. ASSUME r \notin racing
        PROVE  Cardinality(Open(r)') <= MaxOpen /\ Cardinality(OpenOn(r, q)') <= MaxPerTarget
    <3>1. Cardinality(Open(r)) < MaxOpen /\ Cardinality(OpenOn(r, q)) < MaxPerTarget
      BY <2>1, <2>8 DEF LimitInv, Room
    <3>2. /\ IsFiniteSet(Open(r) \cup {c}) /\ Cardinality(Open(r) \cup {c}) <= Cardinality(Open(r)) + 1
          /\ Cardinality(Open(r)) \in Nat
      BY OpenFinite, OneMore
    <3>3. /\ IsFiniteSet(OpenOn(r, q) \cup {c})
          /\ Cardinality(OpenOn(r, q) \cup {c}) <= Cardinality(OpenOn(r, q)) + 1
          /\ Cardinality(OpenOn(r, q)) \in Nat
      BY OpenFinite, OneMore
    <3>4. Cardinality(Open(r)') <= Cardinality(Open(r) \cup {c}) /\ Cardinality(Open(r)') \in Nat
          /\ Cardinality(Open(r) \cup {c}) \in Nat
      BY <2>3, <3>2, FewerOpen
    <3>5. Cardinality(OpenOn(r, q)') <= Cardinality(OpenOn(r, q) \cup {c}) /\ Cardinality(OpenOn(r, q)') \in Nat
          /\ Cardinality(OpenOn(r, q) \cup {c}) \in Nat
      BY <2>5, <3>3, FewerOpen
    <3> QED BY <1>0, <3>1, <3>2, <3>3, <3>4, <3>5
  <2>9. \A s, p : <<s, p>> # <<r, q>> =>
            /\ Cardinality(OpenOn(s, p)') <= Cardinality(OpenOn(s, p))
            /\ Cardinality(OpenOn(s, p)') \in Nat /\ Cardinality(OpenOn(s, p)) \in Nat
    BY <2>4, OpenFinite, FewerOpen
  <2>10. OpenLimit'
    BY <1>0, <1>a, <2>1, <2>2, <2>8, <2>9
  <2>11. Room'
    <3>1. ASSUME NEW d \in Creates, NEW s, NEW p, s = reporter'[d], p = player'[d],
                 pc'[d] = "create", s \notin racing'
          PROVE  Cardinality(Open(s)') < MaxOpen /\ Cardinality(OpenOn(s, p)') < MaxPerTarget
      <4>1. pc[d] = "create" /\ s \notin racing /\ s = reporter[d] /\ p = player[d] BY <2>1, <3>1
      <4>2. Cardinality(Open(s)) < MaxOpen /\ Cardinality(OpenOn(s, p)) < MaxPerTarget
        BY <4>1 DEF LimitInv, Room
      <4>3. s # r BY <2>7, <3>1, <4>1
      <4> QED BY <1>0, <2>2, <2>9, <4>2, <4>3
    <3> QED BY <3>1, RoomPrimed
  <2> QED BY <2>6, <2>10, <2>11 DEF LimitInv
<1>2. ASSUME ~(\E c \in Creates : CreateInsert(c))
      PROVE  \A r \in Reporters : /\ Cardinality(Open(r)') <= Cardinality(Open(r))
                                  /\ Cardinality(Open(r)') \in Nat /\ Cardinality(Open(r)) \in Nat
                                  /\ \A p \in Players :
                                        /\ Cardinality(OpenOn(r, p)') <= Cardinality(OpenOn(r, p))
                                        /\ Cardinality(OpenOn(r, p)') \in Nat
                                        /\ Cardinality(OpenOn(r, p)) \in Nat
  <2>1. OpenShrinks BY <1>2, OpenStep
  <2> QED BY <2>1, OpenFinite, FewerOpen DEF OpenShrinks
<1>3. ASSUME NEW c \in Creates, NEW r \in Reporters, NEW p \in Players, CreateCheck(c, r, p),
             ~(\E d \in Creates : CreateInsert(d))
      PROVE  LimitInv'
  <2>1. /\ reporter' = [reporter EXCEPT ![c] = r] /\ player' = [player EXCEPT ![c] = p]
        /\ racing \subseteq racing' /\ pc[c] = "idle"
        /\ \A d \in Creates \ {c} : pc'[d] = pc[d] /\ reporter'[d] = reporter[d] /\ player'[d] = player[d]
        /\ reporter'[c] = r /\ player'[c] = p
    BY <1>3 DEF CreateCheck, Goto, TypeOK, Reqs
  <2>2. ASSUME NEW d \in Creates, pc[d] = "create", reporter[d] = r PROVE r \in racing'
    BY <1>3, <2>2 DEF CreateCheck, InFlight
  <2>3. pc'[c] = "create" =>
          /\ Cardinality(GetNewReportsByUserID(r)) < MaxOpen
          /\ Cardinality({i \in GetNewReportsByUserID(r) : player[i] = p}) < MaxPerTarget
    <3>1. /\ Cardinality(GetNewReportsByUserID(r)) \in Nat
          /\ Cardinality({i \in GetNewReportsByUserID(r) : player[i] = p}) \in Nat
      BY OpenFinite, FS_CardinalityType
    <3> HIDE DEF GetNewReportsByUserID
    <3> QED BY <1>0, <1>3, <3>1 DEF CreateCheck, Goto, TypeOK, Reqs
  <2>4. /\ Cardinality(Open(r)) <= Cardinality(GetNewReportsByUserID(r))
        /\ Cardinality(OpenOn(r, p)) <= Cardinality({i \in GetNewReportsByUserID(r) : player[i] = p})
        /\ Cardinality(GetNewReportsByUserID(r)) \in Nat
        /\ Cardinality({i \in GetNewReportsByUserID(r) : player[i] = p}) \in Nat
    <3>1. /\ Open(r) \subseteq GetNewReportsByUserID(r)
          /\ OpenOn(r, p) \subseteq {i \in GetNewReportsByUserID(r) : player[i] = p}
      BY DEF Open, OpenOn
    <3> QED BY <3>1, OpenFinite, FewerOpen
  <2>5. CreateAlone' BY <2>1, <2>2 DEF LimitInv, CreateAlone
  <2>6. OpenLimit' BY <1>0, <1>2, <1>3, <1>a, <2>1
  <2>7. Room'
    <3>1. ASSUME NEW d \in Creates, NEW s, NEW q, s = reporter'[d], q = player'[d],
                 pc'[d] = "create", s \notin racing'
          PROVE  Cardinality(Open(s)') < MaxOpen /\ Cardinality(OpenOn(s, q)') < MaxPerTarget
      <4>1. CASE d = c BY <1>0, <1>2, <1>3, <2>1, <2>3, <2>4, <3>1, <4>1
      <4>2. CASE d # c
        <5>1. s \in Reporters /\ q \in Players /\ s = reporter[d] /\ q = player[d]
          BY <1>0, <2>1, <3>1, <4>2
        <5>2. Cardinality(Open(s)) < MaxOpen /\ Cardinality(OpenOn(s, q)) < MaxPerTarget
          BY <2>1, <3>1, <4>2, <5>1 DEF LimitInv, Room
        <5> QED BY <1>0, <1>2, <1>3, <5>1, <5>2
      <4> QED BY <4>1, <4>2
    <3> QED BY <3>1, RoomPrimed
  <2> QED BY <2>5, <2>6, <2>7 DEF LimitInv
<1>4. ASSUME ~(\E c \in Creates, r \in Reporters, p \in Players : CreateCheck(c, r, p)),
             ~(\E c \in Creates : CreateInsert(c))
      PROVE  LimitInv'
  <2>1. /\ \A c \in Creates : pc'[c] = "create" => pc[c] = "create"
        /\ UNCHANGED <<reporter, player, racing>>
    BY <1>4, CreatesKept
  <2>2. CreateAlone' BY <2>1 DEF LimitInv, CreateAlone
  <2>3. OpenLimit' BY <1>0, <1>2, <1>4, <1>a, <2>1
  <2>4. Room'
    <3>1. ASSUME NEW d \in Creates, NEW s, NEW q, s = reporter'[d], q = player'[d],
                 pc'[d] = "create", s \notin racing'
          PROVE  Cardinality(Open(s)') < MaxOpen /\ Cardinality(OpenOn(s, q)') < MaxPerTarget
      <4>1. s \in Reporters /\ q \in Players /\ s = reporter[d] /\ q = player[d] BY <1>0, <2>1, <3>1
      <4>2. Cardinality(Open(s)) < MaxOpen /\ Cardinality(OpenOn(s, q)) < MaxPerTarget
        BY <2>1, <3>1, <4>1 DEF LimitInv, Room
      <4> QED BY <1>0, <1>2, <1>4, <4>1, <4>2
    <3> QED BY <3>1, RoomPrimed
  <2> QED BY <2>2, <2>3, <2>4 DEF LimitInv
<1> QED BY <1>1, <1>3, <1>4

\* A reporter whose CreateReport calls never overlapped stays within both limits, however many
\* reports are decided meanwhile and in whatever order; what was set back to NEW left aside.
THEOREM OpenLimitHolds == Spec => []OpenLimit
<1>1. Init => LimitInv
  <2> SUFFICES ASSUME Init PROVE LimitInv OBVIOUS
  <2>1. \A r : GetNewReportsByUserID(r) = {} BY DEF Init, GetNewReportsByUserID
  <2>2. \A r, p : Open(r) = {} /\ OpenOn(r, p) = {} BY <2>1 DEF Open, OpenOn
  <2>3. Cardinality({}) = 0 BY FS_EmptySet
  <2>4. OpenLimit BY <2>2, <2>3, ReportsAssumption DEF OpenLimit, Open, OpenOn
  <2> QED BY <2>4 DEF Init, LimitInv, CreateAlone, Room, Reqs
<1>2. IInv /\ LimitInv /\ [Next]_vars => LimitInv' BY LimitStep DEF IInv
<1>3. LimitInv => OpenLimit BY DEF LimitInv
<1> QED BY <1>1, <1>2, <1>3, Invariance, PTL DEF Spec

=============================================================================
