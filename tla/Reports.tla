------------------------------- MODULE Reports -------------------------------
(***************************************************************************)
(* The report service of the API: players create reports, under a limit    *)
(* of open ones, and staff decide them with ApproveReports (which bans the *)
(* player), RejectReport and UpdateStatus. No call is atomic: one action   *)
(* is one database call and the code up to the next one. A call refused    *)
(* before its first write changes nothing and is no step.                  *)
(***************************************************************************)
EXTENDS Naturals, FiniteSets

CONSTANTS
    Reporters, Players,
    Creates,                     \* the CreateReport calls; each names its report
    Approves, Rejects, Updates,  \* the staff's calls; an approval names its ban
    Noting,                      \* the UpdateStatus calls with non-empty mod_notes
    MaxOpen, MaxPerTarget,       \* 6 and 2 in the code
    None

Staff == Approves \cup Rejects \cup Updates
Reqs == Creates \cup Staff

ASSUME ReportsAssumption ==
    /\ Noting \subseteq Updates /\ IsFiniteSet(Creates)
    /\ None \notin Reporters \cup Players \cup Creates
    /\ MaxOpen \in Nat \ {0} /\ MaxPerTarget \in Nat \ {0}
    /\ Creates \cap Staff = {} /\ Approves \cap Rejects = {}
    /\ Approves \cap Updates = {} /\ Rejects \cap Updates = {}

VARIABLES
    status,     \* of each report in the collection; "none" before it is inserted
    reporter, player,  \* ReporterID and ReportedPlayerID; None before the call
    notes,      \* Notes: the UpdateStatus calls that wrote one
    bans,       \* the punishments collection: the approvals whose ban was inserted
    cites,      \* approvals: the ids read, the ban's ReportIDs
    pc,         \* the call each request is about to make
    subject,    \* staff calls: the player they are about
    report,     \* rejections and updates: the report id
    want,       \* updates: the protobuf status asked for
    readNotes,  \* updates: the report's notes as read
    contested,  \* history: players about whom two staff calls were in flight at once
    racing,     \* history: reporters with two CreateReport calls in flight at once
    reopened    \* history: decided reports set back to NEW

store == <<status, reporter, player, notes, bans>>
locals == <<cites, subject, report, want, readNotes>>
history == <<contested, racing, reopened>>
vars == <<store, pc, locals, history>>

Decided == {"RESOLVED", "REJECTED"}
Protos == {"NEW", "IN_PROGRESS"} \cup Decided  \* pbapi.ReportStatus

TypeOK ==
    /\ status \in [Creates -> {"none", "NEW"} \cup Decided]
    /\ reporter \in [Creates -> Reporters \cup {None}]
    /\ player \in [Creates -> Players \cup {None}]
    /\ notes \in [Creates -> SUBSET Noting]
    /\ bans \subseteq Approves
    /\ cites \in [Approves -> SUBSET {i \in Creates : status[i] # "none"}]
    /\ pc \in [Reqs -> {"idle", "create", "ban", "resolve", "reject", "filter", "write",
                        "ok", "failed"}]
    /\ subject \in [Staff -> Players \cup {None}]
    /\ report \in [Rejects \cup Updates -> Creates \cup {None}]
    /\ want \in [Updates -> Protos]
    /\ readNotes \in [Updates -> SUBSET Noting]
    /\ contested \subseteq Players /\ racing \subseteq Reporters /\ reopened \subseteq Creates

Init ==
    /\ status = [c \in Creates |-> "none"]
    /\ reporter = [c \in Creates |-> None]
    /\ player = [c \in Creates |-> None]
    /\ notes = [c \in Creates |-> {}]
    /\ bans = {} /\ cites = [a \in Approves |-> {}]
    /\ pc = [r \in Reqs |-> "idle"]
    /\ subject = [s \in Staff |-> None]
    /\ report = [s \in Rejects \cup Updates |-> None]
    /\ want = [u \in Updates |-> "NEW"]
    /\ readNotes = [u \in Updates |-> {}]
    /\ contested = {} /\ racing = {} /\ reopened = {}

Goto(r, label) == pc' = [pc EXCEPT ![r] = label]
InFlight(r) == pc[r] \notin {"idle", "ok", "failed"}

\* The call took effect, and the request goes on unless the answer was lost.
Then(r, label) == Goto(r, label) \/ Goto(r, "failed")

\* UpdateOne or UpdateMany: the reports with these ids are set to s. An UpdateMany that stops
\* half way is left out.
SetStatus(ids, s) == status' = [i \in Creates |-> IF i \in ids THEN s ELSE status[i]]

-----------------------------------------------------------------------------
(* CreateReport. *)

GetNewReportsByUserID(r) == {i \in Creates : status[i] = "NEW" /\ reporter[i] = r}

\* Mutant: one open report about a player more than the limit.
CreateCheckOffByOne(c, r, p) ==
    /\ pc[c] = "idle"
    /\ reporter' = [reporter EXCEPT ![c] = r] /\ player' = [player EXCEPT ![c] = p]
    /\ LET open == GetNewReportsByUserID(r)
       IN /\ Cardinality(open) < MaxOpen
          /\ Cardinality({i \in open : player[i] = p}) <= MaxPerTarget
    /\ Goto(c, "create")
    /\ racing' = IF \E d \in Creates : InFlight(d) /\ reporter[d] = r
                 THEN racing \cup {r} ELSE racing
    /\ UNCHANGED <<status, notes, bans, locals, contested, reopened>>

CreateCheck(c, r, p) ==
    /\ pc[c] = "idle"
    /\ reporter' = [reporter EXCEPT ![c] = r] /\ player' = [player EXCEPT ![c] = p]
    /\ LET open == GetNewReportsByUserID(r)
       IN /\ Cardinality(open) < MaxOpen
          /\ Cardinality({i \in open : player[i] = p}) < MaxPerTarget
    /\ Goto(c, "create")
    /\ racing' = IF \E d \in Creates : InFlight(d) /\ reporter[d] = r
                 THEN racing \cup {r} ELSE racing
    /\ UNCHANGED <<status, notes, bans, locals, contested, reopened>>

\* The report is inserted, and stays whether or not it can be published.
CreateInsert(c) ==
    /\ c \in Creates /\ pc[c] = "create" /\ Goto(c, "ok")
    /\ SetStatus({c}, "NEW")
    /\ UNCHANGED <<reporter, player, notes, bans, locals, history>>

-----------------------------------------------------------------------------
(* ApproveReports. *)

\* A staff call about player p begins.
Contest(p) ==
    /\ contested' = IF \E t \in Staff : InFlight(t) /\ subject[t] = p
                    THEN contested \cup {p} ELSE contested
    /\ UNCHANGED <<racing, reopened>>

GetOpenReportsForUser(p) == {i \in Creates : status[i] = "NEW" /\ player[i] = p}

ApproveRead(a, p) ==
    /\ pc[a] = "idle"
    /\ cites' = [cites EXCEPT ![a] = GetOpenReportsForUser(p)]
    /\ subject' = [subject EXCEPT ![a] = p]
    /\ GetOpenReportsForUser(p) # {} /\ Goto(a, "ban")
    /\ Contest(p)
    /\ UNCHANGED <<store, report, want, readNotes>>

ApproveBan(a) ==
    /\ pc[a] = "ban" /\ Then(a, "resolve")
    /\ bans' = bans \cup {a}
    /\ UNCHANGED <<status, reporter, player, notes, locals, history>>

\* Mutant: every open report of the player is resolved, not the ones the ban names.
ApproveResolveAll(a) ==
    /\ pc[a] = "resolve" /\ Goto(a, "ok")
    /\ SetStatus(GetOpenReportsForUser(subject[a]), "RESOLVED")
    /\ UNCHANGED <<reporter, player, notes, bans, locals, history>>

\* Mutant: the first report only.
ApproveResolveOne(a) ==
    /\ pc[a] = "resolve" /\ Goto(a, "ok")
    /\ SetStatus({CHOOSE i \in cites[a] : TRUE}, "RESOLVED")
    /\ UNCHANGED <<reporter, player, notes, bans, locals, history>>

\* The reports of the ban that are still NEW; then the queue and the kick, which may fail.
ApproveResolve(a) ==
    /\ pc[a] = "resolve" /\ Goto(a, "ok")
    /\ SetStatus({i \in cites[a] : status[i] = "NEW"}, "RESOLVED")
    /\ UNCHANGED <<reporter, player, notes, bans, locals, history>>

-----------------------------------------------------------------------------
(* RejectReport. *)

\* Mutant: the status is not looked at.
RejectReadAny(r, i) ==
    /\ pc[r] = "idle" /\ status[i] # "none"
    /\ report' = [report EXCEPT ![r] = i]
    /\ subject' = [subject EXCEPT ![r] = player[i]]
    /\ Goto(r, "reject")
    /\ Contest(player[i])
    /\ UNCHANGED <<store, cites, want, readNotes>>

RejectRead(r, i) ==
    /\ pc[r] = "idle" /\ status[i] = "NEW"
    /\ report' = [report EXCEPT ![r] = i]
    /\ subject' = [subject EXCEPT ![r] = player[i]]
    /\ Goto(r, "reject")
    /\ Contest(player[i])
    /\ UNCHANGED <<store, cites, want, readNotes>>

RejectWrite(r) ==
    /\ pc[r] = "reject" /\ Goto(r, "ok")
    /\ SetStatus({report[r]}, "REJECTED")
    /\ UNCHANGED <<reporter, player, notes, bans, locals, history>>

-----------------------------------------------------------------------------
(* UpdateStatus. *)

\* IN_PROGRESS has no counterpart in the database.
GetReportStatusFromProto(s) == IF s \in Decided THEN s ELSE "NEW"

UpdateRead(u, i, s) ==
    /\ pc[u] = "idle" /\ status[i] # "none" /\ s # "NEW"
    /\ report' = [report EXCEPT ![u] = i]
    /\ subject' = [subject EXCEPT ![u] = player[i]]
    /\ want' = [want EXCEPT ![u] = s]
    /\ readNotes' = [readNotes EXCEPT ![u] = notes[i]]
    /\ Goto(u, IF s \in Decided THEN "filter" ELSE "write")
    /\ Contest(player[i])
    /\ UNCHANGED <<store, cites>>

\* A decision holds for every open report of the player.
UpdateFilter(u) ==
    /\ pc[u] = "filter" /\ Then(u, "write")
    /\ SetStatus(GetOpenReportsForUser(subject[u]), GetReportStatusFromProto(want[u]))
    /\ UNCHANGED <<reporter, player, notes, bans, locals, history>>

\* Status and notes are written whatever has become of the report since it was read.
UpdateWrite(u) ==
    /\ pc[u] = "write" /\ Goto(u, "ok")
    /\ SetStatus({report[u]}, GetReportStatusFromProto(want[u]))
    /\ notes' = [notes EXCEPT ![report[u]] = readNotes[u] \cup ({u} \cap Noting)]
    /\ reopened' = IF status[report[u]] \in Decided /\ GetReportStatusFromProto(want[u]) = "NEW"
                   THEN reopened \cup {report[u]} ELSE reopened
    /\ UNCHANGED <<reporter, player, bans, locals, contested, racing>>

-----------------------------------------------------------------------------

\* A database call of the request fails and has no effect.
Error(r) ==
    /\ InFlight(r) /\ Goto(r, "failed")
    /\ UNCHANGED <<store, locals, history>>

Next ==
    \/ \E c \in Creates :
          CreateInsert(c) \/ \E r \in Reporters, p \in Players : CreateCheck(c, r, p)
    \/ \E a \in Approves :
          ApproveBan(a) \/ ApproveResolve(a) \/ \E p \in Players : ApproveRead(a, p)
    \/ \E r \in Rejects : RejectWrite(r) \/ \E i \in Creates : RejectRead(r, i)
    \/ \E u \in Updates :
          \/ UpdateFilter(u) \/ UpdateWrite(u)
          \/ \E i \in Creates, s \in Protos : UpdateRead(u, i, s)
    \/ \E r \in Reqs : Error(r)

Spec == Init /\ [][Next]_vars

-----------------------------------------------------------------------------
(* Properties. *)

\* UpdateStatus(s) was called about the player of report i.
UpdatedTo(i, s) ==
    \E u \in Updates : pc[u] # "idle" /\ want[u] = s /\ subject[u] = player[i]

\* No report is closed in silence: a resolved one is named by a ban that exists, whatever
\* failed on the way, or UpdateStatus resolved the reports of its player.
NoSilentClose ==
    \A i \in Creates : status[i] = "RESOLVED" =>
        UpdatedTo(i, "RESOLVED") \/ \E a \in bans : i \in cites[a]

\* Two approvals that were answered never ban for the same report, unless staff calls about
\* the player overlapped or the report was set back to NEW.
OneBanPerReport ==
    \A a, b \in bans : \A i \in (cites[a] \cap cites[b]) \ reopened :
        a # b /\ pc[a] = "ok" /\ pc[b] = "ok" => player[i] \in contested

\* A report for which an answered approval has banned the player is not rejected, unless
\* staff calls about the player overlapped, UpdateStatus said so or it was set back to NEW.
VerdictsAgree ==
    \A a \in bans : \A i \in cites[a] \ reopened :
        pc[a] = "ok" /\ status[i] = "REJECTED" =>
            player[i] \in contested \/ UpdatedTo(i, "REJECTED")

\* A reporter whose CreateReport calls never overlapped stays within both limits of open
\* reports, the ones set back to NEW left aside.
OpenLimit ==
    \A r \in Reporters \ racing :
        LET open == GetNewReportsByUserID(r) \ reopened
        IN /\ Cardinality(open) <= MaxOpen
           /\ \A p \in Players : Cardinality({i \in open : player[i] = p}) <= MaxPerTarget

\* The note of an answered UpdateStatus call stays with the report, unless staff calls about
\* the player overlapped: the list is read and written back whole. (Proved for any number of
\* calls; no run of TLC checks it.)
NoteKept ==
    \A u \in Noting : pc[u] = "ok" /\ subject[u] \notin contested => u \in notes[report[u]]

=============================================================================
