------------------------------- MODULE Judicial --------------------------------
(***************************************************************************)
(* The hearings and judgments of one court case, from its assignment to    *)
(* its disposition and possible reopening: JudicialOperationsService over  *)
(* case_mgmt.cases, judicial.hearings, hearing_adjournments, the records   *)
(* of a hearing and judicial.judgments.  Cases do not interact.            *)
(*                                                                         *)
(* An operation that decides on the row it updates is one step: what the   *)
(* service reads first is checked again by the WHERE of the UPDATE.  The   *)
(* operations that decide on rows they do not lock are several steps:      *)
(* scheduling (case), recording (hearing) and disposing (hearings).        *)
(*                                                                         *)
(* assigned_to_subject is NULL exactly while the case awaits assignment,   *)
(* and which magistrate acts changes nothing, so assignees are left out.   *)
(***************************************************************************)
EXTENDS Naturals

CONSTANTS
    Hearings, Judgments,  \* identifiers that may be given out
    Nothing,
    Sessions,             \* the transactions that may be open at a time
    MaxVersion            \* bound on the edits of a draft

ASSUME JudicialAssumption ==
    /\ Nothing \notin Hearings \cup Judgments
    /\ MaxVersion \in Nat \ {0}

VARIABLES
    caseStatus,   \* case_mgmt.cases.status
    hearing,      \* [Hearings -> "absent" or hearings.status]
    started,      \* hearings with a started_at
    adjourned,    \* rows of hearing_adjournments
    recorded,     \* hearings with an appearance or a proceeding record
    judgment,     \* [Judgments -> "absent" or judgments.status]
    restsOn,      \* judgments.hearing_id
    version,      \* judgments.version, standing for title and content
    disposedOn,   \* judgment_id of the last DISPOSED lifecycle event
    pc, about,    \* what each session is doing, and to which row
    \* History, read by no step of the code:
    met,          \* scheduling sessions that overlapped a disposition
    contested     \* hearings such a session created, and their successors

hearingVars == <<hearing, started, adjourned, recorded>>
judgmentVars == <<judgment, restsOn, version>>
sessionVars == <<pc, about>>
history == <<met, contested>>
vars == <<caseStatus, hearing, started, adjourned, recorded, judgment, restsOn,
          version, disposedOn, pc, about, met, contested>>

Adjournment == [of : Hearings, next : Hearings \cup {Nothing}]

TypeOK ==
    /\ caseStatus \in {"AWAITING_ASSIGNMENT", "ASSIGNED", "DISPOSED", "CLOSED"}
    /\ hearing \in [Hearings -> {"absent", "SCHEDULED", "IN_PROGRESS",
                                 "ADJOURNED", "COMPLETED"}]
    /\ started \subseteq Hearings
    /\ adjourned \subseteq Adjournment
    /\ recorded \subseteq Hearings
    /\ judgment \in [Judgments -> {"absent", "DRAFT", "FINAL", "SIGNED", "ISSUED"}]
    /\ restsOn \in [Judgments -> Hearings \cup {Nothing}]
    /\ version \in [Judgments -> 0..MaxVersion]
    /\ disposedOn \in Judgments \cup {Nothing}
    /\ pc \in [Sessions -> {"none", "scheduling", "recording", "disposing", "clear"}]
    /\ about \in [Sessions -> Hearings \cup Judgments \cup {Nothing}]
    /\ met \subseteq Sessions
    /\ contested \subseteq Hearings

Init ==
    /\ caseStatus = "AWAITING_ASSIGNMENT"
    /\ hearing = [h \in Hearings |-> "absent"]
    /\ started = {} /\ adjourned = {} /\ recorded = {}
    /\ judgment = [j \in Judgments |-> "absent"]
    /\ restsOn = [j \in Judgments |-> Nothing]
    /\ version = [j \in Judgments |-> 0]
    /\ disposedOn = Nothing
    /\ pc = [s \in Sessions |-> "none"]
    /\ about = [s \in Sessions |-> Nothing]
    /\ met = {} /\ contested = {}

IsActive(h) == hearing[h] \in {"SCHEDULED", "IN_PROGRESS"}

-------------------------------------------------------------------------------
(* Sessions. *)

Begin(s, doing, x) ==
    /\ pc[s] = "none"
    /\ pc' = [pc EXCEPT ![s] = doing]
    /\ about' = [about EXCEPT ![s] = x]

End(s) ==
    /\ pc' = [pc EXCEPT ![s] = "none"]
    /\ about' = [about EXCEPT ![s] = Nothing]
    /\ met' = met \ {s}

\* The statement matched no row, or the audit append or the outbox enqueue
\* failed: the transaction is rolled back.
Rollback(s) ==
    /\ pc[s] # "none"
    /\ End(s)
    /\ UNCHANGED <<caseStatus, hearingVars, judgmentVars, disposedOn, contested>>

-------------------------------------------------------------------------------
(* The case. *)

MoveCase(from, to) ==
    /\ caseStatus = from
    /\ caseStatus' = to
    /\ UNCHANGED <<hearingVars, judgmentVars>>

\* The service accepts OPEN too, a status no code gives a case.
AssignCase ==
    /\ MoveCase("AWAITING_ASSIGNMENT", "ASSIGNED")
    /\ UNCHANGED <<disposedOn, sessionVars, history>>

CloseCase ==
    /\ MoveCase("DISPOSED", "CLOSED")
    /\ UNCHANGED <<disposedOn, sessionVars, history>>

ReopenCase ==
    /\ MoveCase("CLOSED", "AWAITING_ASSIGNMENT")
    /\ UNCHANGED <<disposedOn, sessionVars, history>>

InDisposition(s) == pc[s] \in {"disposing", "clear"}

\* The service reads the case, then its hearings and the judgment that is named.
BeginDisposition(s, j) ==
    /\ caseStatus = "ASSIGNED"
    /\ Begin(s, "disposing", j)
    /\ met' = met \cup {t \in Sessions : pc[t] = "scheduling"}
    /\ UNCHANGED <<caseStatus, hearingVars, judgmentVars, disposedOn, contested>>

\* Mutant of NoActiveHearing: a hearing that has begun is not active.
NoScheduledHearing == \A h \in Hearings : hearing[h] # "SCHEDULED"

NoActiveHearing == \A h \in Hearings : ~IsActive(h)

\* A disposition need not name a judgment.
Issued(j) == j # Nothing => judgment[j] = "ISSUED"

CheckDisposition(s) ==
    /\ pc[s] = "disposing"
    /\ NoActiveHearing
    /\ Issued(about[s])
    /\ pc' = [pc EXCEPT ![s] = "clear"]
    /\ UNCHANGED <<caseStatus, hearingVars, judgmentVars, disposedOn, about, history>>

\* The UPDATE compares the status of the case and nothing else.
DisposeCase(s) ==
    /\ pc[s] = "clear"
    /\ MoveCase("ASSIGNED", "DISPOSED")
    /\ disposedOn' = about[s]
    /\ End(s)
    /\ UNCHANGED contested

-------------------------------------------------------------------------------
(* Hearings. *)

\* HEARING_SCHEDULED, which is accepted too, is a status no code gives a case.
BeginScheduling(s) ==
    /\ caseStatus = "ASSIGNED"
    /\ Begin(s, "scheduling", Nothing)
    /\ met' = IF \E t \in Sessions : InDisposition(t) THEN met \cup {s} ELSE met
    /\ UNCHANGED <<caseStatus, hearingVars, judgmentVars, disposedOn, contested>>

\* The hearing is inserted whatever has become of the case.
ScheduleHearing(s, h) ==
    /\ pc[s] = "scheduling"
    /\ hearing[h] = "absent"
    /\ hearing' = [hearing EXCEPT ![h] = "SCHEDULED"]
    /\ contested' = IF s \in met THEN contested \cup {h} ELSE contested
    /\ End(s)
    /\ UNCHANGED <<caseStatus, started, adjourned, recorded, judgmentVars, disposedOn>>

\* Mutant of MayAdjourn: a hearing that was adjourned may be adjourned again.
Unfinished(h) == hearing[h] \notin {"absent", "COMPLETED"}

MayAdjourn(h) == IsActive(h)

\* One transaction under the row lock of the hearing: its adjournment, and its
\* successor if there is to be one.  The status of the case is not looked at.
AdjournHearing(h, next) ==
    /\ MayAdjourn(h)
    /\ next # Nothing => hearing[next] = "absent"
    /\ hearing' = [x \in Hearings |-> CASE x = h -> "ADJOURNED"
                                        [] x = next -> "SCHEDULED"
                                        [] OTHER -> hearing[x]]
    /\ adjourned' = adjourned \cup {[of |-> h, next |-> next]}
    /\ contested' = IF h \in contested THEN contested \cup ({next} \ {Nothing})
                                       ELSE contested
    /\ UNCHANGED <<caseStatus, started, recorded, judgmentVars, disposedOn,
                   sessionVars, met>>

MayStart(h) == hearing[h] = "SCHEDULED"

StartHearing(h) ==
    /\ MayStart(h)
    /\ hearing' = [hearing EXCEPT ![h] = "IN_PROGRESS"]
    /\ started' = started \cup {h}
    /\ UNCHANGED <<caseStatus, adjourned, recorded, judgmentVars, disposedOn,
                   sessionVars, history>>

MayComplete(h) == hearing[h] = "IN_PROGRESS"

CompleteHearing(h) ==
    /\ MayComplete(h)
    /\ hearing' = [hearing EXCEPT ![h] = "COMPLETED"]
    /\ UNCHANGED <<caseStatus, started, adjourned, recorded, judgmentVars,
                   disposedOn, sessionVars, history>>

\* The INSERT of a record selects from the hearing without locking it.
InSession(h) == hearing[h] = "IN_PROGRESS"

BeginRecord(s, h) ==
    /\ InSession(h)
    /\ Begin(s, "recording", h)
    /\ UNCHANGED <<caseStatus, hearingVars, judgmentVars, disposedOn, history>>

\* An appearance or a proceeding; the hearing may be over by now.
CommitRecord(s) ==
    /\ pc[s] = "recording"
    /\ recorded' = recorded \cup {about[s]}
    /\ End(s)
    /\ UNCHANGED <<caseStatus, hearing, started, adjourned, judgmentVars,
                   disposedOn, contested>>

-------------------------------------------------------------------------------
(* Judgments. *)

\* Mutant of MayBeJudged: a hearing may be judged while it is in progress.
JudgedWhileHeard(h) == hearing[h] \in {"IN_PROGRESS", "COMPLETED"}

MayBeJudged(h) == hearing[h] = "COMPLETED"

\* The case may be in any status.  COMPLETED is final, so reading it without a
\* lock is as good as with one.
CreateJudgment(j, h) ==
    /\ judgment[j] = "absent"
    /\ MayBeJudged(h)
    /\ judgment' = [judgment EXCEPT ![j] = "DRAFT"]
    /\ restsOn' = [restsOn EXCEPT ![j] = h]
    /\ version' = [version EXCEPT ![j] = 1]
    /\ UNCHANGED <<caseStatus, hearingVars, disposedOn, sessionVars, history>>

MayEdit(j) == judgment[j] = "DRAFT"

UpdateJudgmentDraft(j) ==
    /\ MayEdit(j)
    /\ version[j] < MaxVersion
    /\ version' = [version EXCEPT ![j] = version[j] + 1]
    /\ UNCHANGED <<caseStatus, hearingVars, judgment, restsOn, disposedOn,
                   sessionVars, history>>

MoveJudgment(j, from, to) ==
    /\ judgment[j] = from
    /\ judgment' = [judgment EXCEPT ![j] = to]
    /\ UNCHANGED <<caseStatus, hearingVars, restsOn, version, disposedOn,
                   sessionVars, history>>

\* Mutant of ReviewJudgment: a status the table does not have.
ApproveJudgment(j) == MoveJudgment(j, "DRAFT", "REVIEWED")

\* The UPDATE compares no version: the text that becomes final is the current
\* one, which need not be the one the reviewer read.
ReviewJudgment(j) == MoveJudgment(j, "DRAFT", "FINAL")

SignJudgment(j) == MoveJudgment(j, "FINAL", "SIGNED")

IssueJudgment(j) == MoveJudgment(j, "SIGNED", "ISSUED")

-------------------------------------------------------------------------------
CaseStep == AssignCase \/ CloseCase \/ ReopenCase

HearingStep == \E h \in Hearings :
    \/ StartHearing(h)
    \/ CompleteHearing(h)
    \/ \E next \in (Hearings \cup {Nothing}) \ {h} : AdjournHearing(h, next)

JudgmentStep == \E j \in Judgments :
    \/ \E h \in Hearings : CreateJudgment(j, h)
    \/ UpdateJudgmentDraft(j)
    \/ ReviewJudgment(j)
    \/ SignJudgment(j)
    \/ IssueJudgment(j)

SessionStep == \E s \in Sessions :
    \/ \E j \in Judgments \cup {Nothing} : BeginDisposition(s, j)
    \/ CheckDisposition(s)
    \/ DisposeCase(s)
    \/ BeginScheduling(s)
    \/ \E h \in Hearings : ScheduleHearing(s, h) \/ BeginRecord(s, h)
    \/ CommitRecord(s)
    \/ Rollback(s)

Next == CaseStep \/ HearingStep \/ JudgmentStep \/ SessionStep

Spec == Init /\ [][Next]_vars

-------------------------------------------------------------------------------
(* Properties. *)

\* A disposed, closed or reopened case has no active hearing, unless the hearing
\* goes back to a scheduling that overlapped a disposition: the unlocked check
\* for active hearings, and adjournments that insert hearings without looking at
\* the case, are otherwise enough.
OnlyContestedHearingsOutlive ==
    \A h \in Hearings :
        IsActive(h) /\ h \notin contested => caseStatus = "ASSIGNED"

\* Every adjourned hearing has exactly one adjournment, and its successor exists
\* and succeeds no other hearing.
AdjournmentsChain ==
    /\ \A h \in Hearings :
          hearing[h] = "ADJOURNED" <=> \E a \in adjourned : a.of = h
    /\ \A a, b \in adjourned :
          a.of = b.of \/ (a.next = b.next /\ a.next # Nothing) => a = b
    /\ \A a \in adjourned : a.next # Nothing => hearing[a.next] # "absent"

\* Appearances and proceedings belong to hearings that were started, although
\* one may be committed after its hearing is over.
RecordsOfHeldHearings ==
    recorded \cup {h \in Hearings : hearing[h] = "COMPLETED"} \subseteq started

\* A judgment rests on a completed hearing, and so does the disposition that
\* names it, which waited for the judgment to be issued.
JudgmentsRestOnHearings ==
    /\ \A j \in Judgments : judgment[j] # "absent" =>
          restsOn[j] \in Hearings /\ hearing[restsOn[j]] = "COMPLETED"
    /\ disposedOn # Nothing => judgment[disposedOn] = "ISSUED"

\* The text of a judgment that was reviewed, signed or issued never changes,
\* nor does its status go back.
FinalTextIsFixed ==
    [][\A j \in Judgments : judgment[j] \in {"FINAL", "SIGNED", "ISSUED"} =>
          /\ version'[j] = version[j]
          /\ restsOn'[j] = restsOn[j]
          /\ judgment'[j] \notin {"absent", "DRAFT"}]_vars
===============================================================================
