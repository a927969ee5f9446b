------------------------------ MODULE CaseRecords -----------------------------
(***************************************************************************)
(* One court case from assignment to closure and back, the control row of  *)
(* its record (retention, archive, legal hold) and the requests to dispose *)
(* of the record: CaseLifecycleRecordsService over case_mgmt.cases,        *)
(* records.case_record_controls and records.disposal_requests.  Cases do   *)
(* not interact.                                                           *)
(*                                                                         *)
(* Transactions are READ COMMITTED.  A row that a statement locks is       *)
(* checked twice, in the statement's snapshot and again under the lock; a  *)
(* row it only joins is checked in the snapshot.  An operation that checks *)
(* nothing but the rows it locks is one step.  The others are two: Begin   *)
(* is the service's unlocked check and the snapshot of the statement, the  *)
(* commit is everything from the granted locks to COMMIT.                  *)
(***************************************************************************)
EXTENDS Naturals

CONSTANTS
    Requests,      \* the disposal requests that may be made
    NoRequest,
    Actors, NoActor,
    Transactions   \* the database sessions that may be inside a statement

ASSUME SetsAssumption ==
    /\ NoRequest \notin Requests
    /\ NoActor \notin Actors

VARIABLES
    caseStatus,    \* case_mgmt.cases.status
    control,       \* case_record_controls.status, "absent" before the first closure
    classed,       \* retention_class_code IS NOT NULL
    eligible,      \* disposition_eligible_at: "none", "later" or "due"
    hold,          \* legal_hold of the record
    docHold,       \* some document of the case has legal_hold
    status,        \* [Requests -> "absent" or the request's status]
    requestedBy, decidedBy,
    pc,            \* the statement each transaction is in
    target, actor, \* the request it is about and the user it runs for
    seen           \* open requests in the snapshot of a reopening

recordVars == <<control, classed, eligible, hold>>
requestVars == <<status, requestedBy, decidedBy>>
txVars == <<pc, target, actor, seen>>
vars == <<caseStatus, control, classed, eligible, hold, docHold, status,
          requestedBy, decidedBy, pc, target, actor, seen>>

TypeOK ==
    /\ caseStatus \in {"AWAITING_ASSIGNMENT", "ASSIGNED", "DISPOSED", "CLOSED"}
    /\ control \in {"absent", "ACTIVE", "ARCHIVED", "DISPOSAL_REQUESTED",
                    "DISPOSAL_APPROVED"}
    /\ classed \in BOOLEAN
    /\ eligible \in {"none", "later", "due"}
    /\ hold \in BOOLEAN
    /\ docHold \in BOOLEAN
    /\ status \in [Requests -> {"absent", "REQUESTED", "APPROVED", "REJECTED",
                                "CANCELLED"}]
    /\ requestedBy \in [Requests -> Actors \cup {NoActor}]
    /\ decidedBy \in [Requests -> Actors \cup {NoActor}]
    /\ pc \in [Transactions -> {"none", "retaining", "archiving", "reopening",
                                "approving", "rejecting"}]
    /\ target \in [Transactions -> Requests \cup {NoRequest}]
    /\ actor \in [Transactions -> Actors \cup {NoActor}]
    /\ seen \in [Transactions -> SUBSET Requests]

Init ==
    /\ caseStatus = "AWAITING_ASSIGNMENT"
    /\ control = "absent"
    /\ classed = FALSE
    /\ eligible = "none"
    /\ hold = FALSE
    /\ docHold = FALSE
    /\ status = [r \in Requests |-> "absent"]
    /\ requestedBy = [r \in Requests |-> NoActor]
    /\ decidedBy = [r \in Requests |-> NoActor]
    /\ pc = [t \in Transactions |-> "none"]
    /\ target = [t \in Transactions |-> NoRequest]
    /\ actor = [t \in Transactions |-> NoActor]
    /\ seen = [t \in Transactions |-> {}]

OpenRequests == {r \in Requests : status[r] = "REQUESTED"}

-------------------------------------------------------------------------------
(* Operations that check only the rows they lock. *)

MoveCase(from, to) ==
    /\ caseStatus = from
    /\ caseStatus' = to
    /\ UNCHANGED <<classed, eligible, hold, docHold, requestVars, txVars>>

AssignCase == MoveCase("AWAITING_ASSIGNMENT", "ASSIGNED") /\ UNCHANGED control

\* Hearings and judgments are not modelled here: their checks may pass at any time.
DisposeCase == MoveCase("ASSIGNED", "DISPOSED") /\ UNCHANGED control

\* The control row is inserted, or set ACTIVE again whatever state it is in.
CloseCase == MoveCase("DISPOSED", "CLOSED") /\ control' = "ACTIVE"

\* A hold needs no closed case, only a record that is not approved for disposal.
MayHold == control \notin {"absent", "DISPOSAL_APPROVED"}

SetHold ==
    /\ MayHold
    /\ hold' = TRUE
    /\ UNCHANGED <<caseStatus, control, classed, eligible, docHold, requestVars,
                   txVars>>

MayRelease == hold /\ control # "DISPOSAL_APPROVED"

ReleaseHold ==
    /\ MayRelease
    /\ hold' = FALSE
    /\ UNCHANGED <<caseStatus, control, classed, eligible, docHold, requestVars,
                   txVars>>

\* Documents, control and case are locked and checked again.  A request that is
\* still open, even one the control does not know of, violates the unique index.
MayRequest ==
    /\ caseStatus = "CLOSED"
    /\ control = "ARCHIVED"
    /\ ~hold /\ ~docHold
    /\ eligible = "due"
    /\ OpenRequests = {}

\* Mutant of RequestDisposal: the record takes the request's status.
MislabelledRequest(u, r) ==
    /\ status[r] = "absent"
    /\ MayRequest
    /\ status' = [status EXCEPT ![r] = "REQUESTED"]
    /\ requestedBy' = [requestedBy EXCEPT ![r] = u]
    /\ control' = "REQUESTED"
    /\ UNCHANGED <<caseStatus, classed, eligible, hold, docHold, decidedBy, txVars>>

RequestDisposal(u, r) ==
    /\ status[r] = "absent"
    /\ MayRequest
    /\ status' = [status EXCEPT ![r] = "REQUESTED"]
    /\ requestedBy' = [requestedBy EXCEPT ![r] = u]
    /\ control' = "DISPOSAL_REQUESTED"
    /\ UNCHANGED <<caseStatus, classed, eligible, hold, docHold, decidedBy, txVars>>

\* The clock reaches disposition_eligible_at.
Elapse ==
    /\ eligible = "later"
    /\ eligible' = "due"
    /\ UNCHANGED <<caseStatus, control, classed, hold, docHold, requestVars, txVars>>

\* documents.legal_hold is read here and written by nothing in this repository.
DocumentHold ==
    /\ docHold' = ~docHold
    /\ UNCHANGED <<caseStatus, recordVars, requestVars, txVars>>

-------------------------------------------------------------------------------
(* Operations whose checks are split between snapshot and locked rows. *)

Begin(t, doing, u, r) ==
    /\ pc[t] = "none"
    /\ pc' = [pc EXCEPT ![t] = doing]
    /\ target' = [target EXCEPT ![t] = r]
    /\ actor' = [actor EXCEPT ![t] = u]
    /\ seen' = [seen EXCEPT ![t] = OpenRequests]
    /\ UNCHANGED <<caseStatus, recordVars, docHold, requestVars>>

End(t) ==
    /\ pc' = [pc EXCEPT ![t] = "none"]
    /\ target' = [target EXCEPT ![t] = NoRequest]
    /\ actor' = [actor EXCEPT ![t] = NoActor]
    /\ seen' = [seen EXCEPT ![t] = {}]

\* No row passes the second check, or the audit append or the outbox enqueue
\* fails: the transaction is rolled back.
Rollback(t) ==
    /\ pc[t] # "none"
    /\ End(t)
    /\ UNCHANGED <<caseStatus, recordVars, docHold, requestVars>>

\* Mutant of MayRetain: the status of the control is not compared.
UnheldRecord == ~hold

MayRetain == control = "ACTIVE" /\ ~hold

BeginRetention(t) ==
    /\ caseStatus = "CLOSED"
    /\ MayRetain
    /\ Begin(t, "retaining", NoActor, NoRequest)

\* The eligibility date is the caller's, in the past or in the future.
CommitRetention(t) ==
    /\ pc[t] = "retaining"
    /\ MayRetain
    /\ classed' = TRUE
    /\ eligible' \in {"later", "due"}
    /\ End(t)
    /\ UNCHANGED <<caseStatus, control, hold, docHold, requestVars>>

MayArchive == control = "ACTIVE" /\ classed

BeginArchive(t) ==
    /\ caseStatus = "CLOSED"
    /\ MayArchive
    /\ Begin(t, "archiving", NoActor, NoRequest)

CommitArchive(t) ==
    /\ pc[t] = "archiving"
    /\ MayArchive
    /\ control' = "ARCHIVED"
    /\ End(t)
    /\ UNCHANGED <<caseStatus, classed, eligible, hold, docHold, requestVars>>

BeginReopening(t, u) ==
    /\ caseStatus = "CLOSED"
    /\ Begin(t, "reopening", u, NoRequest)

\* Mutant of Cancelled: the status is not compared again under the lock.
EverySeen(t) == seen[t]

\* Requests the snapshot shows as open and that still are.
Cancelled(t) == seen[t] \cap OpenRequests

\* The retention class and the hold survive a reopening.
CommitReopening(t) ==
    /\ pc[t] = "reopening"
    /\ caseStatus = "CLOSED"
    /\ caseStatus' = "AWAITING_ASSIGNMENT"
    /\ control' = "ACTIVE"
    /\ eligible' = "none"
    /\ status' = [r \in Requests |->
                    IF r \in Cancelled(t) THEN "CANCELLED" ELSE status[r]]
    /\ decidedBy' = [r \in Requests |->
                       IF r \in Cancelled(t) THEN actor[t] ELSE decidedBy[r]]
    /\ End(t)
    /\ UNCHANGED <<classed, hold, docHold, requestedBy>>

\* Mutant of MayDecide: the requester is not compared.
AnyoneMayDecide(u, r) == status[r] = "REQUESTED"

MayDecide(u, r) == status[r] = "REQUESTED" /\ requestedBy[r] # u

\* The statement locks control and case, but reads what it compares of them
\* from its snapshot: the case closed, the record under review.
UnderReview == caseStatus = "CLOSED" /\ control = "DISPOSAL_REQUESTED"

BeginApproval(t, u, r) ==
    /\ MayDecide(u, r)
    /\ UnderReview
    /\ ~hold /\ ~docHold
    /\ eligible = "due"
    /\ Begin(t, "approving", u, r)

BeginRejection(t, u, r) ==
    /\ MayDecide(u, r)
    /\ UnderReview
    /\ Begin(t, "rejecting", u, r)

Decide(t, verdict, custody) ==
    /\ MayDecide(actor[t], target[t])
    /\ status' = [status EXCEPT ![target[t]] = verdict]
    /\ decidedBy' = [decidedBy EXCEPT ![target[t]] = actor[t]]
    /\ control' = custody
    /\ End(t)
    /\ UNCHANGED <<caseStatus, classed, eligible, hold, docHold, requestedBy>>

\* Request and documents are checked again under their locks.
CommitApproval(t) ==
    /\ pc[t] = "approving"
    /\ ~docHold
    /\ Decide(t, "APPROVED", "DISPOSAL_APPROVED")

CommitRejection(t) ==
    /\ pc[t] = "rejecting"
    /\ Decide(t, "REJECTED", "ARCHIVED")

-------------------------------------------------------------------------------
OneStep ==
    \/ AssignCase \/ DisposeCase \/ CloseCase
    \/ SetHold \/ ReleaseHold \/ Elapse \/ DocumentHold
    \/ \E u \in Actors, r \in Requests : RequestDisposal(u, r)

BeginStep == \E t \in Transactions :
    \/ BeginRetention(t)
    \/ BeginArchive(t)
    \/ \E u \in Actors : BeginReopening(t, u)
    \/ \E u \in Actors, r \in Requests :
          BeginApproval(t, u, r) \/ BeginRejection(t, u, r)

CommitStep == \E t \in Transactions :
    \/ CommitRetention(t)
    \/ CommitArchive(t)
    \/ CommitReopening(t)
    \/ CommitApproval(t)
    \/ CommitRejection(t)
    \/ Rollback(t)

Next == OneStep \/ BeginStep \/ CommitStep

Spec == Init /\ [][Next]_vars

-------------------------------------------------------------------------------
(* Properties. *)

\* A record under disposal review belongs to a closed case, its retention has
\* run out and its request is still open: whatever stale retention, reopening or
\* decision commits in between, the review can still be decided.
ReviewIsDecidable ==
    control = "DISPOSAL_REQUESTED" =>
        caseStatus = "CLOSED" /\ eligible = "due" /\ OpenRequests # {}

\* A record approved for disposal carries a retention class and an approved
\* request that somebody else than its requester decided.
ApprovalIsWarranted ==
    control = "DISPOSAL_APPROVED" =>
        /\ classed
        /\ \E r \in Requests : /\ status[r] = "APPROVED"
                               /\ decidedBy[r] \in Actors \ {requestedBy[r]}

\* A decision on a request is final: no late decision and no reopening that saw
\* the request open overwrites it.
DecisionsAreFinal ==
    [][\A r \in Requests :
          status[r] \in {"APPROVED", "REJECTED", "CANCELLED"} =>
              status'[r] = status[r] /\ decidedBy'[r] = decidedBy[r]]_vars

\* The design's principle 4: "A held record cannot become disposal-eligible or
\* receive disposal approval."  The approval reads legal_hold from its snapshot.
LegalHoldVeto == control = "DISPOSAL_APPROVED" => ~hold
===============================================================================
