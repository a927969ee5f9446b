--------------------------- MODULE CaseRecordsProofs --------------------------
(***************************************************************************)
(* Theorems about CaseRecords for every set of requests, actors and        *)
(* concurrent transactions.                                                *)
(***************************************************************************)
EXTENDS CaseRecords, TLAPS

Deciding(t) == pc[t] \in {"approving", "rejecting"}

\* A decision in flight is about a request and runs for a user.
DecisionShape ==
    \A t \in Transactions :
        Deciding(t) => target[t] \in Requests /\ actor[t] \in Actors

\* What has been archived, or was under review when a decision on it started,
\* has been given a retention class.
ClassedOnceArchived ==
    \/ classed
    \/ control \in {"absent", "ACTIVE"} /\ \A t \in Transactions : ~Deciding(t)

Core == /\ TypeOK
        /\ DecisionShape
        /\ ClassedOnceArchived
        /\ ReviewIsDecidable
        /\ ApprovalIsWarranted

-------------------------------------------------------------------------------

LEMMA InitCore == Init => Core
BY DEF Init, Core, TypeOK, DecisionShape, Deciding, ClassedOnceArchived,
       ReviewIsDecidable, ApprovalIsWarranted

\* The variables of the transactions keep their types when one ends.
LEMMA EndTypes ==
    ASSUME TypeOK, NEW t \in Transactions, End(t)
    PROVE  /\ pc' \in [Transactions -> {"none", "retaining", "archiving",
                                        "reopening", "approving", "rejecting"}]
           /\ target' \in [Transactions -> Requests \cup {NoRequest}]
           /\ actor' \in [Transactions -> Actors \cup {NoActor}]
           /\ seen' \in [Transactions -> SUBSET Requests]
BY DEF TypeOK, End

\* An ending transaction leaves the others as they are and decides no more.
LEMMA EndShape ==
    ASSUME TypeOK, NEW t \in Transactions, End(t)
    PROVE  \A s \in Transactions :
               Deciding(s)' => /\ Deciding(s)
                               /\ target'[s] = target[s]
                               /\ actor'[s] = actor[s]
BY DEF TypeOK, End, Deciding

\* A beginning one changes nothing but itself.
LEMMA BeginStays ==
    ASSUME Core, NEW t \in Transactions, NEW doing, NEW u, NEW r,
           \/ /\ doing \in {"retaining", "archiving", "reopening"}
              /\ u \in Actors \cup {NoActor} /\ r = NoRequest
           \/ /\ doing \in {"approving", "rejecting"}
              /\ u \in Actors /\ r \in Requests
              /\ control = "DISPOSAL_REQUESTED",
           Begin(t, doing, u, r)
    PROVE  Core'
<1>1. TypeOK'
  BY DEF Core, TypeOK, Begin, OpenRequests, recordVars, requestVars
<1>2. DecisionShape'
  BY DEF Core, TypeOK, DecisionShape, Deciding, Begin
<1>3. ClassedOnceArchived'
  BY DEF Core, TypeOK, ClassedOnceArchived, Deciding, Begin, recordVars
<1>4. ReviewIsDecidable' /\ ApprovalIsWarranted'
  BY DEF Core, ReviewIsDecidable, ApprovalIsWarranted, OpenRequests, Begin,
         recordVars, requestVars
<1>5. QED
  BY <1>1, <1>2, <1>3, <1>4 DEF Core

LEMMA OneStepStays == ASSUME Core, OneStep PROVE Core'
<1>1. CASE AssignCase \/ DisposeCase \/ CloseCase
  BY <1>1 DEF AssignCase, DisposeCase, CloseCase, MoveCase, Core, TypeOK,
       DecisionShape, Deciding, ClassedOnceArchived, ReviewIsDecidable,
       ApprovalIsWarranted, OpenRequests, requestVars, txVars
<1>2. CASE SetHold \/ ReleaseHold \/ Elapse \/ DocumentHold
  BY <1>2 DEF SetHold, MayHold, ReleaseHold, MayRelease, Elapse, DocumentHold,
       Core, TypeOK,
       DecisionShape, Deciding, ClassedOnceArchived, ReviewIsDecidable,
       ApprovalIsWarranted, OpenRequests, recordVars, requestVars, txVars
<1>3. ASSUME NEW u \in Actors, NEW r \in Requests, RequestDisposal(u, r)
      PROVE  Core'
  <2>1. TypeOK' /\ DecisionShape' /\ ClassedOnceArchived'
    BY <1>3 DEF RequestDisposal, MayRequest, Core, TypeOK, DecisionShape, Deciding,
         ClassedOnceArchived, txVars
  <2>2. r \in OpenRequests'
    BY <1>3 DEF RequestDisposal, MayRequest, OpenRequests, Core, TypeOK
  <2>3. ReviewIsDecidable' /\ ApprovalIsWarranted'
    BY <1>3, <2>2 DEF RequestDisposal, MayRequest, ReviewIsDecidable,
         ApprovalIsWarranted
  <2>4. QED
    BY <2>1, <2>3 DEF Core
<1>4. QED
  BY <1>1, <1>2, <1>3 DEF OneStep

LEMMA BeginStepStays == ASSUME Core, BeginStep PROVE Core'
<1>1. PICK t \in Transactions :
        \/ BeginRetention(t)
        \/ BeginArchive(t)
        \/ \E u \in Actors : BeginReopening(t, u)
        \/ \E u \in Actors, r \in Requests :
              BeginApproval(t, u, r) \/ BeginRejection(t, u, r)
  BY DEF BeginStep
<1>2. CASE BeginRetention(t) \/ BeginArchive(t)
  BY <1>2, BeginStays DEF BeginRetention, BeginArchive
<1>3. CASE \E u \in Actors : BeginReopening(t, u)
  BY <1>3, BeginStays DEF BeginReopening
<1>4. CASE \E u \in Actors, r \in Requests :
              BeginApproval(t, u, r) \/ BeginRejection(t, u, r)
  BY <1>4, BeginStays DEF BeginApproval, BeginRejection, UnderReview
<1>5. QED
  BY <1>1, <1>2, <1>3, <1>4

\* A decision sets one open request and the control, and nothing else.
LEMMA DecisionStays ==
    ASSUME Core, NEW t \in Transactions,
           CommitApproval(t) \/ CommitRejection(t)
    PROVE  Core'
<1>1. PICK r \in Requests : r = target[t]
  BY DEF Core, DecisionShape, Deciding, CommitApproval, CommitRejection
<1>2. PICK u \in Actors : u = actor[t]
  BY DEF Core, DecisionShape, Deciding, CommitApproval, CommitRejection
<1>3. PICK verdict \in {"APPROVED", "REJECTED"} :
        /\ status[r] = "REQUESTED" /\ requestedBy[r] # u
        /\ status' = [status EXCEPT ![r] = verdict]
        /\ decidedBy' = [decidedBy EXCEPT ![r] = u]
        /\ control' = IF verdict = "APPROVED" THEN "DISPOSAL_APPROVED"
                                              ELSE "ARCHIVED"
        /\ End(t)
        /\ UNCHANGED <<caseStatus, classed, eligible, hold, docHold, requestedBy>>
  BY <1>1, <1>2 DEF CommitApproval, CommitRejection, Decide, MayDecide
<1>4. TypeOK'
  <2>1. /\ status' \in [Requests -> {"absent", "REQUESTED", "APPROVED",
                                     "REJECTED", "CANCELLED"}]
        /\ decidedBy' \in [Requests -> Actors \cup {NoActor}]
    BY <1>3 DEF Core, TypeOK
  <2>2. QED
    BY <1>3, <2>1, EndTypes DEF Core, TypeOK
<1>5. DecisionShape'
  BY <1>3, EndShape DEF Core, DecisionShape
<1>6. classed
  BY DEF Core, ClassedOnceArchived, Deciding, CommitApproval, CommitRejection
<1>7. ClassedOnceArchived'
  BY <1>3, <1>6 DEF ClassedOnceArchived
<1>8. ReviewIsDecidable'
  BY <1>3 DEF ReviewIsDecidable
<1>9. ApprovalIsWarranted'
  <2>1. verdict = "APPROVED" =>
          /\ status'[r] = "APPROVED"
          /\ decidedBy'[r] \in Actors \ {requestedBy'[r]}
    BY <1>3 DEF Core, TypeOK
  <2>2. QED
    BY <1>3, <1>6, <2>1 DEF ApprovalIsWarranted
<1>10. QED
  BY <1>4, <1>5, <1>7, <1>8, <1>9 DEF Core

LEMMA ReopeningStays ==
    ASSUME Core, NEW t \in Transactions, CommitReopening(t)
    PROVE  Core'
<1>1. End(t) /\ control' = "ACTIVE" /\ UNCHANGED <<classed, hold, docHold, requestedBy>>
  BY DEF CommitReopening
<1>2. TypeOK'
  <2>1. /\ status' \in [Requests -> {"absent", "REQUESTED", "APPROVED",
                                     "REJECTED", "CANCELLED"}]
        /\ decidedBy' \in [Requests -> Actors \cup {NoActor}]
    BY DEF CommitReopening, Core, TypeOK
  <2>2. caseStatus' = "AWAITING_ASSIGNMENT" /\ eligible' = "none"
    BY DEF CommitReopening
  <2>3. QED
    BY <1>1, <2>1, <2>2, EndTypes DEF Core, TypeOK
<1>3. DecisionShape'
  BY <1>1, EndShape DEF Core, DecisionShape
<1>4. ClassedOnceArchived'
  BY <1>1, EndShape DEF Core, ClassedOnceArchived
<1>5. ReviewIsDecidable' /\ ApprovalIsWarranted'
  BY <1>1 DEF ReviewIsDecidable, ApprovalIsWarranted
<1>6. QED
  BY <1>2, <1>3, <1>4, <1>5 DEF Core

\* Retention and archive touch the control only while it is ACTIVE, a rollback
\* touches no row at all.
LEMMA ControlStays ==
    ASSUME Core, NEW t \in Transactions,
           CommitRetention(t) \/ CommitArchive(t) \/ Rollback(t)
    PROVE  Core'
<1>1. End(t)
  BY DEF CommitRetention, CommitArchive, Rollback
<1>2. UNCHANGED <<caseStatus, status, requestedBy, decidedBy>>
  BY DEF CommitRetention, CommitArchive, Rollback, requestVars
<1>3. TypeOK'
  BY <1>1, EndTypes DEF CommitRetention, CommitArchive, Rollback, Core, TypeOK,
       recordVars, requestVars
<1>4. DecisionShape'
  BY <1>1, EndShape DEF Core, DecisionShape
<1>5. ClassedOnceArchived'
  BY <1>1, EndShape DEF CommitRetention, CommitArchive, Rollback, MayArchive,
       Core, TypeOK, ClassedOnceArchived, recordVars
<1>6. ReviewIsDecidable' /\ ApprovalIsWarranted'
  BY <1>2 DEF CommitRetention, CommitArchive, Rollback, MayRetain, MayArchive,
       Core, ReviewIsDecidable, ApprovalIsWarranted, OpenRequests, recordVars
<1>7. QED
  BY <1>3, <1>4, <1>5, <1>6 DEF Core

-------------------------------------------------------------------------------

LEMMA CoreStep == Core /\ [Next]_vars => Core'
<1> SUFFICES ASSUME Core, [Next]_vars
             PROVE  Core'
  OBVIOUS
<1>1. CASE OneStep
  BY <1>1, OneStepStays
<1>2. CASE BeginStep
  BY <1>2, BeginStepStays
<1>3. CASE CommitStep
  BY <1>3, ControlStays, ReopeningStays, DecisionStays DEF CommitStep
<1>4. CASE UNCHANGED vars
  BY <1>4 DEF vars, Core, TypeOK, DecisionShape, Deciding, ClassedOnceArchived,
       ReviewIsDecidable, ApprovalIsWarranted, OpenRequests
<1>5. QED
  BY <1>1, <1>2, <1>3, <1>4 DEF Next

LEMMA CoreInvariant == Spec => []Core
BY InitCore, CoreStep, PTL DEF Spec

\* Every variable keeps its type, whatever the number of concurrent sessions.
THEOREM TypeCorrect == Spec => []TypeOK
<1>1. Core => TypeOK
  BY DEF Core
<1>2. QED
  BY <1>1, CoreInvariant, PTL

\* A record under disposal review belongs to a closed case, is due and has an
\* open request: no interleaving strands it in DISPOSAL_REQUESTED.
THEOREM ReviewStaysDecidable == Spec => []ReviewIsDecidable
<1>1. Core => ReviewIsDecidable
  BY DEF Core
<1>2. QED
  BY <1>1, CoreInvariant, PTL

\* A disposal approval rests on a retention class and on the decision of a
\* second person, even when it lands on a case that has been reopened.
THEOREM ApprovalsAreWarranted == Spec => []ApprovalIsWarranted
<1>1. Core => ApprovalIsWarranted
  BY DEF Core
<1>2. QED
  BY <1>1, CoreInvariant, PTL

\* One step never overwrites a decision: approvals and rejections compare the
\* status under the lock, and so does the cancellation by a reopening.
LEMMA DecisionStep ==
    ASSUME Core, [Next]_vars, NEW r \in Requests,
           status[r] \in {"APPROVED", "REJECTED", "CANCELLED"}
    PROVE  status'[r] = status[r] /\ decidedBy'[r] = decidedBy[r]
<1>1. CASE OneStep
  BY <1>1 DEF OneStep, AssignCase, DisposeCase, CloseCase, MoveCase, SetHold,
       ReleaseHold, Elapse, DocumentHold, RequestDisposal, requestVars, Core, TypeOK
<1>2. CASE BeginStep
  BY <1>2 DEF BeginStep, BeginRetention, BeginArchive, BeginReopening,
       BeginApproval, BeginRejection, Begin, requestVars
<1>3. ASSUME NEW t \in Transactions,
             CommitRetention(t) \/ CommitArchive(t) \/ Rollback(t)
      PROVE  status'[r] = status[r] /\ decidedBy'[r] = decidedBy[r]
  BY <1>3 DEF CommitRetention, CommitArchive, Rollback, requestVars
<1>4. ASSUME NEW t \in Transactions, CommitReopening(t)
      PROVE  status'[r] = status[r] /\ decidedBy'[r] = decidedBy[r]
  <2>1. r \notin Cancelled(t)
    BY DEF Cancelled, OpenRequests
  <2>2. QED
    BY <1>4, <2>1 DEF CommitReopening
<1>5. ASSUME NEW t \in Transactions, CommitApproval(t) \/ CommitRejection(t)
      PROVE  status'[r] = status[r] /\ decidedBy'[r] = decidedBy[r]
  <2>1. status[target[t]] = "REQUESTED"
    BY <1>5 DEF CommitApproval, CommitRejection, Decide, MayDecide
  <2>2. r # target[t]
    BY <2>1
  <2>3. QED
    BY <1>5, <2>2 DEF CommitApproval, CommitRejection, Decide, Core, TypeOK
<1>6. QED
  BY <1>1, <1>2, <1>3, <1>4, <1>5 DEF Next, CommitStep, vars

\* A request that was approved, rejected or cancelled stays that way.
THEOREM DecisionsStayFinal == Spec => DecisionsAreFinal
<1>1. Core /\ [Next]_vars =>
        [\A r \in Requests :
            status[r] \in {"APPROVED", "REJECTED", "CANCELLED"} =>
                status'[r] = status[r] /\ decidedBy'[r] = decidedBy[r]]_vars
  BY DecisionStep
<1>2. QED
  BY <1>1, CoreInvariant, PTL DEF Spec, DecisionsAreFinal

-------------------------------------------------------------------------------
(* The veto of a legal hold. *)

\* No hold is set while the statement of an approval is under way.
HoldsMissApprovals ==
    [][hold' /\ ~hold => \A t \in Transactions : pc[t] # "approving"]_vars

\* Then what the approval has read of the hold is still so.
VetoStands ==
    /\ LegalHoldVeto
    /\ hold => \A t \in Transactions : pc[t] # "approving"

LEMMA VetoStep ==
    ASSUME TypeOK, VetoStands, [Next]_vars,
           hold' /\ ~hold => \A t \in Transactions : pc[t] # "approving"
    PROVE  VetoStands'
<1>1. CASE OneStep
  BY <1>1 DEF OneStep, AssignCase, DisposeCase, CloseCase, MoveCase, SetHold, MayHold,
       ReleaseHold, Elapse, DocumentHold, RequestDisposal, VetoStands, LegalHoldVeto,
       recordVars, txVars
<1>2. ASSUME NEW t \in Transactions, NEW doing, NEW u, NEW r, Begin(t, doing, u, r),
             doing = "approving" => ~hold
      PROVE  VetoStands'
  BY <1>2 DEF Begin, TypeOK, VetoStands, LegalHoldVeto, recordVars
<1>3. CASE BeginStep
  BY <1>2, <1>3 DEF BeginStep, BeginRetention, BeginArchive, BeginReopening,
       BeginApproval, BeginRejection
<1>4. ASSUME NEW t \in Transactions, End(t), hold' = hold,
             control' = "DISPOSAL_APPROVED" => control' = control \/ pc[t] = "approving"
      PROVE  VetoStands'
  BY <1>4 DEF End, TypeOK, VetoStands, LegalHoldVeto
<1>5. CASE CommitStep
  BY <1>4, <1>5 DEF CommitStep, CommitRetention, CommitArchive, CommitReopening,
       CommitApproval, CommitRejection, Decide, Rollback, recordVars
<1>6. CASE UNCHANGED vars
  BY <1>6 DEF vars, VetoStands, LegalHoldVeto
<1> QED
  BY <1>1, <1>3, <1>5, <1>6 DEF Next

\* The design's veto does hold, for any number of sessions, in every behaviour in
\* which no hold is set while an approval waits for its locks: what breaks it is only
\* that the approval reads the hold from a snapshot.
THEOREM VetoOutsideTheRace == Spec /\ HoldsMissApprovals => []LegalHoldVeto
<1>1. Init => VetoStands
  BY DEF Init, VetoStands, LegalHoldVeto
<1>2. Core /\ VetoStands /\ [Next]_vars
        /\ [hold' /\ ~hold => \A t \in Transactions : pc[t] # "approving"]_vars
        => VetoStands'
  <2>1. Core => TypeOK
    BY DEF Core
  <2>2. UNCHANGED vars /\ VetoStands => VetoStands'
    BY DEF vars, VetoStands, LegalHoldVeto
  <2> QED
    BY <2>1, <2>2, VetoStep
<1>3. VetoStands => LegalHoldVeto
  BY DEF VetoStands
<1> QED
  BY <1>1, <1>2, <1>3, CoreInvariant, PTL DEF Spec, HoldsMissApprovals
===============================================================================
