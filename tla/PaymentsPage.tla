----------------------------- MODULE PaymentsPage ------------------------------
(***************************************************************************)
(* The Payments page of the Court Workspace, as one officer uses it: the   *)
(* React state of PaymentsPage.tsx, its requests through api/client.ts, and *)
(* the service as the page meets it, which other officers use too.         *)
(*                                                                         *)
(* Controls are disabled while a request of run() is in flight, but the    *)
(* queue that is loaded when the page appears answers at any time.  A      *)
(* request may fail before the service has seen it, after, or while it is  *)
(* on its way: then the service acts on it when the page has moved on, as  *)
(* on a request from elsewhere.                                            *)
(*                                                                         *)
(* A payment is created PENDING and never read again, so the buttons of a  *)
(* CONFIRMED one (receipt, reconciliation, certification) do not appear.   *)
(***************************************************************************)
EXTENDS FinanceRecords

CONSTANTS Assessments, Nothing

ASSUME PageAssumption ==
    Nothing \notin Assessments \cup Payments \cup Refunds

VARIABLES
    \* The service.
    assessed,        \* assessments that were made
    paysFor,         \* [Payments -> the assessment a payment was created for]
    refund,          \* [Refunds -> "absent" or refund_requests.status]
    \* The state of the page.
    assessment, payment, paymentSession,
    refundQueue,
    reviewed, shown, \* reviewedRefund: its id and its status
    \* A text or a tick is the refund under review when the officer gave it.
    refundDecisionReason, makerCheckerConfirmed,
    providerRefundReference, completionEvidenceConfirmed,
    \* Requests.
    request,         \* that of run(), or NoRequest; busy is request # NoRequest
    reply,           \* what the service answered, or NoReply
    listing, listed  \* the queue asked for when the page appeared

serviceVars == <<assessed, paysFor, refund>>
chainVars == <<assessment, payment, paymentSession>>
formVars == <<refundDecisionReason, makerCheckerConfirmed,
              providerRefundReference, completionEvidenceConfirmed>>
reviewVars == <<reviewed, shown, formVars>>
netVars == <<request, reply>>
listVars == <<listing, listed>>
pageVars == <<serviceVars, chainVars, refundQueue, reviewVars, netVars, listVars>>

Things == Assessments \cup Payments \cup Refunds \cup {Nothing}
Statuses == {"absent", "REQUESTED", "APPROVED", "REJECTED", "COMPLETED"}
Operations == {"none", "assess", "pay", "session", "request", "load", "approve",
               "reject", "complete"}

NoRequest == [op |-> "none", on |-> Nothing]
NoReply == [id |-> Nothing, status |-> "absent"]

PageTypeOK ==
    /\ assessed \subseteq Assessments
    /\ paysFor \in [Payments -> assessed \cup {Nothing}]
    /\ refund \in [Refunds -> Statuses]
    /\ assessment \in Assessments \cup {Nothing}
    /\ payment \in Payments \cup {Nothing}
    /\ paymentSession \in Payments \cup {Nothing}
    /\ refundQueue \subseteq Refunds
    /\ reviewed \in Refunds \cup {Nothing} /\ shown \in Statuses
    /\ {refundDecisionReason, makerCheckerConfirmed, providerRefundReference,
        completionEvidenceConfirmed} \subseteq Refunds \cup {Nothing}
    /\ request \in [op : Operations, on : Things]
    /\ reply \in [id : Things, status : Statuses]
    /\ listing \in {"sent", "answered", "over"} /\ listed \subseteq Refunds

PageInit ==
    /\ assessed = {} /\ paysFor = [p \in Payments |-> Nothing]
    /\ refund \in [Refunds -> {"absent", "REQUESTED"}]
    /\ assessment = Nothing /\ payment = Nothing /\ paymentSession = Nothing
    /\ refundQueue = {} /\ reviewed = Nothing /\ shown = "absent"
    /\ refundDecisionReason = Nothing /\ makerCheckerConfirmed = Nothing
    /\ providerRefundReference = Nothing /\ completionEvidenceConfirmed = Nothing
    /\ request = NoRequest /\ reply = NoReply
    /\ listing = "sent" /\ listed = {}

-------------------------------------------------------------------------------
(* What the officer does. *)

Busy == request # NoRequest

\* run() and apiRequest().
Send(op, on) ==
    /\ ~Busy
    /\ request' = [op |-> op, on |-> on]
    /\ UNCHANGED <<serviceVars, refundQueue, reviewVars, reply, listVars>>

\* By hand or from a schedule, for the filing that was typed.
Assess == Send("assess", Nothing) /\ UNCHANGED chainVars

MakePayment ==
    /\ assessment # Nothing /\ payment = Nothing
    /\ Send("pay", assessment)
    /\ paymentSession' = Nothing
    /\ UNCHANGED <<assessment, payment>>

StartPaymentSession ==
    /\ payment # Nothing /\ paymentSession = Nothing
    /\ Send("session", payment)
    /\ UNCHANGED chainVars

SubmitRefundRequest == Send("request", Nothing) /\ UNCHANGED chainVars

\* An id that was typed, or one of the queue.
LoadRefundById(r) == Send("load", r) /\ UNCHANGED chainVars

\* A text or a tick is given for the refund under review, or taken back.
Edit(field) ==
    /\ field' \in {reviewed, Nothing}
    /\ UNCHANGED <<serviceVars, chainVars, refundQueue, reviewed, shown, netVars, listVars>>

EditDecision ==
    /\ ~Busy /\ shown = "REQUESTED"
    /\ \/ Edit(refundDecisionReason) /\ UNCHANGED makerCheckerConfirmed
       \/ Edit(makerCheckerConfirmed) /\ UNCHANGED refundDecisionReason
    /\ UNCHANGED <<providerRefundReference, completionEvidenceConfirmed>>

EditCompletion ==
    /\ ~Busy /\ shown = "APPROVED"
    /\ \/ Edit(providerRefundReference) /\ UNCHANGED completionEvidenceConfirmed
       \/ Edit(completionEvidenceConfirmed) /\ UNCHANGED providerRefundReference
    /\ UNCHANGED <<refundDecisionReason, makerCheckerConfirmed>>

DecideLoadedRefund(decision) ==
    /\ shown = "REQUESTED"
    /\ makerCheckerConfirmed # Nothing /\ refundDecisionReason # Nothing
    /\ Send(decision, reviewed)
    /\ UNCHANGED chainVars

ApproveLoadedRefund == DecideLoadedRefund("approve")

RejectLoadedRefund == DecideLoadedRefund("reject")

RecordRefundCompletion ==
    /\ shown = "APPROVED"
    /\ completionEvidenceConfirmed # Nothing /\ providerRefundReference # Nothing
    /\ Send("complete", reviewed)
    /\ UNCHANGED chainVars

-------------------------------------------------------------------------------
(* The service: see Fees and Refunds for what it checks. *)

Before == [approve |-> "REQUESTED", reject |-> "REQUESTED", complete |-> "APPROVED"]

\* Mutant of After: another word for a rejection.
AfterWording == [approve |-> "APPROVED", reject |-> "REFUSED", complete |-> "COMPLETED"]

After == [approve |-> "APPROVED", reject |-> "REJECTED", complete |-> "COMPLETED"]

\* The service acts on request q; its answer is about id.
Act(q, id) ==
    \/ /\ q.op = "assess" /\ id \in Assessments \ assessed
       /\ assessed' = assessed \cup {id}
       /\ UNCHANGED <<paysFor, refund>>
    \/ /\ q.op = "pay" /\ id \in Payments /\ paysFor[id] = Nothing
       /\ paysFor' = [paysFor EXCEPT ![id] = q.on]
       /\ UNCHANGED <<assessed, refund>>
    \/ /\ q.op = "session" /\ id = q.on
       /\ UNCHANGED serviceVars
    \/ /\ q.op = "request" /\ id \in Refunds /\ refund[id] = "absent"
       /\ refund' = [refund EXCEPT ![id] = "REQUESTED"]
       /\ UNCHANGED <<assessed, paysFor>>
    \/ /\ q.op = "load" /\ id = q.on /\ refund[id] # "absent"
       /\ UNCHANGED serviceVars
    \/ /\ q.op \in DOMAIN Before /\ id = q.on /\ refund[id] = Before[q.op]
       /\ refund' = [refund EXCEPT ![id] = After[q.op]]
       /\ UNCHANGED <<assessed, paysFor>>

Serve ==
    /\ Busy /\ reply = NoReply
    /\ \E id \in Things :
          /\ Act(request, id)
          /\ reply' = [id |-> id, status |-> IF id \in Refunds THEN refund'[id] ELSE "absent"]
    /\ UNCHANGED <<chainVars, refundQueue, reviewVars, request, listVars>>

\* Another officer, or a request of the page that it gave up while it was on its
\* way: both are settled by the service, and the page hears nothing of it.
ActElsewhere ==
    /\ \E q \in [op : {"assess", "request"}, on : {Nothing}] \cup
               [op : {"pay"}, on : assessed] \cup [op : DOMAIN Before, on : Refunds] :
          \E id \in Things : Act(q, id)
    /\ UNCHANGED <<chainVars, refundQueue, reviewVars, netVars, listVars>>

ListRefunds ==
    /\ listing = "sent"
    /\ listing' = "answered"
    /\ listed' = {r \in Refunds : refund[r] = "REQUESTED"}
    /\ UNCHANGED <<serviceVars, chainVars, refundQueue, reviewVars, netVars>>

-------------------------------------------------------------------------------
(* What comes back. *)

Answered(ops) ==
    /\ request.op \in ops
    /\ reply # NoReply
    /\ request' = NoRequest /\ reply' = NoReply
    /\ UNCHANGED <<serviceVars, listVars>>

\* Mutant of ClearPaymentProgression: the link to the provider stays.
ClearPaymentOnly == payment' = Nothing /\ UNCHANGED paymentSession

ClearPaymentProgression == payment' = Nothing /\ paymentSession' = Nothing

ReceiveAssessment ==
    /\ Answered({"assess"})
    /\ assessment' = reply.id
    /\ ClearPaymentProgression
    /\ UNCHANGED <<refundQueue, reviewVars>>

ReceivePayment ==
    /\ Answered({"pay"})
    /\ payment' = reply.id
    /\ UNCHANGED <<assessment, paymentSession, refundQueue, reviewVars>>

ReceiveSession ==
    /\ Answered({"session"})
    /\ paymentSession' = reply.id
    /\ UNCHANGED <<assessment, payment, refundQueue, reviewVars>>

ReceiveRefundRequest ==
    /\ Answered({"request"})
    /\ refundQueue' = refundQueue \cup {reply.id}
    /\ UNCHANGED <<chainVars, reviewVars>>

\* Mutant of ClearReview: what was confirmed stays confirmed.
ClearTexts ==
    /\ refundDecisionReason' = Nothing
    /\ UNCHANGED <<makerCheckerConfirmed, completionEvidenceConfirmed>>

ClearReview ==
    /\ refundDecisionReason' = Nothing
    /\ makerCheckerConfirmed' = Nothing /\ completionEvidenceConfirmed' = Nothing

\* A completed refund comes with its reference.
ReceiveRefund ==
    /\ Answered({"load"})
    /\ reviewed' = reply.id /\ shown' = reply.status
    /\ ClearReview
    /\ providerRefundReference' = IF reply.status = "COMPLETED" THEN reply.id ELSE Nothing
    /\ UNCHANGED <<chainVars, refundQueue>>

ReceiveDecision ==
    /\ Answered({"approve", "reject"})
    /\ reviewed' = reply.id /\ shown' = reply.status
    /\ makerCheckerConfirmed' = Nothing
    /\ refundQueue' = refundQueue \ {reply.id}
    /\ UNCHANGED <<chainVars, refundDecisionReason, providerRefundReference,
                   completionEvidenceConfirmed>>

ReceiveCompletion ==
    /\ Answered({"complete"})
    /\ reviewed' = reply.id /\ shown' = reply.status
    /\ completionEvidenceConfirmed' = Nothing
    /\ UNCHANGED <<chainVars, refundQueue, refundDecisionReason, makerCheckerConfirmed,
                   providerRefundReference>>

\* run() shows the error, and nothing else changes: the request was refused, did
\* not arrive or not yet, or its answer was lost.
RequestFails ==
    /\ Busy
    /\ request' = NoRequest /\ reply' = NoReply
    /\ UNCHANGED <<serviceVars, chainVars, refundQueue, reviewVars, listVars>>

\* The answer replaces the queue, whatever was added or removed meanwhile.
ReceiveListing ==
    /\ listing = "answered"
    /\ listing' = "over" /\ listed' = {}
    /\ refundQueue' = listed
    /\ UNCHANGED <<serviceVars, chainVars, reviewVars, netVars>>

ListingFails ==
    /\ listing # "over"
    /\ listing' = "over" /\ listed' = {}
    /\ UNCHANGED <<serviceVars, chainVars, refundQueue, reviewVars, netVars>>

-------------------------------------------------------------------------------
OfficerStep ==
    \/ Assess \/ MakePayment \/ StartPaymentSession
    \/ SubmitRefundRequest \/ (\E r \in Refunds : LoadRefundById(r))
    \/ EditDecision \/ EditCompletion
    \/ ApproveLoadedRefund \/ RejectLoadedRefund \/ RecordRefundCompletion

ServiceStep == Serve \/ ActElsewhere \/ ListRefunds

AnswerStep ==
    \/ ReceiveAssessment \/ ReceivePayment \/ ReceiveSession
    \/ ReceiveRefundRequest \/ ReceiveRefund \/ ReceiveDecision \/ ReceiveCompletion
    \/ RequestFails \/ ReceiveListing \/ ListingFails

PageNext == OfficerStep \/ ServiceStep \/ AnswerStep

PageSpec == PageInit /\ [][PageNext]_pageVars

-------------------------------------------------------------------------------
(* Properties. *)

\* A decision or a completion is sent for the refund under review, with the
\* reason or reference and the tick that were given for that refund, whatever was
\* loaded, decided or failed before.
ConfirmedWhatIsSent ==
    [][/\ request'.op \in {"approve", "reject"} /\ request # request' =>
            {refundDecisionReason, makerCheckerConfirmed} = {request'.on}
       /\ request'.op = "complete" /\ request # request' =>
            {providerRefundReference, completionEvidenceConfirmed} = {request'.on}]_pageVars

\* What a refund may have been before it has a status.
Earlier == [absent |-> {}, REQUESTED |-> {"REQUESTED"},
            APPROVED |-> {"REQUESTED", "APPROVED"}, REJECTED |-> {"REQUESTED", "REJECTED"},
            COMPLETED |-> {"REQUESTED", "APPROVED", "COMPLETED"}]

\* What the page shows was so at the service and hangs together: the payment is
\* of the assessment and the link of the payment, the refund under review had the
\* status that is shown, and the queue lists refunds that were requested.  Lost
\* answers, failures and other officers leave it behind, never ahead.
FollowsTheService ==
    /\ payment # Nothing => assessment # Nothing /\ paysFor[payment] = assessment
    /\ paymentSession # Nothing => paymentSession = payment
    /\ reviewed # Nothing => shown \in Earlier[refund[reviewed]]
    /\ \A r \in refundQueue : refund[r] # "absent"
===============================================================================
