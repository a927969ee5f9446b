------------------------------- MODULE Registry --------------------------------
(***************************************************************************)
(* From the draft of a filing to its case: intake and review in            *)
(* registry.filings, the validation task of each submission, the           *)
(* idempotency keys of retried submissions, the payment of an accepted     *)
(* filing with its receipt and reconciliation, and the numbered case that  *)
(* is opened on it.  The filings share a court, a case type and a year,    *)
(* hence one row of case_number_sequences.                                 *)
(*                                                                         *)
(* A payment behaves as PaymentLifecycle says, which PaymentEvents shows   *)
(* to be what providers, clerks and refunds make of it.  An operation that *)
(* decides on rows it does not lock is two steps or more of a session; one *)
(* whose UPDATE compares what the service read is a single step.           *)
(***************************************************************************)
EXTENDS Naturals

CONSTANTS
    Filings,
    Keys,         \* an actor with an idempotency key
    Payments,
    PaidFor,      \* the filing whose assessment each payment is made for
    Nothing,
    Sessions      \* the transactions that may be open at a time

ASSUME RegistryAssumption ==
    /\ PaidFor \in [Payments -> Filings]
    /\ Nothing \notin Payments

VARIABLES
    status,       \* [Filings -> "absent" or filings.status]
    openTask,     \* filings with a validation task that is not completed
    doneTasks,    \* how many of their tasks were completed
    replies,      \* rows of idempotency_records, each with its reply
    submitEvents, \* rows of outbox_events: filing.submitted
    caseEvents,   \* and case.opened
    created,      \* rows of finance.payments
    standing, announced,  \* see PaymentLifecycle
    receipts,     \* payments with a receipt
    recon,        \* [Payments -> "absent" or reconciliations.status]
    caseNo,       \* [Filings -> the number of their case, 0 for none]
    paidBy,       \* cases.payment_id, by filing
    lastValue,    \* case_number_sequences.last_value
    pc, about, with, number,  \* what each session does, for which filing, with
                              \* which key or payment, and the number it holds
    \* History, read by no step of the code:
    overtaken     \* sessions whose payment was given back after they read it

intakeVars == <<status, openTask, doneTasks, replies, submitEvents>>
moneyVars == <<created, standing, announced, receipts, recon>>
caseVars == <<caseEvents, caseNo, paidBy, lastValue>>
sessionVars == <<pc, about, with, number>>
vars == <<status, openTask, doneTasks, replies, submitEvents, caseEvents, created,
          standing, announced, receipts, recon, caseNo, paidBy, lastValue,
          pc, about, with, number, overtaken>>

Life == INSTANCE PaymentLifecycle

Doing == {"none", "submitting", "receipting", "reconciling", "opening",
          "unopened", "numbered"}

TypeOK ==
    /\ status \in [Filings -> {"absent", "DRAFT", "SUBMITTED", "RETURNED",
                               "VALIDATED", "REJECTED", "ACCEPTED"}]
    /\ openTask \subseteq Filings
    /\ doneTasks \in [Filings -> Nat]
    /\ replies \subseteq Filings \X Keys
    /\ submitEvents \in [Filings -> Nat] /\ caseEvents \in [Filings -> Nat]
    /\ created \subseteq Payments
    /\ standing \in [Payments -> {"open", "confirmed", "lost", "returned"}]
    /\ announced \subseteq Payments
    /\ receipts \subseteq created
    /\ recon \in [Payments -> {"absent", "PREPARED", "CERTIFIED", "REJECTED"}]
    /\ caseNo \in [Filings -> Nat]
    /\ paidBy \in [Filings -> created \cup {Nothing}]
    /\ lastValue \in Nat
    /\ pc \in [Sessions -> Doing]
    /\ about \in [Sessions -> Filings \cup {Nothing}]
    /\ with \in [Sessions -> Keys \cup Payments \cup {Nothing}]
    /\ number \in [Sessions -> Nat]
    /\ overtaken \subseteq Sessions

Init ==
    /\ status = [f \in Filings |-> "absent"]
    /\ openTask = {} /\ doneTasks = [f \in Filings |-> 0]
    /\ replies = {}
    /\ submitEvents = [f \in Filings |-> 0] /\ caseEvents = [f \in Filings |-> 0]
    /\ created = {} /\ Life!Init
    /\ receipts = {} /\ recon = [p \in Payments |-> "absent"]
    /\ caseNo = [f \in Filings |-> 0]
    /\ paidBy = [f \in Filings |-> Nothing]
    /\ lastValue = 0
    /\ pc = [t \in Sessions |-> "none"]
    /\ about = [t \in Sessions |-> Nothing]
    /\ with = [t \in Sessions |-> Nothing]
    /\ number = [t \in Sessions |-> 0]
    /\ overtaken = {}

-------------------------------------------------------------------------------
(* Sessions and events. *)

Begin(t, doing, f, x) ==
    /\ pc[t] = "none"
    /\ pc' = [pc EXCEPT ![t] = doing]
    /\ about' = [about EXCEPT ![t] = f]
    /\ with' = [with EXCEPT ![t] = x]
    /\ UNCHANGED <<number, overtaken>>

End(t) ==
    /\ pc' = [pc EXCEPT ![t] = "none"]
    /\ about' = [about EXCEPT ![t] = Nothing]
    /\ with' = [with EXCEPT ![t] = Nothing]
    /\ number' = [number EXCEPT ![t] = 0]
    /\ overtaken' = overtaken \ {t}

\* A statement matched no row or violated a unique index, or the audit append
\* failed.  A claimed key and an increment of last_value go with it.
Rollback(t) ==
    /\ pc[t] # "none"
    /\ End(t)
    /\ UNCHANGED <<intakeVars, moneyVars, caseVars>>

\* Mutant of Enqueue: no deduplication key.
EnqueueAgain(events, f) == [events EXCEPT ![f] = events[f] + 1]

\* The outbox keeps one event of a type for a filing or a case.
Enqueue(events, f) ==
    IF events[f] = 0 THEN [events EXCEPT ![f] = 1] ELSE events

-------------------------------------------------------------------------------
(* Intake and review. *)

IntakeStep == UNCHANGED <<moneyVars, caseVars, sessionVars, overtaken>>

CreateFilingDraft(f) ==
    /\ status[f] = "absent"
    /\ status' = [status EXCEPT ![f] = "DRAFT"]
    /\ UNCHANGED <<openTask, doneTasks, replies, submitEvents>>
    /\ IntakeStep

\* The key is claimed by an INSERT, which waits for a claim that is not committed.
KeyFree(f, k) ==
    /\ <<f, k>> \notin replies
    /\ \A t \in Sessions : pc[t] = "submitting" => <<about[t], with[t]>> # <<f, k>>

BeginSubmit(t, f, k) ==
    /\ status[f] # "absent"
    /\ KeyFree(f, k)
    /\ Begin(t, "submitting", f, k)
    /\ UNCHANGED <<intakeVars, moneyVars, caseVars>>

\* Mutant of MaySubmit: a filing that was returned or refused may be submitted
\* again.
MayResubmit(f) == status[f] # "ACCEPTED" /\ f \notin openTask

\* The UPDATE asks for DRAFT, the index for no other open task.
MaySubmit(f) == status[f] = "DRAFT" /\ f \notin openTask

SubmitFiling(t) ==
    LET f == about[t] IN
    /\ pc[t] = "submitting"
    /\ MaySubmit(f)
    /\ status' = [status EXCEPT ![f] = "SUBMITTED"]
    /\ openTask' = openTask \cup {f}
    /\ replies' = replies \cup {<<f, with[t]>>}
    /\ submitEvents' = Enqueue(submitEvents, f)
    /\ End(t)
    /\ UNCHANGED <<doneTasks, moneyVars, caseVars>>

\* A retry with a key that was used is answered from its row, and enqueued again.
ReplaySubmission(f, k) ==
    /\ <<f, k>> \in replies
    /\ submitEvents' = Enqueue(submitEvents, f)
    /\ UNCHANGED <<status, openTask, doneTasks, replies>>
    /\ IntakeStep

\* The filing and its task, in one transaction.
ValidateFiling(f) ==
    /\ status[f] = "SUBMITTED"
    /\ f \in openTask
    /\ status' = [status EXCEPT ![f] = "VALIDATED"]
    /\ openTask' = openTask \ {f}
    /\ doneTasks' = [doneTasks EXCEPT ![f] = doneTasks[f] + 1]
    /\ UNCHANGED <<replies, submitEvents>>
    /\ IntakeStep

TransitionFiling(f, from, to) ==
    /\ status[f] \in from
    /\ status' = [status EXCEPT ![f] = to]
    /\ UNCHANGED <<openTask, doneTasks, replies, submitEvents>>
    /\ IntakeStep

\* The task of a filing that is returned or rejected before its validation
\* stays open.
ReturnFiling(f) == TransitionFiling(f, {"SUBMITTED"}, "RETURNED")

RejectFiling(f) == TransitionFiling(f, {"SUBMITTED", "VALIDATED"}, "REJECTED")

\* Nothing moves a filing that was accepted.
AcceptFiling(f) == TransitionFiling(f, {"VALIDATED"}, "ACCEPTED")

-------------------------------------------------------------------------------
(* Payments, receipts and reconciliations. *)

\* On the assessment of an accepted filing; nothing limits their number.
CreatePayment(p) ==
    /\ p \notin created
    /\ status[PaidFor[p]] = "ACCEPTED"
    /\ created' = created \cup {p}
    /\ UNCHANGED <<intakeVars, standing, announced, receipts, recon, caseVars,
                   sessionVars, overtaken>>

UsingPayment(t, p) ==
    pc[t] \in {"receipting", "reconciling", "opening", "unopened", "numbered"} /\ with[t] = p

PaymentStep(p) ==
    /\ p \in created
    /\ \/ Life!Confirm(p) /\ UNCHANGED overtaken
       \/ Life!Lose(p) /\ UNCHANGED overtaken
       \/ /\ Life!GiveBack(p)
          /\ overtaken' = overtaken \cup {t \in Sessions : UsingPayment(t, p)}
    /\ UNCHANGED <<intakeVars, created, receipts, recon, caseVars, sessionVars>>

\* Mutant of HasMoney: any payment that was recorded.
Recorded(p) == p \in created

\* The status of the payment, in a SELECT that does not lock it.
HasMoney(p) == p \in created /\ standing[p] = "confirmed"

BeginReceipt(t, p) ==
    /\ HasMoney(p)
    /\ p \notin receipts
    /\ Begin(t, "receipting", PaidFor[p], p)
    /\ UNCHANGED <<intakeVars, moneyVars, caseVars>>

\* receipts.payment_id is unique.
IssueReceipt(t) ==
    /\ pc[t] = "receipting"
    /\ with[t] \notin receipts
    /\ receipts' = receipts \cup {with[t]}
    /\ End(t)
    /\ UNCHANGED <<intakeVars, created, standing, announced, recon, caseVars>>

BeginReconciliation(t, p) ==
    /\ HasMoney(p)
    /\ Begin(t, "reconciling", PaidFor[p], p)
    /\ UNCHANGED <<intakeVars, moneyVars, caseVars>>

\* reconciliations.payment_id is unique too, so that a payment whose
\* reconciliation was rejected never has another.
CreateReconciliation(t) ==
    /\ pc[t] = "reconciling"
    /\ recon[with[t]] = "absent"
    /\ recon' = [recon EXCEPT ![with[t]] = "PREPARED"]
    /\ End(t)
    /\ UNCHANGED <<intakeVars, created, standing, announced, receipts, caseVars>>

\* By another person than its maker; the payment is not looked at.
DecideReconciliation(p, outcome) ==
    /\ recon[p] = "PREPARED"
    /\ recon' = [recon EXCEPT ![p] = outcome]
    /\ UNCHANGED <<intakeVars, created, standing, announced, receipts, caseVars,
                   sessionVars, overtaken>>

CertifyReconciliation(p) == DecideReconciliation(p, "CERTIFIED")

\* Mutant of RejectReconciliation: the mark the Payments page shows.
MarkException(p) == DecideReconciliation(p, "EXCEPTION")

RejectReconciliation(p) == DecideReconciliation(p, "REJECTED")

-------------------------------------------------------------------------------
(* Case opening. *)

Step(t, from, to) ==
    /\ pc[t] = from
    /\ pc' = [pc EXCEPT ![t] = to]
    /\ UNCHANGED <<about, with>>

\* openCase reads the filing, its case, the payment and its assessment.
BeginOpening(t, f, p) ==
    /\ status[f] = "ACCEPTED"
    /\ caseNo[f] = 0
    /\ HasMoney(p)
    /\ PaidFor[p] = f
    /\ Begin(t, "opening", f, p)
    /\ UNCHANGED <<intakeVars, moneyVars, caseVars>>

\* The case has appeared meanwhile: it is returned, and enqueued again.
ReturnExisting(t) ==
    /\ pc[t] = "opening"
    /\ caseNo[about[t]] # 0
    /\ caseEvents' = Enqueue(caseEvents, about[t])
    /\ End(t)
    /\ UNCHANGED <<intakeVars, moneyVars, caseNo, paidBy, lastValue>>

\* FOR UPDATE finds no row, and so locks none.
MissCase(t) ==
    /\ Step(t, "opening", "unopened")
    /\ caseNo[about[t]] = 0
    /\ UNCHANGED <<intakeVars, moneyVars, caseVars, number, overtaken>>

\* Mutant of SequenceFree: the sequence is read without its lock.
SequenceUnlocked == lastValue \in Nat

\* The upsert waits for the transaction that has updated the row.
SequenceFree == \A t \in Sessions : pc[t] # "numbered"

TakeNumber(t) ==
    /\ Step(t, "unopened", "numbered")
    /\ SequenceFree
    /\ number' = [number EXCEPT ![t] = lastValue + 1]
    /\ UNCHANGED <<intakeVars, moneyVars, caseVars, overtaken>>

\* cases.filing_id is unique.
OpenCase(t) ==
    LET f == about[t] IN
    /\ pc[t] = "numbered"
    /\ caseNo[f] = 0
    /\ caseNo' = [caseNo EXCEPT ![f] = number[t]]
    /\ paidBy' = [paidBy EXCEPT ![f] = with[t]]
    /\ lastValue' = number[t]
    /\ caseEvents' = Enqueue(caseEvents, f)
    /\ End(t)
    /\ UNCHANGED <<intakeVars, moneyVars>>

-------------------------------------------------------------------------------
ReviewStep == \E f \in Filings :
    \/ CreateFilingDraft(f)
    \/ \E k \in Keys : ReplaySubmission(f, k)
    \/ ValidateFiling(f)
    \/ ReturnFiling(f)
    \/ RejectFiling(f)
    \/ AcceptFiling(f)

MoneyStep == \E p \in Payments :
    \/ CreatePayment(p)
    \/ PaymentStep(p)
    \/ CertifyReconciliation(p)
    \/ RejectReconciliation(p)

SessionStep == \E t \in Sessions :
    \/ \E f \in Filings, k \in Keys : BeginSubmit(t, f, k)
    \/ SubmitFiling(t)
    \/ \E p \in Payments : BeginReceipt(t, p) \/ BeginReconciliation(t, p)
    \/ IssueReceipt(t)
    \/ CreateReconciliation(t)
    \/ \E f \in Filings, p \in Payments : BeginOpening(t, f, p)
    \/ ReturnExisting(t)
    \/ MissCase(t)
    \/ TakeNumber(t)
    \/ OpenCase(t)
    \/ Rollback(t)

Next == ReviewStep \/ MoneyStep \/ SessionStep

Spec == Init /\ [][Next]_vars

-------------------------------------------------------------------------------
(* Properties. *)

\* What the submission and the review of a filing leave behind.
EffectsOf(f) ==
    LET submitted == status[f] \notin {"absent", "DRAFT"} IN
    /\ submitEvents[f] = (IF submitted THEN 1 ELSE 0)
    /\ submitted <=> \E k \in Keys : <<f, k>> \in replies
    /\ \A k, l \in Keys : <<f, k>> \in replies /\ <<f, l>> \in replies => k = l
    /\ doneTasks[f] = (IF submitted /\ f \notin openTask THEN 1 ELSE 0)
    /\ f \in openTask => status[f] \in {"SUBMITTED", "RETURNED", "REJECTED"}
    /\ status[f] \in {"SUBMITTED", "RETURNED"} => f \in openTask

\* However often and concurrently a draft is submitted, under one key or several,
\* it has one validation task, one stored reply and one filing.submitted event;
\* it is validated or accepted exactly when that task has been completed, but for
\* a later rejection.
SubmittedOnce == \A f \in Filings : EffectsOf(f)

\* Case numbers are handed out without gaps or repetitions, although openings
\* race and are rolled back; each case is announced once, and belongs to an
\* accepted filing and to a payment made for it that was confirmed.
OpenedOnce ==
    /\ {caseNo[f] : f \in Filings} \ {0} = 1..lastValue
    /\ \A f, g \in Filings : caseNo[f] = caseNo[g] => f = g \/ caseNo[f] = 0
    /\ \A f \in Filings :
          IF caseNo[f] = 0
          THEN caseEvents[f] = 0 /\ paidBy[f] = Nothing
          ELSE /\ caseEvents[f] = 1
               /\ status[f] = "ACCEPTED"
               /\ paidBy[f] \in announced /\ PaidFor[paidBy[f]] = f

\* A receipt, a reconciliation or a case rests on money that is there when it is
\* recorded, unless the payment was given back between the unlocked read and the
\* insert.
MoneyWasThere ==
    [][\A p \in Payments :
          \/ p \in receipts' \ receipts
          \/ recon[p] = "absent" /\ recon'[p] # "absent"
          \/ \E f \in Filings : (paidBy'[f] = p) /\ paidBy[f] # p
          => standing[p] = "confirmed" \/ \E t \in overtaken : with[t] = p]_vars
===============================================================================
