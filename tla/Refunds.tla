------------------------------- MODULE Refunds --------------------------------
(***************************************************************************)
(* Refund requests against payments: the operations requestRefund,          *)
(* approveRefund, rejectRefund and completeRefund of                        *)
(* FinanceCompletionService over finance.refund_requests and                *)
(* finance.payments, each run by PostgresTransactionManager as one READ     *)
(* COMMITTED transaction.                                                   *)
(*                                                                          *)
(* A transaction first reads and checks without locks (the service), then   *)
(* runs one SQL statement, the audit append and the outbox enqueue, and     *)
(* commits.  The rows it decides on are locked by the statement (FOR        *)
(* UPDATE) and re-read once the lock is granted, so statement and commit    *)
(* are one step; what the statement reads of other rows is the snapshot     *)
(* taken when it started, which for the request is a step of its own.       *)
(***************************************************************************)
EXTENDS FinanceRecords, Integers, FiniteSetsExt

CONSTANTS
    PaymentOf,      \* [Refunds -> Payments], payment_id of the request
    RefundAmount,   \* [Refunds -> Nat \ {0}], its amount_minor
    PaymentAmount,  \* [Payments -> Nat \ {0}], amount_minor of the payment
    Actors, NoActor,
    Transactions,   \* the database sessions that may be open at once
    NoRefund

ASSUME SetsAssumption ==
    /\ NoActor \notin Actors
    /\ NoRefund \notin Refunds

ASSUME AmountsAssumption ==
    /\ PaymentOf \in [Refunds -> Payments]
    /\ RefundAmount \in [Refunds -> Nat \ {0}]
    /\ PaymentAmount \in [Payments -> Nat \ {0}]

VARIABLES
    payStatus,    \* finance.payments.status
    refunded,     \* finance.payments.refunded_amount_minor
    status,       \* [Refunds -> "absent" or the row's status]
    requestedBy,  \* requested_by_subject
    decidedBy,    \* decided_by_subject
    pc,           \* what each open transaction does next
    target,       \* the request it is about
    actor,        \* the user it runs for
    reserved      \* the sum a request's statement read from its snapshot

payVars == <<payStatus, refunded>>
rowVars == <<status, requestedBy, decidedBy>>
txVars == <<pc, target, actor, reserved>>
vars == <<payStatus, refunded, status, requestedBy, decidedBy, pc, target,
          actor, reserved>>

Total(S) == MapThenSumSet(LAMBDA r : RefundAmount[r], S)

\* What a sum over refund_requests can come to.
Sums == {0} \cup {Total(S) : S \in SUBSET Refunds}

TypeOK ==
    /\ payStatus \in [Payments -> {"PENDING", "CONFIRMED", "CANCELLED",
                                   "REFUNDED"}]
    /\ refunded \in [Payments -> Nat]
    /\ status \in [Refunds -> {"absent", "REQUESTED", "APPROVED", "REJECTED",
                               "COMPLETED"}]
    /\ requestedBy \in [Refunds -> Actors \cup {NoActor}]
    /\ decidedBy \in [Refunds -> Actors \cup {NoActor}]
    /\ pc \in [Transactions -> {"none", "requesting", "inserting", "approving",
                                "rejecting", "completing"}]
    /\ target \in [Transactions -> Refunds \cup {NoRefund}]
    /\ actor \in [Transactions -> Actors \cup {NoActor}]
    /\ reserved \in [Transactions -> Sums]

Init ==
    /\ payStatus = [p \in Payments |-> "PENDING"]
    /\ refunded = [p \in Payments |-> 0]
    /\ status = [r \in Refunds |-> "absent"]
    /\ requestedBy = [r \in Refunds |-> NoActor]
    /\ decidedBy = [r \in Refunds |-> NoActor]
    /\ pc = [t \in Transactions |-> "none"]
    /\ target = [t \in Transactions |-> NoRefund]
    /\ actor = [t \in Transactions |-> NoActor]
    /\ reserved = [t \in Transactions |-> 0]

-------------------------------------------------------------------------------
(* The payment, as far as refunds see it. *)

\* confirmPayment or a PAYMENT_SUCCEEDED event.
ConfirmPayment(p) ==
    /\ payStatus[p] = "PENDING"
    /\ payStatus' = [payStatus EXCEPT ![p] = "CONFIRMED"]
    /\ UNCHANGED <<refunded, rowVars, txVars>>

\* A PAYMENT_CANCELLED event.
CancelPayment(p) ==
    /\ payStatus[p] = "PENDING"
    /\ payStatus' = [payStatus EXCEPT ![p] = "CANCELLED"]
    /\ UNCHANGED <<refunded, rowVars, txVars>>

\* Mutant of ProviderReversal: the provider's word becomes the status.
ProviderWording(p) ==
    /\ payStatus[p] = "CONFIRMED"
    /\ payStatus' = [payStatus EXCEPT ![p] = "REVERSED"]
    /\ UNCHANGED <<refunded, rowVars, txVars>>

\* A PAYMENT_REFUNDED or PAYMENT_REVERSED event: the provider took the money
\* back by itself; refunded_amount_minor is not touched.
ProviderReversal(p) ==
    /\ payStatus[p] = "CONFIRMED"
    /\ payStatus' = [payStatus EXCEPT ![p] = "REFUNDED"]
    /\ UNCHANGED <<refunded, rowVars, txVars>>

-------------------------------------------------------------------------------
(* The transactions. *)

Open(t, doing, r, u) ==
    /\ pc[t] = "none"
    /\ pc' = [pc EXCEPT ![t] = doing]
    /\ target' = [target EXCEPT ![t] = r]
    /\ actor' = [actor EXCEPT ![t] = u]
    /\ UNCHANGED <<payVars, rowVars, reserved>>

Close(t) ==
    /\ pc' = [pc EXCEPT ![t] = "none"]
    /\ target' = [target EXCEPT ![t] = NoRefund]
    /\ actor' = [actor EXCEPT ![t] = NoActor]
    /\ reserved' = [reserved EXCEPT ![t] = 0]

\* The statement matched no row, or the audit append or the outbox enqueue
\* after it failed: withTransaction() rolls everything back.
Rollback(t) ==
    /\ pc[t] # "none"
    /\ Close(t)
    /\ UNCHANGED <<payVars, rowVars>>

\* Requests that count against the ceiling.
Reserving(p) == {r \in Refunds :
                   /\ PaymentOf[r] = p
                   /\ status[r] \in {"REQUESTED", "APPROVED", "COMPLETED"}}

BeginRequest(t, u, r) ==
    /\ status[r] = "absent"
    /\ \A s \in Transactions : target[s] # r
    /\ payStatus[PaymentOf[r]] = "CONFIRMED"
    /\ RefundAmount[r] <= PaymentAmount[PaymentOf[r]]
    /\ Open(t, "requesting", r, u)

\* The statement starts: the sum over refund_requests will be this one however
\* long the lock on the payment takes.
TakeSnapshot(t) ==
    /\ pc[t] = "requesting"
    /\ pc' = [pc EXCEPT ![t] = "inserting"]
    /\ reserved' = [reserved EXCEPT ![t] = Total(Reserving(PaymentOf[target[t]]))]
    /\ UNCHANGED <<payVars, rowVars, target, actor>>

\* The lock on the payment is granted and its status re-read.
CommitRequest(t) ==
    LET r == target[t]
    IN /\ pc[t] = "inserting"
       /\ payStatus[PaymentOf[r]] = "CONFIRMED"
       /\ reserved[t] + RefundAmount[r] <= PaymentAmount[PaymentOf[r]]
       /\ status' = [status EXCEPT ![r] = "REQUESTED"]
       /\ requestedBy' = [requestedBy EXCEPT ![r] = actor[t]]
       /\ Close(t)
       /\ UNCHANGED <<payVars, decidedBy>>

\* Maker and checker differ, and the request is still undecided: checked by the
\* service when it reads the row and by the statement when it has locked it.
MayDecide(u, r) == status[r] = "REQUESTED" /\ requestedBy[r] # u

BeginDecision(t, doing, u, r) ==
    /\ MayDecide(u, r)
    /\ Open(t, doing, r, u)

Decide(t, verdict) ==
    /\ status' = [status EXCEPT ![target[t]] = verdict]
    /\ decidedBy' = [decidedBy EXCEPT ![target[t]] = actor[t]]
    /\ Close(t)
    /\ UNCHANGED <<payVars, requestedBy>>

CommitApproval(t) ==
    /\ pc[t] = "approving"
    /\ MayDecide(actor[t], target[t])
    /\ payStatus[PaymentOf[target[t]]] = "CONFIRMED"
    /\ Decide(t, "APPROVED")

\* Mutant of CommitRejection: the locked row is not checked again.
StaleRejection(t) ==
    /\ pc[t] = "rejecting"
    /\ Decide(t, "REJECTED")

CommitRejection(t) ==
    /\ pc[t] = "rejecting"
    /\ MayDecide(actor[t], target[t])
    /\ Decide(t, "REJECTED")

BeginCompletion(t, u, r) ==
    /\ status[r] = "APPROVED"
    /\ Open(t, "completing", r, u)

\* Mutant of GiveBack: the total is overwritten.
LastRefundOnly(p, amount) ==
    /\ refunded' = [refunded EXCEPT ![p] = amount]
    /\ payStatus' = [payStatus EXCEPT ![p] =
                       IF amount = PaymentAmount[p] THEN "REFUNDED" ELSE @]

\* payment_update: the running total, and REFUNDED once nothing is left.
GiveBack(p, amount) ==
    /\ refunded' = [refunded EXCEPT ![p] = @ + amount]
    /\ payStatus' = [payStatus EXCEPT ![p] =
                       IF refunded[p] + amount = PaymentAmount[p]
                       THEN "REFUNDED" ELSE @]

\* Mutant of CommitCompletion: the approval is taken to guarantee the ceiling.
TrustingCompletion(t) ==
    LET r == target[t]
        p == PaymentOf[r]
    IN /\ pc[t] = "completing"
       /\ status[r] = "APPROVED"
       /\ payStatus[p] = "CONFIRMED"
       /\ status' = [status EXCEPT ![r] = "COMPLETED"]
       /\ GiveBack(p, RefundAmount[r])
       /\ Close(t)
       /\ UNCHANGED <<requestedBy, decidedBy>>

CommitCompletion(t) ==
    LET r == target[t]
        p == PaymentOf[r]
    IN /\ pc[t] = "completing"
       /\ status[r] = "APPROVED"
       /\ payStatus[p] = "CONFIRMED"
       /\ refunded[p] + RefundAmount[r] <= PaymentAmount[p]
       /\ status' = [status EXCEPT ![r] = "COMPLETED"]
       /\ GiveBack(p, RefundAmount[r])
       /\ Close(t)
       /\ UNCHANGED <<requestedBy, decidedBy>>

-------------------------------------------------------------------------------
PaymentStep == \E p \in Payments :
    ConfirmPayment(p) \/ CancelPayment(p) \/ ProviderReversal(p)

BeginStep == \E t \in Transactions, u \in Actors, r \in Refunds :
    \/ BeginRequest(t, u, r)
    \/ BeginDecision(t, "approving", u, r)
    \/ BeginDecision(t, "rejecting", u, r)
    \/ BeginCompletion(t, u, r)

CommitStep == \E t \in Transactions :
    \/ TakeSnapshot(t)
    \/ CommitRequest(t)
    \/ CommitApproval(t)
    \/ CommitRejection(t)
    \/ CommitCompletion(t)
    \/ Rollback(t)

Next == PaymentStep \/ BeginStep \/ CommitStep

Spec == Init /\ [][Next]_vars

-------------------------------------------------------------------------------
(* Properties. *)

\* The total kept with the payment is the sum of its completed refunds, however
\* the completions of its requests interleave: no refund is counted twice or
\* lost (completeRefundRequest updates two tables from a joined statement).
LedgerBalances == \A p \in Payments :
    refunded[p] = Total({r \in Refunds : PaymentOf[r] = p
                                          /\ status[r] = "COMPLETED"})

\* Although requests may be admitted and approved beyond the ceiling, what is
\* given back never exceeds what was paid, and a payment that is still
\* CONFIRMED, hence open to refunds, has something left.
NeverOverRefunded == \A p \in Payments :
    /\ refunded[p] <= PaymentAmount[p]
    /\ payStatus[p] = "CONFIRMED" => refunded[p] < PaymentAmount[p]

\* Maker and checker: nothing is approved, rejected or paid out unless a second
\* person decided it, and a request nobody decided is still REQUESTED.
FourEyes == \A r \in Refunds :
    IF status[r] \in {"APPROVED", "REJECTED", "COMPLETED"}
    THEN decidedBy[r] \in Actors \ {requestedBy[r]}
    ELSE decidedBy[r] = NoActor

\* Rows as the ledger sees them.
Stage == [absent |-> "none", REQUESTED |-> "open", APPROVED |-> "approved",
          REJECTED |-> "refused", COMPLETED |-> "paid"]

Ledger == INSTANCE RefundLedger WITH
    stage <- [r \in Refunds |-> Stage[status[r]]],
    left <- [p \in Payments |-> PaymentAmount[p] - refunded[p]]

\* Concurrent transactions behave as if each decision and each payment were
\* atomic: one decision per request, payment once and only after approval,
\* whatever the services read before the rows were locked.
ImplementsLedger == Ledger!Spec

\* IMPLEMENTATION_STATUS.md: "request SQL locks the canonical payment and
\* enforces the cumulative ceiling across REQUESTED, APPROVED and COMPLETED
\* refunds".  The sum is read from a snapshot older than the lock.
CeilingRespected == \A p \in Payments :
    Total(Reserving(p)) <= PaymentAmount[p]
===============================================================================
