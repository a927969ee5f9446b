----------------------------- MODULE PaymentEvents -----------------------------
(***************************************************************************)
(* Payments and their external provider: createPaymentSession binds a       *)
(* payment to the provider's reference, the webhook records authenticated   *)
(* events in the inbox finance.payment_provider_events, and process()       *)
(* applies each of them to its payment or rejects it.                       *)
(*                                                                          *)
(* A session and the processing of an event are READ COMMITTED transactions *)
(* with two steps: what they read of the payment without a lock, and their  *)
(* guarded UPDATE with everything up to the commit.  process() locks its    *)
(* event (FOR UPDATE), so no two of them have the same event in hand.       *)
(***************************************************************************)
EXTENDS Naturals, FiniteSets

CONSTANTS
    Payments, NoPayment,      \* NoPayment: an id no payment has
    References, NoReference,  \* the provider's references; NULL
    Events, NoEvent,          \* provider_event_id
    Contents, NoContent,      \* what authenticated events may say
    Processors, Sessions,     \* calls of process() and createPaymentSession() at once
    ManualConfirmation,       \* payment integration mode is not "enabled"
    MaxFailures               \* bound: transactions of process() that fail for outside reasons

EventTypes == {"PAYMENT_SUCCEEDED", "PAYMENT_FAILED", "PAYMENT_CANCELLED",
               "PAYMENT_REFUNDED", "PAYMENT_REVERSED"}
Settlements == {"PAYMENT_SUCCEEDED", "PAYMENT_REFUNDED", "PAYMENT_REVERSED"}

\* amount: how amount and currency compare with the payment's, which never
\* change.  The webhook refuses a settlement event without them.
WellFormed(c) ==
    /\ c.type \in EventTypes
    /\ c.payment \in Payments \cup {NoPayment}
    /\ c.reference \in References
    /\ c.amount \in {"same", "other", "none"}
    /\ c.type \in Settlements => c.amount # "none"

ASSUME SetsAssumption ==
    /\ NoPayment \notin Payments
    /\ NoReference \notin References
    /\ NoEvent \notin Events
    /\ NoContent \notin Contents

ASSUME ValuesAssumption ==
    /\ \A c \in Contents : WellFormed(c)
    /\ ManualConfirmation \in BOOLEAN
    /\ MaxFailures \in Nat

VARIABLES
    payStatus,      \* finance.payments.status
    reference,      \* provider_payment_reference
    manual,         \* provider_reference is set: confirmed by an officer
    refundedInFull, \* refunded_amount_minor has reached the amount
    announced,      \* payments with a payment.confirmed event in the outbox
    content,        \* the inbox: what each recorded event says
    evStatus,       \* its processing_status, "absent" before it is recorded
    asking,         \* the payment each open session transaction is about
    inHand,         \* the event each process() has locked
    seen,           \* the payment status and reference it read
    failures

payVars == <<payStatus, reference, manual, refundedInFull, announced>>
inboxVars == <<content, evStatus>>
processorVars == <<inHand, seen, failures>>
vars == <<payStatus, reference, manual, refundedInFull, announced, content, evStatus,
          asking, inHand, seen, failures>>

\* FAILED is among the statuses of the table, but no statement that sets it
\* can be executed: see StatementFails.
Statuses == {"PENDING", "CONFIRMED", "CANCELLED", "REFUNDED"}
Views == [status : Statuses \cup {"absent"}, reference : References \cup {NoReference}]
NoView == [status |-> "absent", reference |-> NoReference]

TypeOK ==
    /\ payStatus \in [Payments -> Statuses]
    /\ reference \in [Payments -> References \cup {NoReference}]
    /\ manual \subseteq Payments
    /\ refundedInFull \subseteq Payments
    /\ announced \subseteq Payments
    /\ content \in [Events -> Contents \cup {NoContent}]
    /\ evStatus \in [Events -> {"absent", "RECEIVED", "PROCESSED", "REJECTED"}]
    /\ asking \in [Sessions -> Payments \cup {NoPayment}]
    /\ inHand \in [Processors -> Events \cup {NoEvent}]
    /\ seen \in [Processors -> Views]
    /\ failures \in 0 .. MaxFailures

Init ==
    /\ payStatus = [p \in Payments |-> "PENDING"]
    /\ reference = [p \in Payments |-> NoReference]
    /\ manual = {}
    /\ refundedInFull = {}
    /\ announced = {}
    /\ content = [e \in Events |-> NoContent]
    /\ evStatus = [e \in Events |-> "absent"]
    /\ asking = [s \in Sessions |-> NoPayment]
    /\ inHand = [k \in Processors |-> NoEvent]
    /\ seen = [k \in Processors |-> NoView]
    /\ failures = 0

-------------------------------------------------------------------------------
(* createPaymentSession: the provider is asked in the middle of it.  One that *)
(* reads the payment as bound already only compares the provider's answer with *)
(* the binding, and changes nothing here.                                      *)

AskProvider(s, p) ==
    /\ asking[s] = NoPayment
    /\ payStatus[p] = "PENDING"
    /\ reference[p] = NoReference
    /\ asking' = [asking EXCEPT ![s] = p]
    /\ UNCHANGED <<payVars, inboxVars, processorVars>>

\* The unique index payments_provider_reference_uq.
Unclaimed(r) == \A p \in Payments : reference[p] # r

\* bindPaymentProviderSession: the condition on the locked row, which a trigger
\* repeats, and the index.
MayBind(p, r) ==
    /\ payStatus[p] = "PENDING"
    /\ reference[p] = NoReference
    /\ Unclaimed(r)

\* The provider answers with reference r, which is bound.
BindSession(s, r) ==
    LET p == asking[s]
    IN /\ p # NoPayment
       /\ MayBind(p, r)
       /\ reference' = [reference EXCEPT ![p] = r]
       /\ asking' = [asking EXCEPT ![s] = NoPayment]
       /\ UNCHANGED <<payStatus, manual, refundedInFull, announced, inboxVars,
                      processorVars>>

\* A conflict, no answer or an invalid one, a failed audit.
SessionEnds(s) ==
    /\ asking[s] # NoPayment
    /\ asking' = [asking EXCEPT ![s] = NoPayment]
    /\ UNCHANGED <<payVars, inboxVars, processorVars>>

-------------------------------------------------------------------------------
(* Other operations on a payment. *)

\* confirmPayment.
ConfirmByHand(p) ==
    /\ ManualConfirmation
    /\ payStatus[p] = "PENDING"
    /\ payStatus' = [payStatus EXCEPT ![p] = "CONFIRMED"]
    /\ manual' = manual \cup {p}
    /\ announced' = announced \cup {p}
    /\ UNCHANGED <<reference, refundedInFull, inboxVars, asking, processorVars>>

\* The completion that makes the refunds of a payment equal to its amount.
CompleteLastRefund(p) ==
    /\ payStatus[p] = "CONFIRMED"
    /\ payStatus' = [payStatus EXCEPT ![p] = "REFUNDED"]
    /\ refundedInFull' = refundedInFull \cup {p}
    /\ UNCHANGED <<reference, manual, announced, inboxVars, asking, processorVars>>

-------------------------------------------------------------------------------
(* The inbox. *)

\* Mutant of Ingest: a redelivery replaces what was recorded.
IngestAgain(e, c) ==
    /\ evStatus' = [evStatus EXCEPT ![e] = "RECEIVED"]
    /\ content' = [content EXCEPT ![e] = c]
    /\ UNCHANGED <<payVars, asking, processorVars>>

\* ingest() of an event not recorded yet.  A redelivery returns the recorded
\* event, whatever it says, and changes nothing.
Ingest(e, c) ==
    /\ evStatus[e] = "absent"
    /\ evStatus' = [evStatus EXCEPT ![e] = "RECEIVED"]
    /\ content' = [content EXCEPT ![e] = c]
    /\ UNCHANGED <<payVars, asking, processorVars>>

View(p) == IF p \in Payments
             THEN [status |-> payStatus[p], reference |-> reference[p]]
             ELSE NoView

\* process(e): a terminal event is a duplicate and nothing is done.
LockEvent(k, e) ==
    /\ inHand[k] = NoEvent
    /\ evStatus[e] = "RECEIVED"
    /\ \A j \in Processors : inHand[j] # e
    /\ inHand' = [inHand EXCEPT ![k] = e]
    /\ seen' = [seen EXCEPT ![k] = View(content[e].payment)]
    /\ UNCHANGED <<payVars, inboxVars, asking, failures>>

\* The status a payment must have for an event, and the one it gets.
From(type) == IF type \in {"PAYMENT_REFUNDED", "PAYMENT_REVERSED"}
                THEN "CONFIRMED" ELSE "PENDING"

\* Mutant of To: a status the table does not have.
ToOutcome(type) == IF type = "PAYMENT_CANCELLED" THEN "CANCELLED" ELSE "SUCCEEDED"

To(type) == CASE type = "PAYMENT_SUCCEEDED" -> "CONFIRMED"
              [] type = "PAYMENT_CANCELLED" -> "CANCELLED"
              [] OTHER -> "REFUNDED"

\* Mutant of Matches: whatever reference the event came under.
MatchesPayment(c, view) == c.payment \in Payments /\ c.amount # "other"

\* Identity and amount: optional where the webhook allows it to be missing.
Matches(c, view) ==
    /\ c.payment \in Payments
    /\ c.reference = view.reference
    /\ c.amount # "other"

\* The checks of the service.
Eligible(c, view) == Matches(c, view) /\ view.status = From(c.type)

\* Mutant of StillEligible: the statement trusts the status read before.
StillMatches(c) == Matches(c, View(c.payment))

\* The condition of the UPDATE, on the locked payment.
StillEligible(c) == Eligible(c, View(c.payment))

CloseEvent(k) ==
    /\ inHand' = [inHand EXCEPT ![k] = NoEvent]
    /\ seen' = [seen EXCEPT ![k] = NoView]

ApplyOutcome(k) ==
    LET e == inHand[k]
        c == content[e]
    IN /\ e # NoEvent
       /\ c.type # "PAYMENT_FAILED"
       /\ Eligible(c, seen[k])
       /\ StillEligible(c)
       /\ payStatus' = [payStatus EXCEPT ![c.payment] = To(c.type)]
       /\ announced' = IF c.type = "PAYMENT_SUCCEEDED"
                         THEN announced \cup {c.payment} ELSE announced
       /\ evStatus' = [evStatus EXCEPT ![e] = "PROCESSED"]
       /\ CloseEvent(k)
       /\ UNCHANGED <<reference, manual, refundedInFull, content, asking, failures>>

\* Mutant of RejectEvent: a conflict in the statement is not answered.
RejectRefused(k) ==
    /\ inHand[k] # NoEvent
    /\ ~ Eligible(content[inHand[k]], seen[k])
    /\ evStatus' = [evStatus EXCEPT ![inHand[k]] = "REJECTED"]
    /\ CloseEvent(k)
    /\ UNCHANGED <<payVars, content, asking, failures>>

\* Refused by the service, or by the statement.
RejectEvent(k) ==
    LET e == inHand[k]
        c == content[e]
    IN /\ e # NoEvent
       /\ \/ ~ Eligible(c, seen[k])
          \/ c.type # "PAYMENT_FAILED" /\ ~ StillEligible(c)
       /\ evStatus' = [evStatus EXCEPT ![e] = "REJECTED"]
       /\ CloseEvent(k)
       /\ UNCHANGED <<payVars, content, asking, failures>>

\* The statement for PAYMENT_FAILED is given five parameters and never uses the
\* fourth: PostgreSQL cannot determine its type and refuses it.
StatementFails(k) ==
    LET e == inHand[k]
        c == content[e]
    IN /\ e # NoEvent
       /\ c.type = "PAYMENT_FAILED"
       /\ Eligible(c, seen[k])
       /\ CloseEvent(k)
       /\ UNCHANGED <<payVars, inboxVars, asking, failures>>

\* Any other failure in process(), a crash included: the event stays RECEIVED.
ProcessingFails(k) ==
    /\ inHand[k] # NoEvent
    /\ failures < MaxFailures
    /\ failures' = failures + 1
    /\ CloseEvent(k)
    /\ UNCHANGED <<payVars, inboxVars, asking>>

Settle(k) == ApplyOutcome(k) \/ RejectEvent(k) \/ StatementFails(k)

Next ==
    \/ \E s \in Sessions : \/ \E p \in Payments : AskProvider(s, p)
                           \/ \E r \in References : BindSession(s, r)
                           \/ SessionEnds(s)
    \/ \E p \in Payments : ConfirmByHand(p) \/ CompleteLastRefund(p)
    \/ \E e \in Events : \/ \E c \in Contents : Ingest(e, c)
                         \/ \E k \in Processors : LockEvent(k, e)
    \/ \E k \in Processors : Settle(k) \/ ProcessingFails(k)

Spec == Init /\ [][Next]_vars

\* Every recorded event is handed to process() again and again until it is
\* settled, and every process() ends.
Fairness ==
    /\ \A e \in Events : SF_vars(\E k \in Processors : LockEvent(k, e))
    /\ \A k \in Processors : WF_vars(Settle(k))

FairSpec == Spec /\ Fairness

-------------------------------------------------------------------------------
(* Properties. *)

Applied(p, types) == {e \in Events : /\ evStatus[e] = "PROCESSED"
                                     /\ content[e].payment = p
                                     /\ content[e].type \in types}

\* Inbox and payment agree: a confirmation, cancellation or return of the money
\* has exactly one origin, be it one event of the provider, the officer or the
\* last refund, and a payment is announced exactly when it was confirmed.
OutcomesAccounted == \A p \in Payments :
    LET confirmed == Cardinality(Applied(p, {"PAYMENT_SUCCEEDED"}))
                     + (IF p \in manual THEN 1 ELSE 0)
        cancelled == Cardinality(Applied(p, {"PAYMENT_CANCELLED"}))
        returned == Cardinality(Applied(p, {"PAYMENT_REFUNDED", "PAYMENT_REVERSED"}))
                    + (IF p \in refundedInFull THEN 1 ELSE 0)
    IN /\ confirmed = IF payStatus[p] \in {"CONFIRMED", "REFUNDED"} THEN 1 ELSE 0
       /\ cancelled = IF payStatus[p] = "CANCELLED" THEN 1 ELSE 0
       /\ returned = IF payStatus[p] = "REFUNDED" THEN 1 ELSE 0
       /\ p \in announced <=> confirmed = 1

\* What was applied to a payment came under the reference the payment is bound
\* to now, and no two payments share one.
OutcomesBelong ==
    /\ \A e \in Events : evStatus[e] = "PROCESSED" =>
         /\ content[e].payment \in Payments
         /\ content[e].reference = reference[content[e].payment]
         /\ content[e].amount # "other"
    /\ \A p, q \in Payments :
         p # q /\ reference[p] # NoReference => reference[p] # reference[q]

\* A recorded event is settled, rejected ones included, and never again; the
\* binding of a payment is made once.
SettledOnce ==
    [][/\ \A e \in Events : evStatus[e] \in {"PROCESSED", "REJECTED"} =>
            evStatus'[e] = evStatus[e] /\ content'[e] = content[e]
       /\ \A p \in Payments : reference[p] # NoReference => reference'[p] = reference[p]]_vars

Received(e) == evStatus[e] = "RECEIVED"
Settled(e) == evStatus[e] \in {"PROCESSED", "REJECTED"}

\* Every recorded event is settled, but for failures, whose statement PostgreSQL
\* refuses each time (StatementFails).
EventuallySettled == \A e \in Events :
    (Received(e) /\ content[e].type # "PAYMENT_FAILED") ~> Settled(e)

Standing == [PENDING |-> "open", CONFIRMED |-> "confirmed", CANCELLED |-> "lost",
             REFUNDED |-> "returned"]

Lifecycle == INSTANCE PaymentLifecycle WITH
    standing <- [p \in Payments |-> Standing[payStatus[p]]]

\* Provider events, the officer and refunds together implement PaymentLifecycle.
ImplementsLifecycle == Lifecycle!Spec
===============================================================================
