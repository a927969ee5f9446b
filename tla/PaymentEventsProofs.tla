-------------------------- MODULE PaymentEventsProofs --------------------------
(***************************************************************************)
(* Proofs about PaymentEvents for every set of payments, references, events *)
(* and concurrent calls, and whatever the events say: its invariants, that  *)
(* an event is settled once, and that it implements PaymentLifecycle.       *)
(***************************************************************************)
EXTENDS PaymentEvents, FiniteSetTheorems, TLAPS

\* What is recorded is an event the webhook accepted.
Inbox == \A e \in Events : evStatus[e] # "absent" => content[e] \in Contents

\* FOR UPDATE: an event in hand is recorded, unsettled, and in one hand only.
Hands == \A k \in Processors : inHand[k] # NoEvent =>
    /\ evStatus[inHand[k]] = "RECEIVED"
    /\ \A j \in Processors : inHand[j] = inHand[k] => j = k

Succeeded(p) == Applied(p, {"PAYMENT_SUCCEEDED"})
Cancelled(p) == Applied(p, {"PAYMENT_CANCELLED"})
Returned(p) == Applied(p, {"PAYMENT_REFUNDED", "PAYMENT_REVERSED"})

\* The events in S and the other origin, of which there is one or none.
One(S, other) == (S = {} /\ other) \/ (~other /\ \E e \in Events : S = {e})
None(S, other) == S = {} /\ ~other

\* OutcomesAccounted of one payment, without Cardinality.
Accounted(p) ==
    /\ IF payStatus[p] \in {"CONFIRMED", "REFUNDED"}
         THEN One(Succeeded(p), p \in manual) ELSE None(Succeeded(p), p \in manual)
    /\ IF payStatus[p] = "CANCELLED"
         THEN One(Cancelled(p), FALSE) ELSE None(Cancelled(p), FALSE)
    /\ IF payStatus[p] = "REFUNDED"
         THEN One(Returned(p), p \in refundedInFull)
         ELSE None(Returned(p), p \in refundedInFull)
    /\ p \in announced <=> payStatus[p] \in {"CONFIRMED", "REFUNDED"}

Accounts == \A p \in Payments : Accounted(p)

\* The inductive invariant.  Accounts needs Hands, or a settled event could be
\* applied again, and OutcomesBelong needs Inbox: a recorded reference is never
\* NULL, so what was applied to a payment was applied after its binding.
IInv ==
    /\ TypeOK
    /\ Inbox
    /\ Hands
    /\ Accounts
    /\ OutcomesBelong

-------------------------------------------------------------------------------
(* What a recorded event says. *)

LEMMA RecordedContent ==
    ASSUME Inbox, NEW e \in Events, evStatus[e] # "absent"
    PROVE  /\ content[e].type \in EventTypes
           /\ content[e].payment \in Payments \cup {NoPayment}
           /\ content[e].reference \in References
BY ValuesAssumption DEF Inbox, WellFormed

\* Every event in hand can be settled.
LEMMA HeldEvent ==
    ASSUME TypeOK, Hands, NEW k \in Processors, inHand[k] # NoEvent
    PROVE  inHand[k] \in Events /\ evStatus[inHand[k]] = "RECEIVED"
BY DEF TypeOK, Hands

LEMMA NoViewIsView == NoView \in Views
BY DEF NoView, Views

LEMMA ViewIsView ==
    ASSUME TypeOK, NEW p \in Payments \cup {NoPayment}
    PROVE  View(p) \in Views
BY NoViewIsView DEF View, Views, TypeOK, Statuses

\* The applied events of a payment change only when an event becomes PROCESSED.
LEMMA AppliedStays ==
    ASSUME \A e \in Events : /\ evStatus'[e] = "PROCESSED" <=> evStatus[e] = "PROCESSED"
                             /\ evStatus[e] = "PROCESSED" => content'[e] = content[e],
           NEW p, NEW types
    PROVE  Applied(p, types)' = Applied(p, types)
BY DEF Applied

\* Then the accounts of a payment no step touches stay as they are.
LEMMA AccountsStay ==
    ASSUME Accounts,
           \A e \in Events : /\ evStatus'[e] = "PROCESSED" <=> evStatus[e] = "PROCESSED"
                             /\ evStatus[e] = "PROCESSED" => content'[e] = content[e],
           UNCHANGED payVars
    PROVE  Accounts'
<1> SUFFICES ASSUME NEW p \in Payments PROVE Accounted(p)'
  BY DEF Accounts
<1>1. /\ Succeeded(p)' = Succeeded(p)
      /\ Cancelled(p)' = Cancelled(p)
      /\ Returned(p)' = Returned(p)
  BY AppliedStays DEF Succeeded, Cancelled, Returned
<1> QED
  BY <1>1 DEF Accounts, Accounted, One, None, payVars

LEMMA InitIInv == Init => IInv
<1> SUFFICES ASSUME Init PROVE IInv
  OBVIOUS
<1>1. TypeOK
  BY ValuesAssumption, NoViewIsView DEF Init, TypeOK, Statuses
<1>2. Inbox /\ Hands /\ OutcomesBelong
  BY DEF Init, Inbox, Hands, OutcomesBelong
<1>3. Accounts
  <2>1. \A p, types : Applied(p, types) = {}
    BY DEF Init, Applied
  <2> QED
    BY <2>1 DEF Init, Accounts, Accounted, Succeeded, Cancelled, Returned, One, None
<1> QED
  BY <1>1, <1>2, <1>3 DEF IInv

-------------------------------------------------------------------------------
(* Every action keeps the inductive invariant. *)

LEMMA AskProviderKeeps ==
    ASSUME IInv, NEW s \in Sessions, NEW p \in Payments, AskProvider(s, p)
    PROVE  IInv'
<1> USE DEF AskProvider, inboxVars, processorVars
<1>1. TypeOK'
  BY DEF IInv, TypeOK, payVars
<1>2. Inbox' /\ Hands' /\ OutcomesBelong'
  BY DEF IInv, Inbox, Hands, OutcomesBelong, payVars
<1>3. Accounts'
  BY AccountsStay DEF IInv
<1> QED
  BY <1>1, <1>2, <1>3 DEF IInv

LEMMA SessionEndsKeeps ==
    ASSUME IInv, NEW s \in Sessions, SessionEnds(s)
    PROVE  IInv'
<1> USE DEF SessionEnds, inboxVars, processorVars
<1>1. TypeOK'
  BY DEF IInv, TypeOK, payVars
<1>2. Inbox' /\ Hands' /\ OutcomesBelong'
  BY DEF IInv, Inbox, Hands, OutcomesBelong, payVars
<1>3. Accounts'
  BY AccountsStay DEF IInv
<1> QED
  BY <1>1, <1>2, <1>3 DEF IInv

\* Nothing was applied to the payment that gets bound: it would have been under
\* a reference it did not have.
LEMMA BindSessionKeeps ==
    ASSUME IInv, NEW s \in Sessions, NEW r \in References, BindSession(s, r)
    PROVE  IInv'
<1> USE DEF BindSession, MayBind, Unclaimed, inboxVars, processorVars
<1>1. PICK p \in Payments : p = asking[s]
  BY DEF IInv, TypeOK
<1>2. /\ reference[p] = NoReference
      /\ \A q \in Payments : reference[q] # r
      /\ reference' = [reference EXCEPT ![p] = r]
  BY <1>1
<1>3. TypeOK'
  BY <1>1, <1>2 DEF IInv, TypeOK
<1>4. Inbox' /\ Hands'
  BY DEF IInv, Inbox, Hands
<1>5. Accounts'
  BY AppliedStays DEF IInv, Accounts, Accounted, Succeeded, Cancelled, Returned, One, None
<1>6. OutcomesBelong'
  <2>1. ASSUME NEW e \in Events, evStatus'[e] = "PROCESSED"
        PROVE  /\ content'[e].payment \in Payments
               /\ content'[e].reference = reference'[content'[e].payment]
               /\ content'[e].amount # "other"
    <3>1. evStatus[e] = "PROCESSED" /\ content' = content
      BY <2>1
    <3>2. /\ content[e].payment \in Payments
          /\ content[e].reference = reference[content[e].payment]
          /\ content[e].amount # "other"
      BY <3>1 DEF IInv, OutcomesBelong
    <3>3. content[e].payment # p
      BY <1>2, <3>1, <3>2, RecordedContent, SetsAssumption DEF IInv
    <3> QED
      BY <1>2, <3>1, <3>2, <3>3 DEF IInv, TypeOK
  <2>2. ASSUME NEW p1 \in Payments, NEW p2 \in Payments,
               p1 # p2, reference'[p1] # NoReference
        PROVE  reference'[p1] # reference'[p2]
    BY <1>2, <2>2 DEF IInv, OutcomesBelong, TypeOK
  <2> QED
    BY <2>1, <2>2 DEF OutcomesBelong
<1> QED
  BY <1>3, <1>4, <1>5, <1>6 DEF IInv

LEMMA ConfirmByHandKeeps ==
    ASSUME IInv, NEW p \in Payments, ConfirmByHand(p)
    PROVE  IInv'
<1> USE DEF ConfirmByHand, inboxVars, processorVars
<1>1. TypeOK'
  BY DEF IInv, TypeOK, Statuses
<1>2. Inbox' /\ Hands' /\ OutcomesBelong'
  BY DEF IInv, Inbox, Hands, OutcomesBelong
<1>3. Accounts'
  <2> SUFFICES ASSUME NEW q \in Payments PROVE Accounted(q)'
    BY DEF Accounts
  <2>1. /\ Succeeded(q)' = Succeeded(q)
        /\ Cancelled(q)' = Cancelled(q)
        /\ Returned(q)' = Returned(q)
    BY AppliedStays DEF Succeeded, Cancelled, Returned
  <2> QED
    BY <2>1 DEF IInv, TypeOK, Accounts, Accounted, One, None
<1> QED
  BY <1>1, <1>2, <1>3 DEF IInv

LEMMA CompleteLastRefundKeeps ==
    ASSUME IInv, NEW p \in Payments, CompleteLastRefund(p)
    PROVE  IInv'
<1> USE DEF CompleteLastRefund, inboxVars, processorVars
<1>1. TypeOK'
  BY DEF IInv, TypeOK, Statuses
<1>2. Inbox' /\ Hands' /\ OutcomesBelong'
  BY DEF IInv, Inbox, Hands, OutcomesBelong
<1>3. Accounts'
  <2> SUFFICES ASSUME NEW q \in Payments PROVE Accounted(q)'
    BY DEF Accounts
  <2>1. /\ Succeeded(q)' = Succeeded(q)
        /\ Cancelled(q)' = Cancelled(q)
        /\ Returned(q)' = Returned(q)
    BY AppliedStays DEF Succeeded, Cancelled, Returned
  <2> QED
    BY <2>1 DEF IInv, TypeOK, Accounts, Accounted, One, None
<1> QED
  BY <1>1, <1>2, <1>3 DEF IInv

LEMMA IngestKeeps ==
    ASSUME IInv, NEW e \in Events, NEW c \in Contents, Ingest(e, c)
    PROVE  IInv'
<1> USE DEF Ingest, processorVars
<1>1. TypeOK'
  BY DEF IInv, TypeOK, payVars
<1>2. Inbox'
  BY DEF IInv, TypeOK, Inbox
<1>3. Hands'
  BY DEF IInv, TypeOK, Hands
<1>4. Accounts'
  BY AccountsStay DEF IInv, TypeOK
<1>5. OutcomesBelong'
  BY DEF IInv, TypeOK, OutcomesBelong, payVars
<1> QED
  BY <1>1, <1>2, <1>3, <1>4, <1>5 DEF IInv

LEMMA LockEventKeeps ==
    ASSUME IInv, NEW k \in Processors, NEW e \in Events, LockEvent(k, e)
    PROVE  IInv'
<1> USE DEF LockEvent, inboxVars
<1>1. TypeOK'
  <2>1. View(content[e].payment) \in Views
    BY RecordedContent, ViewIsView DEF IInv
  <2> QED
    BY <2>1 DEF IInv, TypeOK, payVars
<1>2. Inbox' /\ OutcomesBelong'
  BY DEF IInv, Inbox, OutcomesBelong, payVars
<1>3. Hands'
  BY DEF IInv, TypeOK, Hands
<1>4. Accounts'
  BY AccountsStay DEF IInv
<1> QED
  BY <1>1, <1>2, <1>3, <1>4 DEF IInv

\* Letting go of an event, settled or not, leaves the others in their hands.
LEMMA CloseKeeps ==
    ASSUME IInv, NEW k \in Processors, inHand[k] # NoEvent, CloseEvent(k),
           \A e \in Events : e # inHand[k] => evStatus'[e] = evStatus[e]
    PROVE  /\ Hands'
           /\ inHand' \in [Processors -> Events \cup {NoEvent}]
           /\ seen' \in [Processors -> Views]
<1>1. inHand' \in [Processors -> Events \cup {NoEvent}] /\ seen' \in [Processors -> Views]
  BY NoViewIsView DEF IInv, TypeOK, CloseEvent
<1>2. Hands'
  BY DEF IInv, TypeOK, Hands, CloseEvent
<1> QED
  BY <1>1, <1>2

LEMMA RejectEventKeeps ==
    ASSUME IInv, NEW k \in Processors, RejectEvent(k)
    PROVE  IInv'
<1> USE DEF RejectEvent
<1>1. PICK e \in Events : e = inHand[k] /\ evStatus[e] = "RECEIVED"
  BY HeldEvent DEF IInv
<1>2. evStatus' = [evStatus EXCEPT ![e] = "REJECTED"] /\ content' = content
  BY <1>1
<1>3. Hands' /\ inHand' \in [Processors -> Events \cup {NoEvent}] /\ seen' \in [Processors -> Views]
  BY <1>1, <1>2, CloseKeeps DEF IInv, TypeOK
<1>4. TypeOK'
  BY <1>2, <1>3 DEF IInv, TypeOK, payVars
<1>5. Inbox' /\ OutcomesBelong'
  BY <1>1, <1>2 DEF IInv, TypeOK, Inbox, OutcomesBelong, payVars
<1>6. Accounts'
  BY <1>1, <1>2, AccountsStay DEF IInv, TypeOK
<1> QED
  BY <1>3, <1>4, <1>5, <1>6 DEF IInv

LEMMA StatementFailsKeeps ==
    ASSUME IInv, NEW k \in Processors, StatementFails(k)
    PROVE  IInv'
<1> USE DEF StatementFails, inboxVars
<1>1. Hands' /\ inHand' \in [Processors -> Events \cup {NoEvent}] /\ seen' \in [Processors -> Views]
  BY CloseKeeps
<1>2. TypeOK'
  BY <1>1 DEF IInv, TypeOK, payVars
<1>3. Inbox' /\ OutcomesBelong'
  BY DEF IInv, Inbox, OutcomesBelong, payVars
<1>4. Accounts'
  BY AccountsStay DEF IInv
<1> QED
  BY <1>1, <1>2, <1>3, <1>4 DEF IInv

LEMMA ProcessingFailsKeeps ==
    ASSUME IInv, NEW k \in Processors, ProcessingFails(k)
    PROVE  IInv'
<1> USE DEF ProcessingFails, inboxVars
<1>1. Hands' /\ inHand' \in [Processors -> Events \cup {NoEvent}] /\ seen' \in [Processors -> Views]
  BY CloseKeeps
<1>2. TypeOK'
  BY <1>1, ValuesAssumption DEF IInv, TypeOK, payVars
<1>3. Inbox' /\ OutcomesBelong'
  BY DEF IInv, Inbox, OutcomesBelong, payVars
<1>4. Accounts'
  BY AccountsStay DEF IInv
<1> QED
  BY <1>1, <1>2, <1>3, <1>4 DEF IInv

\* What ApplyOutcome does, said of the event e and the payment p in question.
LEMMA OutcomeOf ==
    ASSUME IInv, NEW k \in Processors, ApplyOutcome(k)
    PROVE  \E e \in Events, p \in Payments :
             /\ inHand[k] = e /\ evStatus[e] = "RECEIVED" /\ content[e].payment = p
             /\ content[e].type \in EventTypes \ {"PAYMENT_FAILED"}
             /\ content[e].reference = reference[p] /\ content[e].amount # "other"
             /\ payStatus[p] = From(content[e].type)
             /\ payStatus' = [payStatus EXCEPT ![p] = To(content[e].type)]
             /\ announced' = IF content[e].type = "PAYMENT_SUCCEEDED"
                               THEN announced \cup {p} ELSE announced
             /\ evStatus' = [evStatus EXCEPT ![e] = "PROCESSED"]
             /\ UNCHANGED <<reference, manual, refundedInFull, content, asking, failures>>
             /\ CloseEvent(k)
<1>1. PICK e \in Events : e = inHand[k] /\ evStatus[e] = "RECEIVED"
  BY HeldEvent DEF IInv, ApplyOutcome
<1>2. PICK p \in Payments : p = content[e].payment
  BY <1>1 DEF ApplyOutcome, StillEligible, Eligible, Matches
<1>3. content[e].type \in EventTypes \ {"PAYMENT_FAILED"}
  BY <1>1, RecordedContent DEF IInv, ApplyOutcome
<1>4. View(p) = [status |-> payStatus[p], reference |-> reference[p]]
  BY DEF View
<1>5. /\ content[e].reference = reference[p] /\ content[e].amount # "other"
      /\ payStatus[p] = From(content[e].type)
  BY <1>1, <1>2, <1>4 DEF ApplyOutcome, StillEligible, Eligible, Matches
<1>6. /\ payStatus' = [payStatus EXCEPT ![p] = To(content[e].type)]
      /\ announced' = IF content[e].type = "PAYMENT_SUCCEEDED"
                        THEN announced \cup {p} ELSE announced
      /\ evStatus' = [evStatus EXCEPT ![e] = "PROCESSED"]
      /\ UNCHANGED <<reference, manual, refundedInFull, content, asking, failures>>
      /\ CloseEvent(k)
  BY <1>1, <1>2 DEF ApplyOutcome
<1> QED
  BY <1>1, <1>2, <1>3, <1>5, <1>6

LEMMA ApplyOutcomeKeeps ==
    ASSUME IInv, NEW k \in Processors, ApplyOutcome(k)
    PROVE  IInv'
<1>1. PICK e \in Events, p \in Payments :
        /\ inHand[k] = e /\ evStatus[e] = "RECEIVED" /\ content[e].payment = p
        /\ content[e].type \in EventTypes \ {"PAYMENT_FAILED"}
        /\ content[e].reference = reference[p] /\ content[e].amount # "other"
        /\ payStatus[p] = From(content[e].type)
        /\ payStatus' = [payStatus EXCEPT ![p] = To(content[e].type)]
        /\ announced' = IF content[e].type = "PAYMENT_SUCCEEDED"
                          THEN announced \cup {p} ELSE announced
        /\ evStatus' = [evStatus EXCEPT ![e] = "PROCESSED"]
        /\ UNCHANGED <<reference, manual, refundedInFull, content, asking, failures>>
        /\ CloseEvent(k)
  BY OutcomeOf
<1>2. inHand[k] # NoEvent
  BY <1>1, SetsAssumption
<1>3. Hands' /\ inHand' \in [Processors -> Events \cup {NoEvent}] /\ seen' \in [Processors -> Views]
  BY <1>1, <1>2, CloseKeeps DEF IInv, TypeOK
<1>4. To(content[e].type) \in Statuses
  BY <1>1 DEF To, Statuses, EventTypes
<1>5. TypeOK'
  BY <1>1, <1>3, <1>4 DEF IInv, TypeOK
<1>6. Inbox' /\ OutcomesBelong'
  BY <1>1 DEF IInv, TypeOK, Inbox, OutcomesBelong
<1>7. Accounts'
  <2> SUFFICES ASSUME NEW q \in Payments PROVE Accounted(q)'
    BY DEF Accounts
  \* The event joins one account of one payment.
  <2>1. \A types : Applied(q, types)' =
          IF p = q /\ content[e].type \in types THEN Applied(q, types) \cup {e} ELSE Applied(q, types)
    BY <1>1 DEF IInv, TypeOK, Applied
  <2>2. Accounted(q)
    BY DEF IInv, Accounts
  <2>3. CASE p # q
    <3>1. /\ Succeeded(q)' = Succeeded(q)
          /\ Cancelled(q)' = Cancelled(q)
          /\ Returned(q)' = Returned(q)
      BY <2>1, <2>3 DEF Succeeded, Cancelled, Returned
    <3>2. payStatus'[q] = payStatus[q] /\ (q \in announced' <=> q \in announced)
      BY <1>1, <2>3 DEF IInv, TypeOK
    <3> QED
      BY <1>1, <2>2, <3>1, <3>2 DEF Accounted, One, None
  <2>4. CASE p = q /\ content[e].type = "PAYMENT_SUCCEEDED"
    <3>1. /\ Succeeded(q)' = Succeeded(q) \cup {e}
          /\ Cancelled(q)' = Cancelled(q)
          /\ Returned(q)' = Returned(q)
      BY <2>1, <2>4 DEF Succeeded, Cancelled, Returned
    <3>2. payStatus[q] = "PENDING" /\ payStatus'[q] = "CONFIRMED" /\ q \in announced'
      BY <1>1, <2>4 DEF From, To, IInv, TypeOK
    <3> QED
      BY <1>1, <2>2, <3>1, <3>2 DEF Accounted, One, None
  <2>5. CASE p = q /\ content[e].type = "PAYMENT_CANCELLED"
    <3>1. /\ Succeeded(q)' = Succeeded(q)
          /\ Cancelled(q)' = Cancelled(q) \cup {e}
          /\ Returned(q)' = Returned(q)
      BY <2>1, <2>5 DEF Succeeded, Cancelled, Returned
    <3>2. payStatus[q] = "PENDING" /\ payStatus'[q] = "CANCELLED" /\ announced' = announced
      BY <1>1, <2>5 DEF From, To, IInv, TypeOK
    <3> QED
      BY <1>1, <2>2, <3>1, <3>2 DEF Accounted, One, None
  <2>6. CASE p = q /\ content[e].type \in {"PAYMENT_REFUNDED", "PAYMENT_REVERSED"}
    <3>1. /\ Succeeded(q)' = Succeeded(q)
          /\ Cancelled(q)' = Cancelled(q)
          /\ Returned(q)' = Returned(q) \cup {e}
      BY <2>1, <2>6 DEF Succeeded, Cancelled, Returned
    <3>2. payStatus[q] = "CONFIRMED" /\ payStatus'[q] = "REFUNDED" /\ announced' = announced
      BY <1>1, <2>6 DEF From, To, IInv, TypeOK
    <3> QED
      BY <1>1, <2>2, <3>1, <3>2 DEF Accounted, One, None
  <2> QED
    BY <1>1, <2>3, <2>4, <2>5, <2>6 DEF EventTypes
<1> QED
  BY <1>3, <1>5, <1>6, <1>7 DEF IInv

LEMMA StutterKeeps ==
    ASSUME IInv, UNCHANGED vars
    PROVE  IInv'
<1> USE DEF vars
<1>1. TypeOK'
  BY DEF IInv, TypeOK
<1>2. Inbox' /\ Hands' /\ OutcomesBelong'
  BY DEF IInv, Inbox, Hands, OutcomesBelong
<1>3. Accounts'
  BY AccountsStay DEF IInv, payVars
<1> QED
  BY <1>1, <1>2, <1>3 DEF IInv

LEMMA StepKeeps == IInv /\ [Next]_vars => IInv'
<1> SUFFICES ASSUME IInv, [Next]_vars PROVE IInv'
  OBVIOUS
<1>1. ASSUME NEW s \in Sessions,
             \/ \E p \in Payments : AskProvider(s, p)
             \/ \E r \in References : BindSession(s, r)
             \/ SessionEnds(s)
      PROVE  IInv'
  BY <1>1, AskProviderKeeps, BindSessionKeeps, SessionEndsKeeps
<1>2. ASSUME NEW p \in Payments, ConfirmByHand(p) \/ CompleteLastRefund(p) PROVE IInv'
  BY <1>2, ConfirmByHandKeeps, CompleteLastRefundKeeps
<1>3. ASSUME NEW e \in Events,
             \/ \E c \in Contents : Ingest(e, c)
             \/ \E k \in Processors : LockEvent(k, e)
      PROVE  IInv'
  BY <1>3, IngestKeeps, LockEventKeeps
<1>4. ASSUME NEW k \in Processors, Settle(k) \/ ProcessingFails(k) PROVE IInv'
  BY <1>4, ApplyOutcomeKeeps, RejectEventKeeps, StatementFailsKeeps, ProcessingFailsKeeps
     DEF Settle
<1> QED
  BY <1>1, <1>2, <1>3, <1>4, StutterKeeps DEF Next

\* The inductive invariant holds in every reachable state.
THEOREM Invariance == Spec => []IInv
<1>1. Init => IInv
  BY InitIInv
<1>2. IInv /\ [Next]_vars => IInv'
  BY StepKeeps
<1> QED
  BY <1>1, <1>2, PTL DEF Spec

\* Every variable keeps its type.
THEOREM TypeCorrectness == Spec => []TypeOK
<1>1. IInv => TypeOK
  BY DEF IInv
<1> QED
  BY <1>1, Invariance, PTL

\* What was applied to a payment came under its own reference, with its amount.
THEOREM OutcomesBelongToPayments == Spec => []OutcomesBelong
<1>1. IInv => OutcomesBelong
  BY DEF IInv
<1> QED
  BY <1>1, Invariance, PTL

LEMMA CountOne ==
    ASSUME NEW S, NEW p, NEW M, One(S, p \in M)
    PROVE  Cardinality(S) + (IF p \in M THEN 1 ELSE 0) = 1
<1>1. CASE p \in M
  <2>1. S = {}
    BY <1>1 DEF One
  <2>2. Cardinality(S) = 0
    BY <2>1, FS_EmptySet
  <2> QED
    BY <1>1, <2>2
<1>2. CASE p \notin M
  <2>1. PICK e \in Events : S = {e}
    BY <1>2 DEF One
  <2>2. Cardinality(S) = 1
    BY <2>1, FS_Singleton
  <2> QED
    BY <1>2, <2>2
<1> QED
  BY <1>1, <1>2

LEMMA CountNone ==
    ASSUME NEW S, NEW p, NEW M, None(S, p \in M)
    PROVE  Cardinality(S) + (IF p \in M THEN 1 ELSE 0) = 0
<1>1. S = {} /\ p \notin M
  BY DEF None
<1>2. Cardinality(S) = 0
  BY <1>1, FS_EmptySet
<1> QED
  BY <1>1, <1>2

\* The cardinalities of OutcomesAccounted are those of Accounts.
LEMMA AccountsCount == Accounts => OutcomesAccounted
<1> SUFFICES ASSUME Accounts, NEW p \in Payments
             PROVE  LET confirmed == Cardinality(Succeeded(p)) + (IF p \in manual THEN 1 ELSE 0)
                        cancelled == Cardinality(Cancelled(p))
                        returned == Cardinality(Returned(p))
                                    + (IF p \in refundedInFull THEN 1 ELSE 0)
                    IN /\ confirmed = IF payStatus[p] \in {"CONFIRMED", "REFUNDED"} THEN 1 ELSE 0
                       /\ cancelled = IF payStatus[p] = "CANCELLED" THEN 1 ELSE 0
                       /\ returned = IF payStatus[p] = "REFUNDED" THEN 1 ELSE 0
                       /\ p \in announced <=> confirmed = 1
  BY DEF OutcomesAccounted, Succeeded, Cancelled, Returned
<1> DEFINE confirmed == Cardinality(Succeeded(p)) + (IF p \in manual THEN 1 ELSE 0)
<1>1. Accounted(p)
  BY DEF Accounts
<1>2. confirmed = IF payStatus[p] \in {"CONFIRMED", "REFUNDED"} THEN 1 ELSE 0
  <2>1. CASE payStatus[p] \in {"CONFIRMED", "REFUNDED"}
    <3>1. One(Succeeded(p), p \in manual)
      BY <1>1, <2>1 DEF Accounted
    <3>2. confirmed = 1
      BY <3>1, CountOne
    <3> QED
      BY <2>1, <3>2
  <2>2. CASE payStatus[p] \notin {"CONFIRMED", "REFUNDED"}
    <3>1. None(Succeeded(p), p \in manual)
      BY <1>1, <2>2 DEF Accounted
    <3>2. confirmed = 0
      BY <3>1, CountNone
    <3> QED
      BY <2>2, <3>2
  <2> QED
    BY <2>1, <2>2
<1>3. Cardinality(Cancelled(p)) = IF payStatus[p] = "CANCELLED" THEN 1 ELSE 0
  <2>1. One(Cancelled(p), FALSE) => \E e : Cancelled(p) = {e}
    BY DEF One
  <2>2. None(Cancelled(p), FALSE) => Cancelled(p) = {}
    BY DEF None
  <2> QED
    BY <1>1, <2>1, <2>2, FS_EmptySet, FS_Singleton DEF Accounted
<1>4. Cardinality(Returned(p)) + (IF p \in refundedInFull THEN 1 ELSE 0)
        = IF payStatus[p] = "REFUNDED" THEN 1 ELSE 0
  <2>1. CASE payStatus[p] = "REFUNDED"
    <3>1. One(Returned(p), p \in refundedInFull)
      BY <1>1, <2>1 DEF Accounted
    <3>2. Cardinality(Returned(p)) + (IF p \in refundedInFull THEN 1 ELSE 0) = 1
      BY <3>1, CountOne
    <3> QED
      BY <2>1, <3>2
  <2>2. CASE payStatus[p] # "REFUNDED"
    <3>1. None(Returned(p), p \in refundedInFull)
      BY <1>1, <2>2 DEF Accounted
    <3>2. Cardinality(Returned(p)) + (IF p \in refundedInFull THEN 1 ELSE 0) = 0
      BY <3>1, CountNone
    <3> QED
      BY <2>2, <3>2
  <2> QED
    BY <2>1, <2>2
<1>5. p \in announced <=> confirmed = 1
  BY <1>1, <1>2 DEF Accounted
<1> QED
  BY <1>2, <1>3, <1>4, <1>5

\* Inbox and payments agree: every confirmation, cancellation and return of the
\* money has exactly one origin, whichever events race.
THEOREM OutcomesAreAccounted == Spec => []OutcomesAccounted
<1>1. IInv => OutcomesAccounted
  BY AccountsCount DEF IInv
<1> QED
  BY <1>1, Invariance, PTL

-------------------------------------------------------------------------------

\* Only unsettled events are settled, and only unbound payments are bound.
LEMMA StepSettlesOnce ==
    ASSUME IInv, Next
    PROVE  /\ \A e \in Events : evStatus[e] \in {"PROCESSED", "REJECTED"} =>
                evStatus'[e] = evStatus[e] /\ content'[e] = content[e]
           /\ \A p \in Payments : reference[p] # NoReference => reference'[p] = reference[p]
<1> USE DEF inboxVars, payVars, processorVars, IInv, TypeOK
<1>1. ASSUME NEW s \in Sessions, NEW r \in References, BindSession(s, r)
      PROVE  \A p \in Payments : reference[p] # NoReference => reference'[p] = reference[p]
  BY <1>1 DEF BindSession, MayBind
<1>2. ASSUME NEW e \in Events, NEW c \in Contents, Ingest(e, c)
      PROVE  \A d \in Events : evStatus[d] \in {"PROCESSED", "REJECTED"} =>
               evStatus'[d] = evStatus[d] /\ content'[d] = content[d]
  BY <1>2 DEF Ingest
<1>3. ASSUME NEW k \in Processors, ApplyOutcome(k) \/ RejectEvent(k)
      PROVE  \A d \in Events : evStatus[d] \in {"PROCESSED", "REJECTED"} =>
               evStatus'[d] = evStatus[d] /\ content'[d] = content[d]
  <2>1. PICK e \in Events : e = inHand[k] /\ evStatus[e] = "RECEIVED"
    BY <1>3, HeldEvent DEF ApplyOutcome, RejectEvent
  <2> QED
    BY <1>3, <2>1 DEF ApplyOutcome, RejectEvent
<1> QED
  BY <1>1, <1>2, <1>3
     DEF Next, Settle, AskProvider, BindSession, SessionEnds, ConfirmByHand,
         CompleteLastRefund, Ingest, LockEvent, ApplyOutcome, RejectEvent,
         StatementFails, ProcessingFails

\* No redelivery, retry or late commit reopens a settled event, and no session
\* moves a payment to another reference.
THEOREM EventsSettleOnce == Spec => SettledOnce
<1> DEFINE Once ==
      /\ \A e \in Events : evStatus[e] \in {"PROCESSED", "REJECTED"} =>
           evStatus'[e] = evStatus[e] /\ content'[e] = content[e]
      /\ \A p \in Payments : reference[p] # NoReference => reference'[p] = reference[p]
<1>1. IInv /\ [Next]_vars => [Once]_vars
  BY StepSettlesOnce
<1> QED
  BY <1>1, Invariance, PTL DEF Spec, SettledOnce

-------------------------------------------------------------------------------
(* Refinement: the standing of a payment follows from its status. *)

G == [p \in Payments |-> Standing[payStatus[p]]]

LEMMA StandingOf ==
    /\ Standing["PENDING"] = "open"   /\ Standing["CONFIRMED"] = "confirmed"
    /\ Standing["CANCELLED"] = "lost" /\ Standing["REFUNDED"] = "returned"
BY DEF Standing

LEMMA InitRefines == Init => Lifecycle!Init
BY StandingOf DEF Init, Lifecycle!Init, G

\* A step that changes no status moves no standing.
LEMMA StandingStays ==
    ASSUME payStatus' = payStatus
    PROVE  G' = G
BY DEF G

LEMMA OutcomeRefines ==
    ASSUME IInv, NEW k \in Processors, ApplyOutcome(k)
    PROVE  Lifecycle!Next
<1>1. PICK e \in Events, p \in Payments :
        /\ content[e].type \in EventTypes \ {"PAYMENT_FAILED"}
        /\ payStatus[p] = From(content[e].type)
        /\ payStatus' = [payStatus EXCEPT ![p] = To(content[e].type)]
        /\ announced' = IF content[e].type = "PAYMENT_SUCCEEDED"
                          THEN announced \cup {p} ELSE announced
  BY OutcomeOf
<1>2. CASE content[e].type = "PAYMENT_SUCCEEDED"
  <2>1. G' = [G EXCEPT ![p] = "confirmed"] /\ G[p] = "open"
    BY <1>1, <1>2, StandingOf DEF From, To, IInv, TypeOK, G
  <2>2. Lifecycle!Confirm(p)
    BY <1>1, <1>2, <2>1 DEF G, Lifecycle!Confirm, Lifecycle!Move
  <2> QED
    BY <2>2 DEF Lifecycle!Next
<1>3. CASE content[e].type = "PAYMENT_CANCELLED"
  <2>1. G' = [G EXCEPT ![p] = "lost"] /\ G[p] = "open"
    BY <1>1, <1>3, StandingOf DEF From, To, IInv, TypeOK, G
  <2>2. Lifecycle!Lose(p)
    BY <1>1, <1>3, <2>1 DEF G, Lifecycle!Lose, Lifecycle!Move
  <2> QED
    BY <2>2 DEF Lifecycle!Next
<1>4. CASE content[e].type \in {"PAYMENT_REFUNDED", "PAYMENT_REVERSED"}
  <2>1. G' = [G EXCEPT ![p] = "returned"] /\ G[p] = "confirmed"
    BY <1>1, <1>4, StandingOf DEF From, To, IInv, TypeOK, G
  <2>2. Lifecycle!GiveBack(p)
    BY <1>1, <1>4, <2>1 DEF G, Lifecycle!GiveBack, Lifecycle!Move
  <2> QED
    BY <2>2 DEF Lifecycle!Next
<1> QED
  BY <1>1, <1>2, <1>3, <1>4 DEF EventTypes

LEMMA OfficerRefines ==
    ASSUME IInv, NEW p \in Payments, ConfirmByHand(p) \/ CompleteLastRefund(p)
    PROVE  Lifecycle!Next
<1>1. CASE ConfirmByHand(p)
  <2>1. G' = [G EXCEPT ![p] = "confirmed"] /\ G[p] = "open"
    BY <1>1, StandingOf DEF ConfirmByHand, IInv, TypeOK, G
  <2>2. Lifecycle!Confirm(p)
    BY <1>1, <2>1 DEF ConfirmByHand, G, Lifecycle!Confirm, Lifecycle!Move
  <2> QED
    BY <2>2 DEF Lifecycle!Next
<1>2. CASE CompleteLastRefund(p)
  <2>1. G' = [G EXCEPT ![p] = "returned"] /\ G[p] = "confirmed"
    BY <1>2, StandingOf DEF CompleteLastRefund, IInv, TypeOK, G
  <2>2. Lifecycle!GiveBack(p)
    BY <1>2, <2>1 DEF CompleteLastRefund, G, Lifecycle!GiveBack, Lifecycle!Move
  <2> QED
    BY <2>2 DEF Lifecycle!Next
<1> QED
  BY <1>1, <1>2

\* Provider, officer and refunds together implement PaymentLifecycle: settled
\* once, announced when confirmed, given back once and only then.
THEOREM EventsImplementLifecycle == Spec => ImplementsLifecycle
<1>1. Init => Lifecycle!Init
  BY InitRefines
<1>2. IInv /\ [Next]_vars => [Lifecycle!Next]_Lifecycle!vars
  <2> SUFFICES ASSUME IInv, [Next]_vars PROVE [Lifecycle!Next]_Lifecycle!vars
    OBVIOUS
  <2>1. CASE \E k \in Processors : ApplyOutcome(k)
    BY <2>1, OutcomeRefines
  <2>2. CASE \E p \in Payments : ConfirmByHand(p) \/ CompleteLastRefund(p)
    BY <2>2, OfficerRefines
  <2>3. CASE /\ ~ \E k \in Processors : ApplyOutcome(k)
             /\ ~ \E p \in Payments : ConfirmByHand(p) \/ CompleteLastRefund(p)
    <3>1. payStatus' = payStatus /\ announced' = announced
      BY <2>3 DEF Next, Settle, AskProvider, BindSession, SessionEnds, Ingest, LockEvent,
                  RejectEvent, StatementFails, ProcessingFails, payVars, vars
    <3> QED
      BY <3>1, StandingStays DEF G, Lifecycle!vars
  <2> QED
    BY <2>1, <2>2, <2>3
<1> QED
  BY <1>1, <1>2, Invariance, PTL DEF Spec, ImplementsLifecycle, Lifecycle!Spec
===============================================================================
