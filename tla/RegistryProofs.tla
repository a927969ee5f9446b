---------------------------- MODULE RegistryProofs -----------------------------
(***************************************************************************)
(* Theorems about Registry for every set of filings, payments, keys and    *)
(* sessions.                                                               *)
(***************************************************************************)
EXTENDS Registry, TLAPS

Using(t) == pc[t] \in {"receipting", "reconciling", "opening", "unopened", "numbered"}

\* Payments are made for accepted filings, and a payment that was ever confirmed
\* has been announced.
PaymentInv ==
    /\ \A p \in created : status[PaidFor[p]] = "ACCEPTED"
    /\ \A p \in Payments : standing[p] = "confirmed" => p \in announced

\* What a session works on is what it read, but for a payment that was given back.
SessionInv == \A t \in Sessions :
    /\ pc[t] = "submitting" => about[t] \in Filings /\ with[t] \in Keys
    /\ Using(t) => /\ with[t] \in created /\ with[t] \in announced
                   /\ about[t] = PaidFor[with[t]]
                   /\ standing[with[t]] = "confirmed" \/ t \in overtaken

\* At most one session holds the row of the sequence, and so the next number.
SequenceInv ==
    /\ \A t \in Sessions : pc[t] = "numbered" => number[t] = lastValue + 1
    /\ \A s, t \in Sessions : pc[s] = "numbered" /\ pc[t] = "numbered" => s = t

IInv == /\ TypeOK
        /\ SubmittedOnce
        /\ PaymentInv
        /\ SessionInv
        /\ SequenceInv
        /\ OpenedOnce

-------------------------------------------------------------------------------

LEMMA InitIInv == Init => IInv
<1> SUFFICES ASSUME Init PROVE IInv
  OBVIOUS
<1> USE DEF Init, Life!Init
<1>1. TypeOK
  BY RegistryAssumption DEF TypeOK, Doing
<1>2. SubmittedOnce /\ PaymentInv /\ SessionInv /\ SequenceInv
  BY DEF SubmittedOnce, EffectsOf, PaymentInv, SessionInv, SequenceInv, Using
<1>3. OpenedOnce
  <2>1. {caseNo[f] : f \in Filings} \ {0} = {} /\ 1..lastValue = {}
    OBVIOUS
  <2>2. QED
    BY <2>1 DEF OpenedOnce
<1>4. QED
  BY <1>1, <1>2, <1>3 DEF IInv

\* Filings stay submitted as they were when nothing of the intake changes.
LEMMA SubmittedKept ==
    ASSUME SubmittedOnce, UNCHANGED intakeVars
    PROVE  SubmittedOnce'
BY DEF SubmittedOnce, EffectsOf, intakeVars

\* Cases stay as they are when filings stay accepted and payments announced.
LEMMA OpenedKept ==
    ASSUME OpenedOnce, UNCHANGED caseVars, announced \subseteq announced',
           \A f \in Filings : status[f] = "ACCEPTED" => status'[f] = "ACCEPTED"
    PROVE  OpenedOnce'
BY DEF OpenedOnce, caseVars

\* A session that begins, knowing what is asked of it.
LEMMA BeginKeeps ==
    ASSUME IInv, NEW t \in Sessions,
           NEW doing \in Doing \ {"none", "unopened", "numbered"},
           NEW f \in Filings, NEW x \in Keys \cup Payments,
           Begin(t, doing, f, x),
           doing = "submitting" => x \in Keys,
           doing # "submitting" => /\ x \in created /\ f = PaidFor[x]
                                   /\ standing[x] = "confirmed",
           UNCHANGED <<intakeVars, moneyVars, caseVars>>
    PROVE  IInv'
<1> USE DEF Begin, intakeVars, moneyVars, caseVars
<1>1. TypeOK'
  BY DEF IInv, TypeOK, Doing
<1>2. SubmittedOnce' /\ OpenedOnce'
  BY SubmittedKept, OpenedKept DEF IInv
<1>3. PaymentInv'
  BY DEF IInv, PaymentInv
<1>4. SessionInv' /\ SequenceInv'
  BY DEF IInv, TypeOK, PaymentInv, SessionInv, SequenceInv, Using, Doing
<1>5. QED
  BY <1>1, <1>2, <1>3, <1>4 DEF IInv

\* The other sessions when one ends.
LEMMA EndKeeps ==
    ASSUME IInv, NEW t \in Sessions, End(t),
           UNCHANGED <<created, standing, announced>>,
           UNCHANGED lastValue \/ pc[t] = "numbered"
    PROVE  /\ SessionInv' /\ SequenceInv'
           /\ pc' \in [Sessions -> Doing]
           /\ about' \in [Sessions -> Filings \cup {Nothing}]
           /\ with' \in [Sessions -> Keys \cup Payments \cup {Nothing}]
           /\ number' \in [Sessions -> Nat]
           /\ overtaken' \subseteq Sessions
<1>1. /\ pc' \in [Sessions -> Doing]
      /\ about' \in [Sessions -> Filings \cup {Nothing}]
      /\ with' \in [Sessions -> Keys \cup Payments \cup {Nothing}]
      /\ number' \in [Sessions -> Nat]
      /\ overtaken' \subseteq Sessions
  BY DEF End, IInv, TypeOK, Doing
<1>2. \A s \in Sessions : pc'[s] # "none" =>
          /\ s # t /\ pc'[s] = pc[s] /\ about'[s] = about[s] /\ with'[s] = with[s]
          /\ number'[s] = number[s] /\ (s \in overtaken' <=> s \in overtaken)
  BY DEF End, IInv, TypeOK
<1>3. SessionInv' /\ SequenceInv'
  BY <1>2 DEF IInv, SessionInv, SequenceInv, Using
<1>4. QED
  BY <1>1, <1>3

-------------------------------------------------------------------------------
(* Intake and review. *)

\* A step of the intake that accepts filings without un-accepting any.
LEMMA IntakeKeeps ==
    ASSUME IInv, IntakeStep, TypeOK', SubmittedOnce',
           \A f \in Filings : status[f] = "ACCEPTED" => status'[f] = "ACCEPTED"
    PROVE  IInv'
<1> USE DEF IntakeStep, moneyVars, sessionVars
<1>1. OpenedOnce'
  BY OpenedKept DEF IInv
<1>2. PaymentInv'
  BY RegistryAssumption DEF IInv, TypeOK, PaymentInv
<1>3. SessionInv' /\ SequenceInv'
  BY DEF IInv, SessionInv, SequenceInv, Using, caseVars
<1>4. QED
  BY <1>1, <1>2, <1>3 DEF IInv

LEMMA DraftKeeps == ASSUME IInv, NEW f \in Filings, CreateFilingDraft(f) PROVE IInv'
<1> USE DEF CreateFilingDraft
<1>1. TypeOK'
  BY DEF IInv, TypeOK, IntakeStep, moneyVars, caseVars, sessionVars
<1>2. SubmittedOnce'
  <2>1. EffectsOf(f)
    BY DEF IInv, SubmittedOnce
  <2>2. EffectsOf(f)'
    BY <2>1 DEF IInv, TypeOK, EffectsOf
  <2>3. ASSUME NEW g \in Filings, g # f PROVE EffectsOf(g)'
    <3>1. EffectsOf(g)
      BY DEF IInv, SubmittedOnce
    <3>2. QED
      BY <2>3, <3>1 DEF IInv, TypeOK, EffectsOf
  <2>4. QED
    BY <2>2, <2>3 DEF SubmittedOnce
<1>3. \A g \in Filings : status[g] = "ACCEPTED" => status'[g] = "ACCEPTED"
  BY DEF IInv, TypeOK
<1>4. QED
  BY <1>1, <1>2, <1>3, IntakeKeeps

LEMMA ReplayKeeps ==
    ASSUME IInv, NEW f \in Filings, NEW k \in Keys, ReplaySubmission(f, k) PROVE IInv'
<1> USE DEF ReplaySubmission
<1>1. submitEvents' = submitEvents
  BY DEF IInv, SubmittedOnce, EffectsOf, Enqueue
<1>2. TypeOK'
  BY <1>1 DEF IInv, TypeOK, IntakeStep, moneyVars, caseVars, sessionVars
<1>3. SubmittedOnce'
  BY <1>1 DEF IInv, SubmittedOnce, EffectsOf
<1>4. QED
  BY <1>2, <1>3, IntakeKeeps

LEMMA ValidateKeeps == ASSUME IInv, NEW f \in Filings, ValidateFiling(f) PROVE IInv'
<1> USE DEF ValidateFiling
<1>1. TypeOK'
  BY DEF IInv, TypeOK, IntakeStep, moneyVars, caseVars, sessionVars
<1>2. SubmittedOnce'
  <2>1. EffectsOf(f)
    BY DEF IInv, SubmittedOnce
  <2>2. EffectsOf(f)'
    BY <2>1 DEF IInv, TypeOK, EffectsOf
  <2>3. ASSUME NEW g \in Filings, g # f PROVE EffectsOf(g)'
    <3>1. EffectsOf(g)
      BY DEF IInv, SubmittedOnce
    <3>2. QED
      BY <2>3, <3>1 DEF IInv, TypeOK, EffectsOf
  <2>4. QED
    BY <2>2, <2>3 DEF SubmittedOnce
<1>3. \A g \in Filings : status[g] = "ACCEPTED" => status'[g] = "ACCEPTED"
  BY DEF IInv, TypeOK
<1>4. QED
  BY <1>1, <1>2, <1>3, IntakeKeeps

LEMMA DecisionKeeps ==
    ASSUME IInv, NEW f \in Filings,
           ReturnFiling(f) \/ RejectFiling(f) \/ AcceptFiling(f)
    PROVE  IInv'
<1> USE DEF ReturnFiling, RejectFiling, AcceptFiling, TransitionFiling
<1>1. IntakeStep /\ UNCHANGED <<openTask, doneTasks, replies, submitEvents>>
  OBVIOUS
<1>2. TypeOK'
  BY <1>1 DEF IInv, TypeOK, IntakeStep, moneyVars, caseVars, sessionVars
<1>3. SubmittedOnce'
  <2>1. EffectsOf(f)
    BY DEF IInv, SubmittedOnce
  <2>2. EffectsOf(f)'
    BY <2>1 DEF IInv, TypeOK, EffectsOf
  <2>3. ASSUME NEW g \in Filings, g # f PROVE EffectsOf(g)'
    <3>1. EffectsOf(g)
      BY DEF IInv, SubmittedOnce
    <3>2. QED
      BY <2>3, <3>1 DEF IInv, TypeOK, EffectsOf
  <2>4. QED
    BY <2>2, <2>3 DEF SubmittedOnce
<1>4. \A g \in Filings : status[g] = "ACCEPTED" => status'[g] = "ACCEPTED"
  BY DEF IInv, TypeOK
<1>5. QED
  BY <1>1, <1>2, <1>3, <1>4, IntakeKeeps

LEMMA SubmitKeeps == ASSUME IInv, NEW t \in Sessions, SubmitFiling(t) PROVE IInv'
<1> USE DEF SubmitFiling, MaySubmit
<1>1. PICK f \in Filings, k \in Keys :
        /\ status[f] = "DRAFT" /\ f \notin openTask
        /\ status' = [status EXCEPT ![f] = "SUBMITTED"]
        /\ openTask' = openTask \cup {f}
        /\ replies' = replies \cup {<<f, k>>}
        /\ submitEvents' = [submitEvents EXCEPT ![f] = 1]
        /\ UNCHANGED <<doneTasks, moneyVars, caseVars>>
  BY DEF IInv, SessionInv, SubmittedOnce, EffectsOf, Enqueue
<1>3. SessionInv' /\ SequenceInv' /\ TypeOK'
  BY <1>1, EndKeeps DEF IInv, TypeOK, moneyVars, caseVars
<1>4. SubmittedOnce'
  <2>1. EffectsOf(f)
    BY DEF IInv, SubmittedOnce
  <2>2. EffectsOf(f)'
    BY <1>1, <2>1 DEF IInv, TypeOK, EffectsOf
  <2>3. ASSUME NEW g \in Filings, g # f PROVE EffectsOf(g)'
    <3>1. EffectsOf(g)
      BY DEF IInv, SubmittedOnce
    <3>2. QED
      BY <1>1, <2>3, <3>1 DEF IInv, TypeOK, EffectsOf
  <2>4. QED
    BY <2>2, <2>3 DEF SubmittedOnce
<1>5. PaymentInv' /\ OpenedOnce'
  <2>1. \A g \in Filings : status[g] = "ACCEPTED" => status'[g] = "ACCEPTED"
    BY <1>1 DEF IInv, TypeOK
  <2>2. QED
    BY <1>1, <2>1, OpenedKept, RegistryAssumption DEF IInv, TypeOK, PaymentInv, moneyVars
<1>6. QED
  BY <1>3, <1>4, <1>5 DEF IInv

LEMMA ReviewStepKeeps == ASSUME IInv, ReviewStep PROVE IInv'
BY DraftKeeps, ReplayKeeps, ValidateKeeps, DecisionKeeps DEF ReviewStep

-------------------------------------------------------------------------------
(* Payments. *)

LEMMA CreatePaymentKeeps ==
    ASSUME IInv, NEW p \in Payments, CreatePayment(p) PROVE IInv'
<1> USE DEF CreatePayment, intakeVars, caseVars, sessionVars
<1>1. TypeOK'
  BY DEF IInv, TypeOK, Doing
<1>2. SubmittedOnce' /\ OpenedOnce'
  BY SubmittedKept, OpenedKept DEF IInv
<1>3. PaymentInv' /\ SessionInv' /\ SequenceInv'
  BY DEF IInv, PaymentInv, SessionInv, SequenceInv, Using
<1>4. QED
  BY <1>1, <1>2, <1>3 DEF IInv

\* PaymentLifecycle, seen from the sessions that have read the payment.
LEMMA PaymentStepKeeps ==
    ASSUME IInv, NEW p \in Payments, PaymentStep(p) PROVE IInv'
<1> USE DEF PaymentStep, Life!Confirm, Life!Lose, Life!GiveBack, Life!Move
<1>1. /\ UNCHANGED <<intakeVars, created, receipts, recon, caseVars, sessionVars>>
      /\ announced \subseteq announced' /\ announced' \subseteq Payments
      /\ standing' \in [Payments -> {"open", "confirmed", "lost", "returned"}]
      /\ overtaken \subseteq overtaken' /\ overtaken' \subseteq Sessions
  BY DEF IInv, TypeOK
<1>2. TypeOK'
  BY <1>1 DEF IInv, TypeOK, Doing, intakeVars, caseVars, sessionVars
<1>3. SubmittedOnce' /\ OpenedOnce'
  BY <1>1, SubmittedKept, OpenedKept DEF IInv, intakeVars
<1>4. PaymentInv' /\ SequenceInv'
  BY <1>1 DEF IInv, TypeOK, PaymentInv, SequenceInv, intakeVars, caseVars, sessionVars
<1>5. SessionInv'
  <2>1. ASSUME NEW t \in Sessions, Using(t), standing[with[t]] = "confirmed"
        PROVE  standing'[with[t]] = "confirmed" \/ t \in overtaken'
    BY <2>1 DEF IInv, TypeOK, SessionInv, Using, UsingPayment
  <2>2. QED
    BY <1>1, <2>1 DEF IInv, SessionInv, Using, sessionVars
<1>6. QED
  BY <1>2, <1>3, <1>4, <1>5 DEF IInv

LEMMA ReconciledKeeps ==
    ASSUME IInv, NEW p \in Payments,
           CertifyReconciliation(p) \/ RejectReconciliation(p)
    PROVE  IInv'
<1> USE DEF CertifyReconciliation, RejectReconciliation, DecideReconciliation,
            intakeVars, caseVars, sessionVars
<1>1. TypeOK'
  BY DEF IInv, TypeOK, Doing
<1>2. SubmittedOnce' /\ OpenedOnce'
  BY SubmittedKept, OpenedKept DEF IInv
<1>3. PaymentInv' /\ SessionInv' /\ SequenceInv'
  BY DEF IInv, PaymentInv, SessionInv, SequenceInv, Using
<1>4. QED
  BY <1>1, <1>2, <1>3 DEF IInv

LEMMA MoneyStepKeeps == ASSUME IInv, MoneyStep PROVE IInv'
BY CreatePaymentKeeps, PaymentStepKeeps, ReconciledKeeps DEF MoneyStep

-------------------------------------------------------------------------------
(* Sessions. *)

LEMMA BeginningKeeps ==
    ASSUME IInv, NEW t \in Sessions,
           \/ \E f \in Filings, k \in Keys : BeginSubmit(t, f, k)
           \/ \E p \in Payments : BeginReceipt(t, p) \/ BeginReconciliation(t, p)
           \/ \E f \in Filings, p \in Payments : BeginOpening(t, f, p)
    PROVE  IInv'
<1>1. ASSUME NEW f \in Filings, NEW k \in Keys, BeginSubmit(t, f, k) PROVE IInv'
  BY <1>1, BeginKeeps DEF BeginSubmit, Doing
<1>2. ASSUME NEW p \in Payments, BeginReceipt(t, p) \/ BeginReconciliation(t, p)
      PROVE  IInv'
  <2>1. PaidFor[p] \in Filings
    BY RegistryAssumption
  <2>2. QED
    BY <1>2, <2>1, BeginKeeps DEF BeginReceipt, BeginReconciliation, HasMoney, Doing
<1>3. ASSUME NEW f \in Filings, NEW p \in Payments, BeginOpening(t, f, p) PROVE IInv'
  BY <1>3, BeginKeeps DEF BeginOpening, HasMoney, Doing
<1>4. QED
  BY <1>1, <1>2, <1>3

\* A receipt or a reconciliation is inserted.
LEMMA EvidenceKeeps ==
    ASSUME IInv, NEW t \in Sessions, IssueReceipt(t) \/ CreateReconciliation(t)
    PROVE  IInv'
<1> USE DEF IssueReceipt, CreateReconciliation, intakeVars, caseVars
<1>1. /\ with[t] \in Payments /\ with[t] \in created
      /\ End(t) /\ UNCHANGED <<intakeVars, created, standing, announced, caseVars>>
  BY DEF IInv, TypeOK, SessionInv, Using
<1>2. SessionInv' /\ SequenceInv' /\ TypeOK'
  BY <1>1, EndKeeps DEF IInv, TypeOK
<1>3. SubmittedOnce' /\ OpenedOnce' /\ PaymentInv'
  BY <1>1, SubmittedKept, OpenedKept DEF IInv, PaymentInv
<1>4. QED
  BY <1>2, <1>3 DEF IInv

\* A session ends without a trace, or with an event that was there already.
LEMMA EndingKeeps ==
    ASSUME IInv, NEW t \in Sessions, Rollback(t) \/ ReturnExisting(t)
    PROVE  IInv'
<1> USE DEF Rollback, ReturnExisting, intakeVars, moneyVars, caseVars
<1>1. End(t) /\ UNCHANGED <<intakeVars, moneyVars, caseVars>>
  <2>1. CASE ReturnExisting(t)
    <3>1. about[t] \in Filings
      BY <2>1, RegistryAssumption DEF IInv, TypeOK, SessionInv, Using
    <3>2. QED
      BY <2>1, <3>1 DEF IInv, TypeOK, OpenedOnce, Enqueue
  <2>2. QED
    BY <2>1
<1>2. SessionInv' /\ SequenceInv' /\ TypeOK'
  BY <1>1, EndKeeps DEF IInv, TypeOK
<1>3. SubmittedOnce' /\ OpenedOnce' /\ PaymentInv'
  BY <1>1, SubmittedKept, OpenedKept DEF IInv, PaymentInv
<1>4. QED
  BY <1>2, <1>3 DEF IInv

LEMMA NumberingKeeps ==
    ASSUME IInv, NEW t \in Sessions, MissCase(t) \/ TakeNumber(t)
    PROVE  IInv'
<1> USE DEF MissCase, TakeNumber, Step, SequenceFree, intakeVars, moneyVars, caseVars
<1>1. TypeOK'
  BY DEF IInv, TypeOK, Doing
<1>2. SubmittedOnce' /\ OpenedOnce' /\ PaymentInv'
  BY SubmittedKept, OpenedKept DEF IInv, PaymentInv
<1>3. SessionInv' /\ SequenceInv'
  BY DEF IInv, TypeOK, SessionInv, SequenceInv, Using
<1>4. QED
  BY <1>1, <1>2, <1>3 DEF IInv

\* The number is the one after the last, and the filing had no case.
LEMMA OpenCaseKeeps == ASSUME IInv, NEW t \in Sessions, OpenCase(t) PROVE IInv'
<1> USE DEF OpenCase, intakeVars, moneyVars
<1>1. PICK f \in Filings, p \in Payments :
        /\ f = about[t] /\ p = with[t] /\ caseNo[f] = 0
        /\ p \in announced /\ p \in created /\ PaidFor[p] = f
        /\ status[f] = "ACCEPTED"
        /\ caseNo' = [caseNo EXCEPT ![f] = lastValue + 1]
        /\ paidBy' = [paidBy EXCEPT ![f] = p]
        /\ lastValue' = lastValue + 1
        /\ caseEvents' = [caseEvents EXCEPT ![f] = 1]
        /\ UNCHANGED <<intakeVars, moneyVars>>
  <2>1. with[t] \in Payments /\ PaidFor[with[t]] \in Filings
    BY RegistryAssumption DEF IInv, TypeOK, SessionInv, Using
  <2>2. number[t] = lastValue + 1
    BY DEF IInv, SequenceInv
  <2>3. QED
    BY <2>1, <2>2 DEF IInv, SessionInv, PaymentInv, OpenedOnce, Enqueue, Using
<1>2. SessionInv' /\ SequenceInv' /\ TypeOK'
  BY <1>1, EndKeeps DEF IInv, TypeOK
<1>3. SubmittedOnce' /\ PaymentInv'
  BY <1>1, SubmittedKept DEF IInv, PaymentInv
<1>4. OpenedOnce'
  <2>1. /\ {caseNo[g] : g \in Filings} \ {0} = 1..lastValue
        /\ caseNo \in [Filings -> Nat] /\ lastValue \in Nat
    BY DEF IInv, TypeOK, OpenedOnce
  <2>2. ASSUME NEW g \in Filings, g # f PROVE caseNo'[g] = caseNo[g] /\ caseNo[g] # lastValue + 1
    BY <1>1, <2>1, <2>2
  <2>3. {caseNo'[g] : g \in Filings} \ {0} = 1..lastValue'
    <3>1. {caseNo'[g] : g \in Filings} \ {0}
             = ({caseNo[g] : g \in Filings} \ {0}) \cup {lastValue + 1}
      BY <1>1, <2>1, <2>2
    <3>2. QED
      BY <1>1, <2>1, <3>1
  <2>4. \A g, h \in Filings : caseNo'[g] = caseNo'[h] => g = h \/ caseNo'[g] = 0
    BY <1>1, <2>1, <2>2 DEF IInv, OpenedOnce
  <2>5. QED
    BY <1>1, <2>3, <2>4 DEF IInv, TypeOK, OpenedOnce
<1>5. QED
  BY <1>2, <1>3, <1>4 DEF IInv

LEMMA SessionStepKeeps == ASSUME IInv, SessionStep PROVE IInv'
BY SubmitKeeps, BeginningKeeps, EvidenceKeeps, EndingKeeps, NumberingKeeps,
   OpenCaseKeeps DEF SessionStep

LEMMA Stutter == ASSUME IInv, UNCHANGED vars PROVE IInv'
<1> USE DEF vars, intakeVars, caseVars
<1>1. SubmittedOnce' /\ OpenedOnce'
  BY SubmittedKept, OpenedKept DEF IInv
<1>2. QED
  BY <1>1 DEF IInv, TypeOK, PaymentInv, SessionInv, SequenceInv, Using

\* The inductive invariant.
THEOREM Invariance == Spec => []IInv
<1>1. ASSUME IInv, [Next]_vars PROVE IInv'
  BY <1>1, ReviewStepKeeps, MoneyStepKeeps, SessionStepKeeps, Stutter DEF Next
<1>2. QED
  BY InitIInv, <1>1, PTL DEF Spec

-------------------------------------------------------------------------------

\* Statuses, events, numbers and sessions stay in their ranges.
THEOREM TypeInvariant == Spec => []TypeOK
<1>1. IInv => TypeOK
  BY DEF IInv
<1>2. QED
  BY <1>1, Invariance, PTL

\* submitFiling() and validateFiling(): retries and concurrent submissions leave
\* one task, one reply and one event, and validation completes that task.
THEOREM SubmissionsAreExact == Spec => []SubmittedOnce
<1>1. IInv => SubmittedOnce
  BY DEF IInv
<1>2. QED
  BY <1>1, Invariance, PTL

\* openCase(): consecutive numbers, one case for a filing, announced once and on
\* a payment that was confirmed.
THEOREM OpeningsAreExact == Spec => []OpenedOnce
<1>1. IInv => OpenedOnce
  BY DEF IInv
<1>2. QED
  BY <1>1, Invariance, PTL

Founded ==
    \A p \in Payments :
        \/ p \in receipts' \ receipts
        \/ recon[p] = "absent" /\ recon'[p] # "absent"
        \/ \E f \in Filings : paidBy'[f] = p /\ paidBy[f] # p
        => standing[p] = "confirmed" \/ \E t \in overtaken : with[t] = p

LEMMA RecordsAreFounded == ASSUME IInv, [Next]_vars PROVE Founded
<1> USE DEF intakeVars, moneyVars, caseVars, sessionVars
<1>1. ASSUME NEW t \in Sessions, IssueReceipt(t) \/ CreateReconciliation(t) \/ OpenCase(t)
      PROVE  Founded
  <2>1. /\ Using(t)
        /\ \A p \in Payments : p \in receipts' \ receipts => p = with[t]
        /\ \A p \in Payments : recon[p] = "absent" /\ recon'[p] # "absent" => p = with[t]
        /\ \A p \in Payments, f \in Filings : paidBy'[f] = p /\ paidBy[f] # p => p = with[t]
    BY <1>1 DEF IInv, TypeOK, IssueReceipt, CreateReconciliation, OpenCase, Using
  <2>2. QED
    BY <2>1 DEF IInv, SessionInv, Founded
<1>2. CASE UNCHANGED <<receipts, recon, paidBy>>
  BY <1>2 DEF Founded
<1>3. ASSUME NEW p \in Payments, CertifyReconciliation(p) \/ RejectReconciliation(p)
      PROVE  Founded
  BY <1>3 DEF IInv, TypeOK, CertifyReconciliation, RejectReconciliation,
     DecideReconciliation, Founded
<1>4. CASE ReviewStep
  BY <1>2, <1>4 DEF ReviewStep, CreateFilingDraft, ReplaySubmission, ValidateFiling,
     ReturnFiling, RejectFiling, AcceptFiling, TransitionFiling, IntakeStep
<1>5. CASE MoneyStep
  BY <1>2, <1>3, <1>5 DEF MoneyStep, CreatePayment, PaymentStep
<1>6. CASE SessionStep
  BY <1>1, <1>2, <1>6 DEF SessionStep, BeginSubmit, SubmitFiling, BeginReceipt,
     BeginReconciliation, BeginOpening, ReturnExisting, MissCase, TakeNumber, Rollback
<1>7. QED
  BY <1>2, <1>4, <1>5, <1>6 DEF Next, vars

\* issueReceipt(), createReconciliation() and openCase() read the payment without
\* a lock: what they record rests on money, or on money that was taken back since.
THEOREM RecordsFollowMoney == Spec => MoneyWasThere
<1>1. ASSUME IInv, [Next]_vars PROVE [Founded]_vars
  BY <1>1, RecordsAreFounded
<1>2. QED
  BY <1>1, Invariance, PTL DEF Spec, MoneyWasThere, Founded
===============================================================================
