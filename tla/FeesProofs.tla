------------------------------ MODULE FeesProofs -------------------------------
(***************************************************************************)
(* Theorems about Fees for every set of schedules, payments, adjustments   *)
(* and sessions, and every relation of conflict between schedules.         *)
(***************************************************************************)
EXTENDS Fees, TLAPS

Raced(s, u) == <<s, u>> \in raced \/ <<u, s>> \in raced

\* A session activates or assesses with a schedule; what it assesses with is in
\* force, or was retired since.
SessionInv == \A t \in Sessions :
    /\ pc[t] # "none" => about[t] \in Schedules
    /\ pc[t] = "assessing" =>
          \/ schedule[about[t]] = "ACTIVE"
          \/ schedule[about[t]] = "RETIRED" /\ t \in outrun

\* An activation under way overlaps the others under way, and those that ended
\* since it looked.
RaceInv == \A s, u \in Schedules :
    Activating(s) /\ (Activating(u) \/ schedule[u] = "ACTIVE") /\ <<s, u>> \in Conflicting
        => Raced(s, u)

\* What was announced was confirmed.
PaymentInv == \A p \in Payments : standing[p] \in {"open", "lost"} => p \notin announced

IInv == TypeOK /\ SessionInv /\ RaceInv /\ PaymentInv /\ OneScheduleGoverns

-------------------------------------------------------------------------------

LEMMA InitIInv == Init => IInv
<1> SUFFICES ASSUME Init PROVE IInv
  OBVIOUS
<1> USE DEF Init, Life!Init
<1>1. TypeOK
  BY DEF TypeOK
<1>2. SessionInv /\ RaceInv /\ PaymentInv /\ OneScheduleGoverns
  BY DEF SessionInv, RaceInv, Activating, PaymentInv, OneScheduleGoverns
<1>3. QED
  BY <1>1, <1>2 DEF IInv

\* The three invariants read the schedules and the sessions, and nothing else.
LEMMA ChargesKept ==
    ASSUME IInv, UNCHANGED <<schedule, pc, about, raced, outrun>>
    PROVE  SessionInv' /\ RaceInv' /\ OneScheduleGoverns'
BY DEF IInv, SessionInv, RaceInv, Activating, OneScheduleGoverns, Raced

LEMMA PaymentsKept ==
    ASSUME IInv, UNCHANGED <<standing, announced>>
    PROVE  PaymentInv'
BY DEF IInv, PaymentInv

-------------------------------------------------------------------------------
(* Sessions and schedules. *)

\* A session ends and at most its own schedule moves, from DRAFT to ACTIVE.
LEMMA EndKeeps ==
    ASSUME IInv, NEW t \in Sessions, pc[t] # "none", End(t),
           UNCHANGED <<moneyVars, adjustmentVars, raced>>,
           basis' \in Schedules \cup {"none", "by hand"},
           \/ UNCHANGED schedule
           \/ /\ pc[t] = "activating"
              /\ schedule[about[t]] = "DRAFT"
              /\ schedule' = [schedule EXCEPT ![about[t]] = "ACTIVE"]
    PROVE  IInv'
<1> USE DEF moneyVars, adjustmentVars
<1>1. about[t] \in Schedules
  BY DEF IInv, SessionInv
<1>2. TypeOK'
  BY <1>1 DEF IInv, TypeOK, End
<1>3. \A v \in Sessions : pc'[v] # "none" =>
          /\ v # t /\ pc'[v] = pc[v] /\ about'[v] = about[v]
          /\ v \in outrun => v \in outrun'
  BY DEF IInv, TypeOK, End
<1>4. \A s \in Schedules :
          /\ schedule[s] \in {"ACTIVE", "RETIRED"} => schedule'[s] = schedule[s]
          /\ schedule'[s] = "ACTIVE" =>
                \/ schedule[s] = "ACTIVE"
                \/ pc[t] = "activating" /\ s = about[t]
  BY <1>1 DEF IInv, TypeOK
<1>5. SessionInv'
  <2> SUFFICES ASSUME NEW v \in Sessions, pc'[v] # "none"
               PROVE  /\ about'[v] \in Schedules
                      /\ pc'[v] = "assessing" =>
                            \/ schedule'[about'[v]] = "ACTIVE"
                            \/ schedule'[about'[v]] = "RETIRED" /\ v \in outrun'
    BY DEF SessionInv
  <2>1. PICK s \in Schedules : s = about[v]
    BY <1>3 DEF IInv, SessionInv
  <2>2. pc'[v] = pc[v] /\ about'[v] = s /\ (v \in outrun => v \in outrun')
    BY <1>3, <2>1
  <2>3. pc[v] = "assessing" =>
            schedule[s] = "ACTIVE" \/ (schedule[s] = "RETIRED" /\ v \in outrun)
    BY <2>1 DEF IInv, SessionInv
  <2>4. schedule[s] \in {"ACTIVE", "RETIRED"} => schedule'[s] = schedule[s]
    BY <1>4
  <2>5. QED
    BY <2>2, <2>3, <2>4
<1>6. RaceInv'
  <2>1. \A s \in Schedules : Activating(s)' => Activating(s)
    BY <1>3 DEF Activating
  <2>2. \A s \in Schedules : schedule'[s] = "ACTIVE" => schedule[s] = "ACTIVE" \/ Activating(s)
    BY <1>4 DEF Activating
  <2>3. QED
    BY <2>1, <2>2 DEF IInv, RaceInv, Raced
<1>7. OneScheduleGoverns'
  <2> SUFFICES ASSUME NEW s \in Schedules, NEW u \in Schedules,
                      schedule'[s] = "ACTIVE", schedule'[u] = "ACTIVE",
                      <<s, u>> \in Conflicting
               PROVE  Raced(s, u)
    BY DEF OneScheduleGoverns, Raced
  <2>1. <<u, s>> \in Conflicting /\ s # u
    BY FeesAssumption
  <2>2. CASE schedule[s] = "ACTIVE" /\ schedule[u] = "ACTIVE"
    BY <2>2 DEF IInv, OneScheduleGoverns, Raced
  <2>3. CASE schedule[s] # "ACTIVE"
    <3>1. pc[t] = "activating" /\ s = about[t] /\ schedule[u] = "ACTIVE"
      BY <1>4, <2>1, <2>3
    <3>2. QED
      BY <3>1 DEF IInv, RaceInv, Activating
  <2>4. CASE schedule[u] # "ACTIVE"
    <3>1. pc[t] = "activating" /\ u = about[t] /\ schedule[s] = "ACTIVE"
      BY <1>4, <2>1, <2>4
    <3>2. QED
      BY <2>1, <3>1 DEF IInv, RaceInv, Activating, Raced
  <2>5. QED
    BY <2>2, <2>3, <2>4
<1>8. QED
  BY <1>2, <1>5, <1>6, <1>7, PaymentsKept DEF IInv

LEMMA RollbackKeeps == ASSUME IInv, NEW t \in Sessions, Rollback(t) PROVE IInv'
BY EndKeeps DEF Rollback, IInv, TypeOK

LEMMA ActivateKeeps == ASSUME IInv, NEW t \in Sessions, ActivateFeeSchedule(t) PROVE IInv'
BY EndKeeps DEF ActivateFeeSchedule, IInv, TypeOK

LEMMA AssessKeeps == ASSUME IInv, NEW t \in Sessions, AssessFilingFee(t) PROVE IInv'
<1>1. about[t] \in Schedules
  BY DEF AssessFilingFee, IInv, SessionInv
<1>2. QED
  BY <1>1, EndKeeps DEF AssessFilingFee

LEMMA BeginActivationKeeps ==
    ASSUME IInv, NEW t \in Sessions, NEW s \in Schedules, BeginActivation(t, s)
    PROVE  IInv'
<1> USE DEF BeginActivation, Begin, moneyVars, adjustmentVars
<1>1. TypeOK'
  BY DEF IInv, TypeOK
<1>2. /\ pc'[t] = "activating" /\ about'[t] = s
      /\ \A v \in Sessions \ {t} : pc'[v] = pc[v] /\ about'[v] = about[v]
      /\ raced \subseteq raced'
  BY DEF IInv, TypeOK
<1>3. SessionInv'
  BY <1>2 DEF IInv, SessionInv
<1>4. \A u \in Schedules : Activating(u)' => Activating(u) \/ u = s
  BY <1>2 DEF Activating
<1>5. RaceInv'
  <2> SUFFICES ASSUME NEW x \in Schedules, NEW y \in Schedules, Activating(x)',
                      Activating(y)' \/ schedule[y] = "ACTIVE",
                      <<x, y>> \in Conflicting
               PROVE  Raced(x, y)'
    BY DEF RaceInv
  <2>1. <<y, x>> \in Conflicting /\ x # y
    BY FeesAssumption
  <2>2. CASE x = s /\ Activating(y)
    <3>1. <<x, y>> \in raced'
      BY <2>2
    <3>2. QED
      BY <3>1 DEF Raced
  <2>3. CASE y = s /\ Activating(x)
    <3>1. <<y, x>> \in raced'
      BY <2>1, <2>3
    <3>2. QED
      BY <3>1 DEF Raced
  <2>4. CASE Activating(x) /\ (Activating(y) \/ schedule[y] = "ACTIVE")
    BY <1>2, <2>4 DEF IInv, RaceInv, Raced
  <2>5. QED
    BY <1>4, <2>1, <2>2, <2>3, <2>4 DEF NoConflict
<1>6. OneScheduleGoverns'
  BY <1>2 DEF IInv, OneScheduleGoverns
<1>7. QED
  BY <1>1, <1>3, <1>5, <1>6, PaymentsKept DEF IInv

LEMMA BeginAssessmentKeeps ==
    ASSUME IInv, NEW t \in Sessions, NEW s \in Schedules, BeginAssessment(t, s)
    PROVE  IInv'
<1> USE DEF BeginAssessment, Begin, moneyVars, adjustmentVars
<1>1. TypeOK'
  BY DEF IInv, TypeOK
<1>2. /\ pc'[t] = "assessing" /\ about'[t] = s
      /\ \A v \in Sessions \ {t} : pc'[v] = pc[v] /\ about'[v] = about[v]
  BY DEF IInv, TypeOK
<1>3. SessionInv'
  BY <1>2 DEF IInv, SessionInv, Applies
<1>4. RaceInv'
  BY <1>2 DEF IInv, RaceInv, Activating, Raced
<1>5. OneScheduleGoverns'
  BY DEF IInv, OneScheduleGoverns
<1>6. QED
  BY <1>1, <1>3, <1>4, <1>5, PaymentsKept DEF IInv

LEMMA CreateScheduleKeeps ==
    ASSUME IInv, NEW s \in Schedules, CreateFeeSchedule(s) PROVE IInv'
<1> USE DEF CreateFeeSchedule, moneyVars, adjustmentVars
<1>1. TypeOK'
  BY DEF IInv, TypeOK
<1>2. \A u \in Schedules :
          /\ schedule[u] \in {"ACTIVE", "RETIRED"} => schedule'[u] = schedule[u]
          /\ schedule'[u] = "ACTIVE" => schedule[u] = "ACTIVE"
  BY DEF IInv, TypeOK
<1>3. SessionInv'
  BY <1>2 DEF IInv, SessionInv
<1>4. RaceInv' /\ OneScheduleGoverns'
  BY <1>2 DEF IInv, RaceInv, Activating, OneScheduleGoverns, Raced
<1>5. QED
  BY <1>1, <1>3, <1>4, PaymentsKept DEF IInv

LEMMA RetireKeeps ==
    ASSUME IInv, NEW s \in Schedules, RetireFeeSchedule(s) PROVE IInv'
<1> USE DEF RetireFeeSchedule, moneyVars, adjustmentVars
<1>1. TypeOK'
  BY DEF IInv, TypeOK
<1>2. /\ schedule'[s] = "RETIRED"
      /\ \A u \in Schedules \ {s} : schedule'[u] = schedule[u]
  BY DEF IInv, TypeOK
<1>3. SessionInv'
  BY <1>2 DEF IInv, SessionInv
<1>4. RaceInv' /\ OneScheduleGoverns'
  BY <1>2 DEF IInv, RaceInv, Activating, OneScheduleGoverns, Raced
<1>5. QED
  BY <1>1, <1>3, <1>4, PaymentsKept DEF IInv

-------------------------------------------------------------------------------
(* Payments, adjustments, and every step. *)

LEMMA PaymentStepKeeps ==
    ASSUME IInv, NEW p \in Payments, PaymentStep(p) PROVE IInv'
<1> USE DEF PaymentStep, Life!Confirm, Life!Lose, Life!GiveBack, Life!Move
<1>1. TypeOK'
  BY DEF IInv, TypeOK, adjustmentVars
<1>2. PaymentInv'
  <2>1. standing'[p] \in {"open", "lost"} => p \notin announced'
    BY DEF IInv, TypeOK, PaymentInv
  <2>2. \A q \in Payments \ {p} :
            standing'[q] = standing[q] /\ (q \in announced' <=> q \in announced)
    BY DEF IInv, TypeOK
  <2>3. QED
    BY <2>1, <2>2 DEF IInv, PaymentInv
<1>3. QED
  BY <1>1, <1>2, ChargesKept DEF IInv

LEMMA CreatePaymentKeeps ==
    ASSUME IInv, NEW p \in Payments, CreatePayment(p) PROVE IInv'
<1> USE DEF CreatePayment, adjustmentVars
<1>1. TypeOK'
  BY DEF IInv, TypeOK
<1>2. QED
  BY <1>1, ChargesKept, PaymentsKept DEF IInv

LEMMA AdjustmentKeeps ==
    ASSUME IInv, NEW a \in Adjustments,
           \/ \E p \in Payments \cup {Nothing} : RequestPaymentAdjustment(a, p)
           \/ ApprovePaymentAdjustment(a)
           \/ RejectPaymentAdjustment(a)
    PROVE  IInv'
<1> USE DEF RequestPaymentAdjustment, ApprovePaymentAdjustment,
            RejectPaymentAdjustment, moneyVars
<1>1. TypeOK'
  BY DEF IInv, TypeOK, Belongs
<1>2. QED
  BY <1>1, ChargesKept, PaymentsKept DEF IInv

LEMMA ByHandKeeps == ASSUME IInv, AssessByHand PROVE IInv'
<1> USE DEF AssessByHand, moneyVars, adjustmentVars
<1>1. TypeOK'
  BY DEF IInv, TypeOK
<1>2. QED
  BY <1>1, ChargesKept, PaymentsKept DEF IInv

LEMMA NextIInv == IInv /\ [Next]_vars => IInv'
<1> SUFFICES ASSUME IInv, [Next]_vars PROVE IInv'
  OBVIOUS
<1>1. CASE ScheduleStep
  BY <1>1, CreateScheduleKeeps, RetireKeeps DEF ScheduleStep
<1>2. CASE AssessByHand
  BY <1>2, ByHandKeeps
<1>3. CASE MoneyStep
  BY <1>3, CreatePaymentKeeps, PaymentStepKeeps DEF MoneyStep
<1>4. CASE AdjustmentStep
  BY <1>4, AdjustmentKeeps DEF AdjustmentStep
<1>5. CASE SessionStep
  BY <1>5, BeginActivationKeeps, BeginAssessmentKeeps, ActivateKeeps, AssessKeeps,
     RollbackKeeps DEF SessionStep
<1>6. CASE UNCHANGED vars
  <2>1. TypeOK'
    BY <1>6 DEF IInv, TypeOK, vars
  <2>2. QED
    BY <1>6, <2>1, ChargesKept, PaymentsKept DEF IInv, vars
<1>7. QED
  BY <1>1, <1>2, <1>3, <1>4, <1>5, <1>6 DEF Next

LEMMA Invariance == Spec => []IInv
BY InitIInv, NextIInv, PTL DEF Spec

-------------------------------------------------------------------------------
(* The theorems. *)

\* Statuses and sessions stay in their ranges, and adjustments name payments that
\* exist, for any number of schedules, payments, adjustments and sessions.
THEOREM TypeInvariant == Spec => []TypeOK
<1>1. IInv => TypeOK
  BY DEF IInv
<1>2. QED
  BY <1>1, Invariance, PTL

\* Schedules in conflict are in force together only when their activations
\* overlapped in time, whatever the relation of conflict is.
THEOREM ScheduleGoverns == Spec => []OneScheduleGoverns
<1>1. IInv => OneScheduleGoverns
  BY DEF IInv
<1>2. QED
  BY <1>1, Invariance, PTL

Charged ==
    basis' # basis =>
        /\ basis = "none"
        /\ basis' \in Schedules =>
              \/ schedule[basis'] = "ACTIVE"
              \/ /\ schedule[basis'] = "RETIRED"
                 /\ \E t \in outrun : about[t] = basis'

LEMMA StepCharges == ASSUME IInv, [Next]_vars PROVE Charged
<1>1. CASE AssessByHand
  BY <1>1, FeesAssumption DEF AssessByHand, Charged
<1>2. CASE \E t \in Sessions : AssessFilingFee(t)
  <2>1. PICK t \in Sessions : AssessFilingFee(t)
    BY <1>2
  <2>2. about[t] \in Schedules
    BY <2>1 DEF AssessFilingFee, IInv, SessionInv
  <2>3. QED
    BY <2>1, <2>2 DEF AssessFilingFee, Charged, IInv, SessionInv
<1>3. CASE UNCHANGED basis
  BY <1>3 DEF Charged
<1>4. QED
  BY <1>1, <1>2, <1>3 DEF Next, ScheduleStep, CreateFeeSchedule, RetireFeeSchedule,
     MoneyStep, CreatePayment, PaymentStep, AdjustmentStep, RequestPaymentAdjustment,
     ApprovePaymentAdjustment, RejectPaymentAdjustment, SessionStep, BeginActivation,
     BeginAssessment, ActivateFeeSchedule, Rollback, vars

\* A filing is charged once, on a schedule that was in force when it was read.
THEOREM ChargesFollowSchedules == Spec => ChargedOnSchedule
<1>1. IInv /\ [Next]_vars => [Charged]_vars
  BY StepCharges
<1>2. Spec => [][Charged]_vars
  BY <1>1, Invariance, PTL DEF Spec
<1>3. QED
  BY <1>2 DEF ChargedOnSchedule, Charged

Adjusted ==
    \A a \in Adjustments :
        adjustment[a] # "APPROVED" /\ adjustment'[a] = "APPROVED"
            => target[a] \notin announced

LEMMA StepAdjusts == ASSUME IInv, [Next]_vars PROVE Adjusted
<1>1. CASE \E a \in Adjustments : ApprovePaymentAdjustment(a)
  <2>1. PICK a \in Adjustments : ApprovePaymentAdjustment(a)
    BY <1>1
  <2>2. target[a] \notin announced
    <3>1. CASE target[a] = Nothing
      BY <3>1, FeesAssumption DEF IInv, TypeOK
    <3>2. CASE target[a] # Nothing
      BY <2>1, <3>2 DEF ApprovePaymentAdjustment, Adjustable, IInv, TypeOK, PaymentInv
    <3>3. QED
      BY <3>1, <3>2
  <2>3. \A b \in Adjustments \ {a} : adjustment'[b] = adjustment[b]
    BY <2>1 DEF ApprovePaymentAdjustment, IInv, TypeOK
  <2>4. QED
    BY <2>2, <2>3 DEF Adjusted
<1>2. CASE \E a \in Adjustments :
               \/ \E p \in Payments \cup {Nothing} : RequestPaymentAdjustment(a, p)
               \/ RejectPaymentAdjustment(a)
  BY <1>2 DEF RequestPaymentAdjustment, RejectPaymentAdjustment, Adjusted, IInv, TypeOK
<1>3. CASE UNCHANGED adjustment
  BY <1>3 DEF Adjusted
<1>4. QED
  BY <1>1, <1>2, <1>3 DEF Next, ScheduleStep, CreateFeeSchedule, RetireFeeSchedule,
     MoneyStep, CreatePayment, PaymentStep, AdjustmentStep, SessionStep, BeginActivation,
     BeginAssessment, ActivateFeeSchedule, AssessFilingFee, AssessByHand, Rollback,
     adjustmentVars, vars

\* No adjustment is approved for a payment that was ever confirmed.
THEOREM AdjustmentsComeFirst == Spec => AdjustedBeforeMoney
<1>1. IInv /\ [Next]_vars => [Adjusted]_vars
  BY StepAdjusts
<1>2. Spec => [][Adjusted]_vars
  BY <1>1, Invariance, PTL DEF Spec
<1>3. QED
  BY <1>2 DEF AdjustedBeforeMoney, Adjusted
===============================================================================
