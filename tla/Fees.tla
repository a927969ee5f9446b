--------------------------------- MODULE Fees ----------------------------------
(***************************************************************************)
(* What a filing is charged: the fee schedules of FinanceCompletionService *)
(* with their activation and retirement, the assessment of one accepted    *)
(* filing from a schedule or by hand, and the adjustments of that          *)
(* assessment, which wait for a second person while its payments move on.  *)
(*                                                                         *)
(* Activating and assessing decide on rows they do not lock and are two    *)
(* steps of a session.                                                     *)
(***************************************************************************)
CONSTANTS
    Schedules,
    Conflicting,  \* pairs of schedules of one fee whose courts and periods meet
    Current,      \* schedules of the filing's court and case type in their period
    Payments,     \* that may be made on the assessment
    Adjustments,
    Nothing,
    Sessions      \* the transactions that may be open at a time

ASSUME FeesAssumption ==
    /\ \A s, u \in Schedules : <<s, u>> \in Conflicting => <<u, s>> \in Conflicting
    /\ \A s \in Schedules : <<s, s>> \notin Conflicting
    /\ Nothing \notin Schedules
    /\ Schedules \cap {"none", "by hand"} = {}
    /\ Nothing \notin Payments

VARIABLES
    schedule,     \* [Schedules -> "absent" or fee_schedules.status]
    basis,        \* "none", or what the assessment was made from
    created,      \* rows of finance.payments
    standing, announced,  \* see PaymentLifecycle
    adjustment,   \* [Adjustments -> "absent" or payment_adjustments.status]
    target,       \* payment_adjustments.payment_id
    pc, about,    \* what each session is doing, and with which schedule
    \* History, read by no step of the code:
    raced,        \* pairs in conflict whose activations overlapped in time
    outrun        \* sessions whose schedule was retired after they read it

moneyVars == <<created, standing, announced>>
adjustmentVars == <<adjustment, target>>
vars == <<schedule, basis, created, standing, announced, adjustment, target,
          pc, about, raced, outrun>>

Life == INSTANCE PaymentLifecycle

TypeOK ==
    /\ schedule \in [Schedules -> {"absent", "DRAFT", "ACTIVE", "RETIRED"}]
    /\ basis \in Schedules \cup {"none", "by hand"}
    /\ created \subseteq Payments
    /\ standing \in [Payments -> {"open", "confirmed", "lost", "returned"}]
    /\ announced \subseteq Payments
    /\ adjustment \in [Adjustments -> {"absent", "REQUESTED", "APPROVED", "REJECTED"}]
    /\ target \in [Adjustments -> created \cup {Nothing}]
    /\ pc \in [Sessions -> {"none", "activating", "assessing"}]
    /\ about \in [Sessions -> Schedules \cup {Nothing}]
    /\ raced \subseteq Conflicting
    /\ outrun \subseteq Sessions

Init ==
    /\ schedule = [s \in Schedules |-> "absent"]
    /\ basis = "none"
    /\ created = {} /\ Life!Init
    /\ adjustment = [a \in Adjustments |-> "absent"]
    /\ target = [a \in Adjustments |-> Nothing]
    /\ pc = [t \in Sessions |-> "none"]
    /\ about = [t \in Sessions |-> Nothing]
    /\ raced = {} /\ outrun = {}

-------------------------------------------------------------------------------
(* Sessions. *)

Begin(t, doing, s) ==
    /\ pc[t] = "none"
    /\ pc' = [pc EXCEPT ![t] = doing]
    /\ about' = [about EXCEPT ![t] = s]

End(t) ==
    /\ pc' = [pc EXCEPT ![t] = "none"]
    /\ about' = [about EXCEPT ![t] = Nothing]
    /\ outrun' = outrun \ {t}

\* The audit append failed, the draft was activated by another session, or the
\* filing has an assessment.
Rollback(t) ==
    /\ pc[t] # "none"
    /\ End(t)
    /\ UNCHANGED <<schedule, basis, moneyVars, adjustmentVars, raced>>

-------------------------------------------------------------------------------
(* Fee schedules. *)

CreateFeeSchedule(s) ==
    /\ schedule[s] = "absent"
    /\ schedule' = [schedule EXCEPT ![s] = "DRAFT"]
    /\ UNCHANGED <<basis, moneyVars, adjustmentVars, pc, about, raced, outrun>>

Activating(s) == \E t \in Sessions : pc[t] = "activating" /\ about[t] = s

\* Mutant of NoConflict: the drafts are looked at, and not what is in force.
NoOtherDraft(s) ==
    \A other \in Schedules : schedule[other] = "DRAFT" => <<s, other>> \notin Conflicting

\* NOT EXISTS over the ACTIVE schedules of the statement's snapshot.
NoConflict(s) ==
    \A other \in Schedules : schedule[other] = "ACTIVE" => <<s, other>> \notin Conflicting

\* The statement looks at its snapshot, and locks its own draft and no other row.
BeginActivation(t, s) ==
    /\ schedule[s] = "DRAFT"
    /\ NoConflict(s)
    /\ Begin(t, "activating", s)
    /\ raced' = raced \cup {pair \in Conflicting : pair[1] = s /\ Activating(pair[2])}
    /\ UNCHANGED <<schedule, basis, moneyVars, adjustmentVars, outrun>>

\* The draft is looked at again when its lock was waited for.
ActivateFeeSchedule(t) ==
    /\ pc[t] = "activating"
    /\ schedule[about[t]] = "DRAFT"
    /\ schedule' = [schedule EXCEPT ![about[t]] = "ACTIVE"]
    /\ End(t)
    /\ UNCHANGED <<basis, moneyVars, adjustmentVars, raced>>

RetireFeeSchedule(s) ==
    /\ schedule[s] = "ACTIVE"
    /\ schedule' = [schedule EXCEPT ![s] = "RETIRED"]
    /\ outrun' = outrun \cup {t \in Sessions : pc[t] = "assessing" /\ about[t] = s}
    /\ UNCHANGED <<basis, moneyVars, adjustmentVars, pc, about, raced>>

-------------------------------------------------------------------------------
(* The assessment of the filing. *)

\* Mutant of Applies: any schedule that was not retired.
NotRetired(s) == schedule[s] \in {"DRAFT", "ACTIVE"} /\ s \in Current

Applies(s) == schedule[s] = "ACTIVE" /\ s \in Current

\* The schedule is read without a lock.
BeginAssessment(t, s) ==
    /\ Applies(s)
    /\ Begin(t, "assessing", s)
    /\ UNCHANGED <<schedule, basis, moneyVars, adjustmentVars, raced, outrun>>

\* At most one assessment of a filing is ASSESSED, and none leaves that status.
AssessFilingFee(t) ==
    /\ pc[t] = "assessing"
    /\ basis = "none"
    /\ basis' = about[t]
    /\ End(t)
    /\ UNCHANGED <<schedule, moneyVars, adjustmentVars, raced>>

\* The amount is the caller's.
AssessByHand ==
    /\ basis = "none"
    /\ basis' = "by hand"
    /\ UNCHANGED <<schedule, moneyVars, adjustmentVars, pc, about, raced, outrun>>

-------------------------------------------------------------------------------
(* Payments and adjustments. *)

CreatePayment(p) ==
    /\ p \notin created
    /\ basis # "none"
    /\ created' = created \cup {p}
    /\ UNCHANGED <<schedule, basis, standing, announced, adjustmentVars, pc, about,
                   raced, outrun>>

PaymentStep(p) ==
    /\ p \in created
    /\ Life!Confirm(p) \/ Life!Lose(p) \/ Life!GiveBack(p)
    /\ UNCHANGED <<schedule, basis, created, adjustmentVars, pc, about, raced, outrun>>

\* Mutant of Belongs: a payment is not looked up.
Named(p) == p \in Payments \cup {Nothing}

\* A payment that is named is one of the assessment.
Belongs(p) == p \in created \cup {Nothing}

\* The assessment, and the payment if one is named, are locked; its status is
\* not looked at.  What would be left of the amount is not negative.
RequestPaymentAdjustment(a, p) ==
    /\ adjustment[a] = "absent"
    /\ basis # "none"
    /\ Belongs(p)
    /\ adjustment' = [adjustment EXCEPT ![a] = "REQUESTED"]
    /\ target' = [target EXCEPT ![a] = p]
    /\ UNCHANGED <<schedule, basis, moneyVars, pc, about, raced, outrun>>

\* Mutant of Adjustable: a payment that was given back is as good as none.
NotHeld(p) == p # Nothing => standing[p] # "confirmed"

\* The named payment, under its row lock: PENDING, FAILED or CANCELLED.
Adjustable(p) == p # Nothing => standing[p] \in {"open", "lost"}

\* By another person than the requester.  Neither the assessment nor the payment
\* changes its amount: nothing applies an adjustment.
ApprovePaymentAdjustment(a) ==
    /\ adjustment[a] = "REQUESTED"
    /\ Adjustable(target[a])
    /\ adjustment' = [adjustment EXCEPT ![a] = "APPROVED"]
    /\ UNCHANGED <<schedule, basis, moneyVars, target, pc, about, raced, outrun>>

RejectPaymentAdjustment(a) ==
    /\ adjustment[a] = "REQUESTED"
    /\ adjustment' = [adjustment EXCEPT ![a] = "REJECTED"]
    /\ UNCHANGED <<schedule, basis, moneyVars, target, pc, about, raced, outrun>>

-------------------------------------------------------------------------------
ScheduleStep == \E s \in Schedules : CreateFeeSchedule(s) \/ RetireFeeSchedule(s)

MoneyStep == \E p \in Payments : CreatePayment(p) \/ PaymentStep(p)

AdjustmentStep == \E a \in Adjustments :
    \/ \E p \in Payments \cup {Nothing} : RequestPaymentAdjustment(a, p)
    \/ ApprovePaymentAdjustment(a)
    \/ RejectPaymentAdjustment(a)

SessionStep == \E t \in Sessions :
    \/ \E s \in Schedules : BeginActivation(t, s) \/ BeginAssessment(t, s)
    \/ ActivateFeeSchedule(t)
    \/ AssessFilingFee(t)
    \/ Rollback(t)

Next == ScheduleStep \/ AssessByHand \/ MoneyStep \/ AdjustmentStep \/ SessionStep

Spec == Init /\ [][Next]_vars

-------------------------------------------------------------------------------
(* Properties. *)

\* Two schedules in force for the same fee, court and day were activated by
\* transactions that overlapped: the check of NOT EXISTS sees every activation
\* that was committed before it, and none that was not.
OneScheduleGoverns == \A s, u \in Schedules :
    schedule[s] = "ACTIVE" /\ schedule[u] = "ACTIVE" /\ <<s, u>> \in Conflicting
        => <<s, u>> \in raced \/ <<u, s>> \in raced

\* A filing is charged from a schedule in force, or from one that was retired
\* between the unlocked read and the insert, and is charged once.
ChargedOnSchedule ==
    [][basis' # basis =>
          /\ basis = "none"
          /\ basis' \in Schedules =>
                \/ schedule[basis'] = "ACTIVE"
                \/ /\ schedule[basis'] = "RETIRED"
                   /\ \E t \in outrun : about[t] = basis']_vars

\* IMPLEMENTATION_STATUS.md: "approved adjustments cannot rewrite
\* confirmed-payment monetary evidence".  No adjustment is approved once the
\* payment it names has been announced as confirmed, given back or not.
AdjustedBeforeMoney ==
    [][\A a \in Adjustments :
          adjustment[a] # "APPROVED" /\ adjustment'[a] = "APPROVED"
              => target[a] \notin announced]_vars
===============================================================================
