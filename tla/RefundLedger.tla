----------------------------- MODULE RefundLedger -----------------------------
(***************************************************************************)
(* What the refund workflow promises of each payment: money goes back only  *)
(* for a request that was approved, once, and never more than is left of    *)
(* the confirmed amount.  Who decides, and how requests race, is not here.  *)
(***************************************************************************)
EXTENDS Integers

CONSTANTS
    Payments,
    Refunds,      \* the refund requests that may be made
    PaymentOf,    \* the payment each request is about
    RefundAmount, \* the amount it asks for
    PaymentAmount \* what was paid

VARIABLES
    stage,        \* [Refunds -> {"none", "open", "approved", "refused", "paid"}]
    left          \* [Payments -> what has not been given back]

vars == <<stage, left>>

Init ==
    /\ stage = [r \in Refunds |-> "none"]
    /\ left = PaymentAmount

Move(r, from, to) ==
    /\ stage[r] = from
    /\ stage' = [stage EXCEPT ![r] = to]

Ask(r) == Move(r, "none", "open") /\ UNCHANGED left

Approve(r) == Move(r, "open", "approved") /\ UNCHANGED left

Refuse(r) == Move(r, "open", "refused") /\ UNCHANGED left

Pay(r) ==
    /\ Move(r, "approved", "paid")
    /\ RefundAmount[r] <= left[PaymentOf[r]]
    /\ left' = [left EXCEPT ![PaymentOf[r]] = @ - RefundAmount[r]]

Next == \E r \in Refunds : Ask(r) \/ Approve(r) \/ Refuse(r) \/ Pay(r)

Spec == Init /\ [][Next]_vars
===============================================================================
