--------------------------- MODULE PaymentLifecycle ----------------------------
(***************************************************************************)
(* What the rest of the system relies on of a payment, however its provider *)
(* repeats, delays or reorders its events: it is settled once, announced    *)
(* with payment.confirmed exactly when it is confirmed, and given back at   *)
(* most once, after its confirmation.                                       *)
(***************************************************************************)
CONSTANT Payments

VARIABLES
    standing,   \* [Payments -> {"open", "confirmed", "lost", "returned"}]
    announced   \* payments a payment.confirmed event was enqueued for

vars == <<standing, announced>>

Init ==
    /\ standing = [p \in Payments |-> "open"]
    /\ announced = {}

Move(p, from, to) ==
    /\ standing[p] = from
    /\ standing' = [standing EXCEPT ![p] = to]

Confirm(p) == Move(p, "open", "confirmed") /\ announced' = announced \cup {p}

Lose(p) == Move(p, "open", "lost") /\ UNCHANGED announced

GiveBack(p) == Move(p, "confirmed", "returned") /\ UNCHANGED announced

Next == \E p \in Payments : Confirm(p) \/ Lose(p) \/ GiveBack(p)

Spec == Init /\ [][Next]_vars
===============================================================================
