---------------------------- MODULE MCPaymentEvents ----------------------------
(* Instances of PaymentEvents for TLC. *)
EXTENDS PaymentEvents, TLC

CONSTANTS p1, p2, r1, r2

Says(type, p, r, amount) ==
    [type |-> type, payment |-> p, reference |-> r, amount |-> amount]

\* Outcomes of p1 that exclude or follow each other.
ChainedContents ==
    {Says(t, p1, r1, "same") : t \in {"PAYMENT_SUCCEEDED", "PAYMENT_REFUNDED"}} \cup
    {Says(t, p1, r1, "none") : t \in {"PAYMENT_CANCELLED", "PAYMENT_FAILED"}}

\* And a success with the wrong amount, and one that names p2 with a reference
\* either may be bound to.
MixedContents == ChainedContents \cup
    {Says("PAYMENT_SUCCEEDED", p1, r1, "other"), Says("PAYMENT_SUCCEEDED", p2, r1, "same"),
     Says("PAYMENT_REVERSED", NoPayment, r1, "same")}

Symmetry == Permutations(Events) \cup Permutations(Processors) \cup Permutations(Sessions)
===============================================================================
