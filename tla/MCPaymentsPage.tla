---------------------------- MODULE MCPaymentsPage -----------------------------
(* Instances of PaymentsPage for TLC. *)
EXTENDS PaymentsPage, TLC

Interchangeable ==
    Permutations(Assessments) \cup Permutations(Payments) \cup Permutations(Refunds)
===============================================================================
