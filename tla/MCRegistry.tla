------------------------------ MODULE MCRegistry -------------------------------
(* Instances of Registry for TLC. *)
EXTENDS Registry, TLC

CONSTANTS f1, f2, p1, p2

\* One payment for each filing.
OnePaymentEach == p1 :> f1 @@ p2 :> f2

Interchangeable == Permutations(Sessions) \cup Permutations(Keys)
===============================================================================
