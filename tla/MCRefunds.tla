------------------------------ MODULE MCRefunds -------------------------------
(* Instances of Refunds for TLC. *)
EXTENDS Refunds

\* One payment of 3 and requests for 2, 2 and 1: a partial refund, a full one in
\* two parts, and two requests that cannot both be honoured.
CONSTANTS p1, r1, r2, r3
MCPaymentAmount == [p \in {p1} |-> 3]
MCPaymentOf == [r \in {r1, r2, r3} |-> p1]
MCRefundAmount == [r \in {r1, r2, r3} |-> IF r = r3 THEN 1 ELSE 2]
===============================================================================
