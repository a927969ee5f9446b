----------------------------- MODULE MCCaseRecords ----------------------------
(* Instances of CaseRecords for TLC. *)
EXTENDS CaseRecords, TLC

\* Sessions are interchangeable.
CONSTANTS t1, t2
MCTransactions == {t1, t2}
Sessions == Permutations(MCTransactions)
===============================================================================
