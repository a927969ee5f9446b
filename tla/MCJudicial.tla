------------------------------ MODULE MCJudicial -------------------------------
(* Instances of Judicial for TLC. *)
EXTENDS Judicial, TLC

\* Sessions and unused identifiers are interchangeable.
Interchangeable == Permutations(Sessions) \cup Permutations(Hearings)
===============================================================================
