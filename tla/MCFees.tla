-------------------------------- MODULE MCFees ---------------------------------
(* Instances of Fees for TLC. *)
EXTENDS Fees, TLC

CONSTANTS court, everywhere, nextYear

\* A schedule of the court and one of every court that overlap, and one of the
\* court for next year, when the one of every court goes on.
Overlaps == {<<court, everywhere>>, <<everywhere, court>>,
             <<everywhere, nextYear>>, <<nextYear, everywhere>>}

Interchangeable ==
    Permutations(Sessions) \cup Permutations(Payments) \cup Permutations(Adjustments)
===============================================================================
