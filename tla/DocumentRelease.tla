--------------------------- MODULE DocumentRelease ----------------------------
(***************************************************************************)
(* What the scan pipeline promises of each document: it is released at most *)
(* once, only while it waits for its verdict and only after the scanner     *)
(* found it clean; a document that was barred or retired stays shut.        *)
(***************************************************************************)
CONSTANT Documents

VARIABLES
    gate,     \* [Documents -> {"closed", "waiting", "released", "barred", "retired"}]
    cleared   \* documents the scanner has found clean

vars == <<gate, cleared>>

Init ==
    /\ gate = [d \in Documents |-> "closed"]
    /\ cleared = {}

Move(d, from, to) ==
    /\ gate[d] \in from
    /\ gate' = [gate EXCEPT ![d] = to]
    /\ UNCHANGED cleared

Submit(d) == Move(d, {"closed"}, "waiting")

FoundClean(d) ==
    /\ gate[d] # "closed"
    /\ cleared' = cleared \cup {d}
    /\ UNCHANGED gate

Release(d) == d \in cleared /\ Move(d, {"waiting"}, "released")

Bar(d) == Move(d, {"waiting"}, "barred")

Retire(d) == Move(d, {"closed", "waiting", "released", "barred"}, "retired")

Next == \E d \in Documents :
    Submit(d) \/ FoundClean(d) \/ Release(d) \/ Bar(d) \/ Retire(d)

Spec == Init /\ [][Next]_vars
===============================================================================
