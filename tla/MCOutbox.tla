------------------------------- MODULE MCOutbox -------------------------------
(* Instances of Outbox for TLC. *)
EXTENDS Outbox

\* One of the two events has a handler, the other one has none registered.
CONSTANTS e1, e2
MCEvents == {e1, e2}
MCHandled == {e1}

\* Handlers that resolve or reject with an ordinary error.
WellBehaved == {"ok", "error"}
===============================================================================
