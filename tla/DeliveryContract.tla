--------------------------- MODULE DeliveryContract ---------------------------
(***************************************************************************)
(* What the durable outbox promises to the domain transaction that enqueued *)
(* an event, whatever the number of dispatchers, their crashes and their    *)
(* lost leases: the event is owed exactly once, a settled event never       *)
(* changes again, it is settled as delivered only after a handler returned  *)
(* normally for it, and as dead only by the MaxAttempts-th recorded failure.*)
(***************************************************************************)
EXTENDS Naturals

CONSTANTS Events, MaxAttempts

VARIABLES fate,       \* what the outbox has decided about each event
          failures,   \* recorded failed attempts
          succeeded   \* events some handler invocation returned normally for

contractVars == <<fate, failures, succeeded>>

Init ==
    /\ fate = [e \in Events |-> "absent"]
    /\ failures = [e \in Events |-> 0]
    /\ succeeded = {}

Owe(e) ==
    /\ fate[e] = "absent"
    /\ fate' = [fate EXCEPT ![e] = "owed"]
    /\ UNCHANGED <<failures, succeeded>>

\* Delivery is at least once: a handler may succeed again at any later time.
Succeed(e) ==
    /\ fate[e] # "absent"
    /\ succeeded' = succeeded \cup {e}
    /\ UNCHANGED <<fate, failures>>

Settle(e) ==
    /\ fate[e] = "owed"
    /\ e \in succeeded
    /\ fate' = [fate EXCEPT ![e] = "DELIVERED"]
    /\ UNCHANGED <<failures, succeeded>>

Fail(e) ==
    /\ fate[e] = "owed"
    /\ failures' = [failures EXCEPT ![e] = failures[e] + 1]
    /\ fate' = IF failures[e] + 1 = MaxAttempts
                 THEN [fate EXCEPT ![e] = "DEAD_LETTER"]
                 ELSE fate
    /\ UNCHANGED succeeded

Next == \E e \in Events : Owe(e) \/ Succeed(e) \/ Settle(e) \/ Fail(e)

Spec == Init /\ [][Next]_contractVars
===============================================================================
