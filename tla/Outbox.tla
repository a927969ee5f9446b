-------------------------------- MODULE Outbox --------------------------------
(***************************************************************************)
(* The durable event outbox: the table integration.outbox_events behind     *)
(* PostgresOutboxStore, and the OutboxDispatcher processes that claim       *)
(* batches from it, run the handlers and record what happened.              *)
(*                                                                          *)
(* An event is its (event_type, deduplication_key), the table's unique key. *)
(* Timestamps are kept as the time that is left: wait[e] is next_attempt_at *)
(* minus now, lease[e] is locked_at plus leaseTimeoutMs minus now, both cut *)
(* at 0, which is all the claim compares.  Each store call is one SQL       *)
(* statement outside a transaction, hence one step; between two calls of a  *)
(* dispatcher anything may happen.                                          *)
(***************************************************************************)
EXTENDS Integers, FiniteSets

CONSTANTS
    Events,           \* the (event_type, deduplication_key) pairs ever enqueued
    Workers,          \* the dispatchers; a dispatcher is its configured workerId
    NoWorker,         \* locked_by IS NULL
    NoEvent,          \* a dispatcher has no current event
    HandledEvents,    \* events whose event_type has a registered handler
    HandlerOutcomes,  \* how a handler invocation may settle
    BatchSize, LeaseTimeout, MaxAttempts, BaseDelay, MaxDelay,
    MaxCrashes,       \* bound: dispatcher crashes
    MaxOverruns       \* bound: times a live dispatcher outlasts a lease it holds

Outcomes == {"ok", "error", "blank", "falsy"}

ASSUME SetsAssumption ==
    /\ NoWorker \notin Workers
    /\ NoEvent \notin Events
    /\ HandledEvents \subseteq Events
    /\ HandlerOutcomes \subseteq Outcomes

ASSUME NumbersAssumption ==
    /\ BatchSize \in Nat \ {0}
    /\ LeaseTimeout \in Nat
    /\ MaxAttempts \in Nat \ {0}
    /\ BaseDelay \in Nat \ {0}
    /\ MaxDelay \in Nat \ {0}
    /\ MaxCrashes \in Nat
    /\ MaxOverruns \in Nat

VARIABLES
    status,     \* [Events -> "absent" or the row's status]
    attempts,   \* attempt_count
    wait,       \* time left to next_attempt_at
    lockedBy,   \* locked_by
    lease,      \* time left of the lease, meaningful while PROCESSING
    pc,         \* where each dispatcher is in runOnce()
    held,       \* claimed events the loop of runOnce() has still to take
    cur,        \* the event of the current iteration
    seen,       \* attemptCount in the rows the claim returned
    outcome,    \* how the handler of the current event settled
    succeeded,  \* history: events some handler invocation returned normally for
    crashes, overruns

rowVars == <<status, attempts, wait, lockedBy, lease>>
loopVars == <<pc, held, cur, seen, outcome>>
vars == <<status, attempts, wait, lockedBy, lease, pc, held, cur, seen,
          outcome, succeeded, crashes, overruns>>

RowTypes ==
    /\ status \in [Events -> {"absent", "PENDING", "PROCESSING", "DELIVERED",
                              "DEAD_LETTER"}]
    /\ attempts \in [Events -> 0 .. MaxAttempts]
    /\ wait \in [Events -> 0 .. MaxDelay]
    /\ lockedBy \in [Events -> Workers \cup {NoWorker}]
    /\ lease \in [Events -> 0 .. LeaseTimeout]

LoopTypes ==
    /\ pc \in [Workers -> {"idle", "loop", "handling", "recording"}]
    /\ held \in [Workers -> SUBSET Events]
    /\ cur \in [Workers -> Events \cup {NoEvent}]
    /\ seen \in [Workers -> [Events -> 0 .. MaxAttempts]]
    /\ outcome \in [Workers -> Outcomes]

TypeOK ==
    /\ RowTypes
    /\ LoopTypes
    /\ succeeded \subseteq Events
    /\ crashes \in 0 .. MaxCrashes
    /\ overruns \in 0 .. MaxOverruns

Init ==
    /\ status = [e \in Events |-> "absent"]
    /\ attempts = [e \in Events |-> 0]
    /\ wait = [e \in Events |-> 0]
    /\ lockedBy = [e \in Events |-> NoWorker]
    /\ lease = [e \in Events |-> 0]
    /\ pc = [w \in Workers |-> "idle"]
    /\ held = [w \in Workers |-> {}]
    /\ cur = [w \in Workers |-> NoEvent]
    /\ seen = [w \in Workers |-> [e \in Events |-> 0]]
    /\ outcome = [w \in Workers |-> "ok"]
    /\ succeeded = {}
    /\ crashes = 0
    /\ overruns = 0

-------------------------------------------------------------------------------
(* The store. *)

\* Mutant of RetryDelay: the cap is forgotten.
UncappedDelay(n) == BaseDelay * 2^(n - 1)

\* The delay after the n-th attempt doubles from BaseDelay and is capped.
RetryDelay(n) ==
    LET raw == BaseDelay * 2^(n - 1)
    IN IF raw \in 1 .. MaxDelay THEN raw ELSE MaxDelay

\* Mutant of Claimable: a stale lease is never reclaimed.
OnlyPending == {e \in Events : status[e] = "PENDING" /\ wait[e] = 0}

\* The candidates of a claim: due rows, and rows whose lease has run out.
Claimable == {e \in Events : \/ status[e] = "PENDING" /\ wait[e] = 0
                             \/ status[e] = "PROCESSING" /\ lease[e] = 0}

\* LIMIT takes what there is.  The order of the candidates (oldest
\* next_attempt_at first) is abstracted: any selection may come first.
Batches == {S \in SUBSET Claimable :
              /\ S # {}
              /\ Cardinality(S) <= BatchSize
              /\ S # Claimable => Cardinality(S) = BatchSize}

\* Mutant of OwnsLease: locked_by is not compared.
AnyLease(w, e) == status[e] = "PROCESSING"

\* The WHERE clause shared by markDelivered and markFailed.
OwnsLease(w, e) == status[e] = "PROCESSING" /\ lockedBy[e] = w

ReleaseLease(e) ==
    /\ lockedBy' = [lockedBy EXCEPT ![e] = NoWorker]
    /\ lease' = [lease EXCEPT ![e] = 0]

MarkDelivered(e) ==
    /\ status' = [status EXCEPT ![e] = "DELIVERED"]
    /\ ReleaseLease(e)
    /\ UNCHANGED <<attempts, wait>>

\* Mutant of MarkFailed: one attempt too many.
MarkFailedLate(e, retryAfter) ==
    LET dead == attempts[e] >= MaxAttempts
    IN /\ attempts' = [attempts EXCEPT ![e] = @ + 1]
       /\ status' = [status EXCEPT ![e] =
                       IF dead THEN "DEAD_LETTER" ELSE "PENDING"]
       /\ wait' = IF dead THEN wait ELSE [wait EXCEPT ![e] = retryAfter]
       /\ ReleaseLease(e)

\* attempt_count is incremented in the row; the retry time was computed by the
\* dispatcher from the attemptCount it read when it claimed.
MarkFailed(e, retryAfter) ==
    LET dead == attempts[e] + 1 >= MaxAttempts
    IN /\ attempts' = [attempts EXCEPT ![e] = @ + 1]
       /\ status' = [status EXCEPT ![e] =
                       IF dead THEN "DEAD_LETTER" ELSE "PENDING"]
       /\ wait' = IF dead THEN wait ELSE [wait EXCEPT ![e] = retryAfter]
       /\ ReleaseLease(e)

\* enqueue(), committed with the business transaction it belongs to.  ON
\* CONFLICT DO NOTHING: an event that is already there is left as it is.
Enqueue(e) ==
    /\ status' = [status EXCEPT ![e] = IF @ = "absent" THEN "PENDING" ELSE @]
    /\ UNCHANGED <<attempts, wait, lockedBy, lease, loopVars, succeeded,
                   crashes, overruns>>

-------------------------------------------------------------------------------
(* runOnce() of dispatcher w. *)

InHand(w) == held[w] \cup ({cur[w]} \ {NoEvent})

ClaimBatch(w) ==
    /\ pc[w] = "idle"
    /\ \E S \in Batches :
         /\ status' = [e \in Events |-> IF e \in S THEN "PROCESSING" ELSE status[e]]
         /\ lockedBy' = [e \in Events |-> IF e \in S THEN w ELSE lockedBy[e]]
         /\ lease' = [e \in Events |-> IF e \in S THEN LeaseTimeout ELSE lease[e]]
         /\ held' = [held EXCEPT ![w] = S]
         /\ seen' = [seen EXCEPT ![w] = attempts]
    /\ pc' = [pc EXCEPT ![w] = "loop"]
    /\ UNCHANGED <<attempts, wait, cur, outcome, succeeded, crashes, overruns>>

\* The next event of the batch, whoever owns its row by now.  An event type
\* without a handler is a delivery error at once.
TakeNext(w) ==
    /\ pc[w] = "loop"
    /\ \E e \in held[w] :
         /\ cur' = [cur EXCEPT ![w] = e]
         /\ held' = [held EXCEPT ![w] = @ \ {e}]
         /\ IF e \in HandledEvents
              THEN /\ pc' = [pc EXCEPT ![w] = "handling"]
                   /\ UNCHANGED outcome
              ELSE /\ pc' = [pc EXCEPT ![w] = "recording"]
                   /\ outcome' = [outcome EXCEPT ![w] = "error"]
    /\ UNCHANGED <<rowVars, seen, succeeded, crashes, overruns>>

\* The awaited handler resolves ("ok") or rejects: with an ordinary error, with
\* an error whose message is only blanks, or with a falsy value.
HandlerSettles(w) ==
    /\ pc[w] = "handling"
    /\ \E o \in HandlerOutcomes :
         /\ outcome' = [outcome EXCEPT ![w] = o]
         /\ succeeded' = IF o = "ok" THEN succeeded \cup {cur[w]} ELSE succeeded
    /\ pc' = [pc EXCEPT ![w] = "recording"]
    /\ UNCHANGED <<rowVars, held, cur, seen, crashes, overruns>>

\* `if (!deliveryError)`: a falsy rejection looks like no rejection.
NoDeliveryError(w) == outcome[w] \in {"ok", "falsy"}

\* The loop goes on to the next event of the batch, or runOnce() returns.
NextIteration(w) ==
    /\ pc' = [pc EXCEPT ![w] = IF held[w] = {} THEN "idle" ELSE "loop"]
    /\ cur' = [cur EXCEPT ![w] = NoEvent]
    /\ UNCHANGED held

\* An exception leaves runOnce(): the rest of the batch stays PROCESSING.
AbandonBatch(w) ==
    /\ pc' = [pc EXCEPT ![w] = "idle"]
    /\ cur' = [cur EXCEPT ![w] = NoEvent]
    /\ held' = [held EXCEPT ![w] = {}]

RecordDelivery(w) ==
    /\ pc[w] = "recording"
    /\ NoDeliveryError(w)
    /\ IF OwnsLease(w, cur[w])
         THEN MarkDelivered(cur[w]) /\ NextIteration(w)
         ELSE UNCHANGED rowVars /\ AbandonBatch(w)
    /\ UNCHANGED <<seen, outcome, succeeded, crashes, overruns>>

\* markFailed() refuses a blank error message before it reaches the database.
RecordFailure(w) ==
    /\ pc[w] = "recording"
    /\ ~NoDeliveryError(w)
    /\ IF outcome[w] # "blank" /\ OwnsLease(w, cur[w])
         THEN /\ MarkFailed(cur[w], RetryDelay(seen[w][cur[w]] + 1))
              /\ NextIteration(w)
         ELSE UNCHANGED rowVars /\ AbandonBatch(w)
    /\ UNCHANGED <<seen, outcome, succeeded, crashes, overruns>>

\* The process dies and restarts, or a store call fails or is cut off: what
\* runOnce() held in memory is gone, the rows stay as they are.
Crash(w) ==
    /\ pc[w] # "idle"
    /\ crashes < MaxCrashes
    /\ crashes' = crashes + 1
    /\ AbandonBatch(w)
    /\ UNCHANGED <<rowVars, seen, outcome, succeeded, overruns>>

\* Leases that this tick ends under a dispatcher that is still on the batch.
Overrun == {e \in Events : /\ status[e] = "PROCESSING"
                           /\ lease[e] = 1
                           /\ lockedBy[e] \in Workers
                           /\ e \in InHand(lockedBy[e])}

Countdown(n) == IF n > 0 THEN n - 1 ELSE 0

Tick ==
    /\ \E e \in Events : wait[e] > 0 \/ lease[e] > 0
    /\ overruns' = IF Overrun = {} THEN overruns ELSE overruns + 1
    /\ overruns' <= MaxOverruns
    /\ wait' = [e \in Events |-> Countdown(wait[e])]
    /\ lease' = [e \in Events |-> Countdown(lease[e])]
    /\ UNCHANGED <<status, attempts, lockedBy, loopVars, succeeded, crashes>>

RunOnce(w) ==
    \/ ClaimBatch(w)
    \/ TakeNext(w)
    \/ HandlerSettles(w)
    \/ RecordDelivery(w)
    \/ RecordFailure(w)

Next ==
    \/ \E e \in Events : Enqueue(e)
    \/ \E w \in Workers : RunOnce(w) \/ Crash(w)
    \/ Tick

Spec == Init /\ [][Next]_vars

\* Time passes, and a deployed dispatcher keeps calling runOnce(), whose store
\* calls and handlers settle.  Nothing is assumed of Enqueue or Crash.
Fairness == WF_vars(Tick) /\ \A w \in Workers : WF_vars(RunOnce(w))

FairSpec == Spec /\ Fairness

-------------------------------------------------------------------------------
(* Properties. *)

\* attempt_count never passes the limit, a dead letter has used up all its
\* attempts and no live event has: the retries are bounded and none is skipped
\* (markFailed's CASE, whatever stale dispatchers do in between).
AttemptsAccounted ==
    \A e \in Events :
        /\ attempts[e] <= MaxAttempts
        /\ status[e] = "DEAD_LETTER" <=> attempts[e] = MaxAttempts

\* An event is DELIVERED only if a handler returned normally for it at least
\* once (runOnce marks delivery after the awaited handler).  It holds while no
\* handler rejects with a falsy value, which looks like a success.
DeliveredOnlyAfterSuccess ==
    \A e \in Events : status[e] = "DELIVERED" => e \in succeeded

\* The backoff a dispatcher computed from the attemptCount of its claim is the
\* backoff of the attempt markFailed records, although leases are stolen and
\* other dispatchers record failures of the same event in the meantime.
BackoffMatchesAttempts ==
    [][\A e \in Events :
          attempts'[e] = attempts[e] + 1 /\ status'[e] = "PENDING"
              => wait'[e] = RetryDelay(attempts'[e])]_vars

\* Every enqueued event is eventually delivered or dead-lettered: no crash,
\* stolen lease, abandoned batch or failing handler leaves it behind forever.
EventuallySettled ==
    \A e \in Events :
        status[e] = "PENDING" ~> status[e] \in {"DELIVERED", "DEAD_LETTER"}

\* The outbox implements DeliveryContract.
Contract == INSTANCE DeliveryContract WITH
    fate <- [e \in Events |-> IF status[e] \in {"PENDING", "PROCESSING"}
                               THEN "owed" ELSE status[e]],
    failures <- attempts

\* Exactly-once enqueue, final settlements and counted failures: each step of
\* store and dispatchers is a step of the contract or changes nothing it sees.
ImplementsContract == Contract!Spec
===============================================================================
