----------------------------- MODULE OutboxProofs -----------------------------
(***************************************************************************)
(* Theorems about Outbox for every number of events and dispatchers, every  *)
(* batch size, lease, backoff and attempt limit, and every number of        *)
(* crashes and overrun leases.                                              *)
(***************************************************************************)
EXTENDS Outbox, TLAPS

\* A dispatcher is between runs, between events, or on one event it took out
\* of its batch; only runOnce() puts events there, so their rows exist.
LoopShape ==
    \A w \in Workers :
        /\ pc[w] = "idle" => held[w] = {}
        /\ cur[w] \in Events <=> pc[w] \in {"handling", "recording"}
        /\ \A e \in InHand(w) : status[e] # "absent"

\* A row is locked exactly while it is PROCESSING.
RowShape ==
    \A e \in Events : status[e] = "PROCESSING" <=> lockedBy[e] \in Workers

\* The inductive core: types, shapes and the accounting of attempts.
Core == TypeOK /\ LoopShape /\ RowShape /\ AttemptsAccounted

\* What a dispatcher that still owns a row remembers of it is current.
OwnerIsCurrent ==
    \A w \in Workers, e \in Events :
        e \in InHand(w) /\ lockedBy[e] = w => seen[w][e] = attempts[e]

\* A dispatcher about to record a delivery saw its handler return normally.
RejectionsAreTruthy == "falsy" \notin HandlerOutcomes

RecordingShape ==
    \A w \in Workers :
        /\ outcome[w] # "falsy"
        /\ pc[w] = "recording" /\ outcome[w] = "ok" => cur[w] \in succeeded

-------------------------------------------------------------------------------

\* retryDelayMs() stays within the configured cap.
LEMMA RetryDelayType == \A n : RetryDelay(n) \in 0 .. MaxDelay
BY NumbersAssumption DEF RetryDelay

\* One more attempt below the limit still fits.
LEMMA OneMoreAttempt ==
    ASSUME NEW n \in 0 .. MaxAttempts, n # MaxAttempts
    PROVE  n + 1 \in 0 .. MaxAttempts
BY NumbersAssumption

\* No row exists at first, so nothing can be wrong with one.
LEMMA InitCore == Init => Core
BY SetsAssumption, NumbersAssumption
   DEF Init, Core, TypeOK, RowTypes, LoopTypes, LoopShape, RowShape, AttemptsAccounted, InHand, Outcomes

\* The table keeps its types: claims, marks, ticks; recording a failure needs
\* the accounting of attempts.
LEMMA RowTypesStep == Core /\ [Next]_vars => RowTypes'
<1> SUFFICES ASSUME Core, [Next]_vars
             PROVE  RowTypes'
  OBVIOUS
<1>0. RowTypes /\ LoopShape /\ LoopTypes
  BY DEF Core, TypeOK
<1>1. ASSUME NEW e \in Events, Enqueue(e)
      PROVE  RowTypes'
  BY <1>0, <1>1 DEF Enqueue, RowTypes
<1>2. ASSUME NEW w \in Workers, ClaimBatch(w)
      PROVE  RowTypes'
  BY <1>0, <1>2, NumbersAssumption DEF ClaimBatch, RowTypes
<1>3. ASSUME NEW w \in Workers, RecordDelivery(w)
      PROVE  RowTypes'
  <2>1. CASE OwnsLease(w, cur[w])
    BY <1>0, <1>3, <2>1, NumbersAssumption
       DEF RecordDelivery, MarkDelivered, ReleaseLease, RowTypes
  <2>2. CASE ~OwnsLease(w, cur[w])
    BY <1>0, <1>3, <2>2 DEF RecordDelivery, rowVars, RowTypes
  <2>3. QED
    BY <2>1, <2>2
<1>4. ASSUME NEW w \in Workers, RecordFailure(w)
      PROVE  RowTypes'
  <2> DEFINE e == cur[w]
  <2>1. e \in Events
    BY <1>0, <1>4 DEF RecordFailure, LoopShape
  <2>2. CASE outcome[w] # "blank" /\ OwnsLease(w, e)
    <3>1. MarkFailed(e, RetryDelay(seen[w][e] + 1))
      BY <1>4, <2>2 DEF RecordFailure
    <3>2. attempts[e] \in 0 .. MaxAttempts /\ attempts[e] # MaxAttempts
      BY <2>1, <2>2 DEF Core, OwnsLease, AttemptsAccounted, TypeOK, RowTypes
    <3>3. attempts[e] + 1 \in 0 .. MaxAttempts
      BY <3>2, OneMoreAttempt
    <3>4. RetryDelay(seen[w][e] + 1) \in 0 .. MaxDelay
      BY RetryDelayType
    <3> HIDE DEF e
    <3>5. QED
      <4>1. attempts' \in [Events -> 0 .. MaxAttempts]
        BY <1>0, <3>1, <3>3 DEF MarkFailed, RowTypes
      <4>2. wait' \in [Events -> 0 .. MaxDelay]
        BY <1>0, <3>1, <3>4 DEF MarkFailed, RowTypes
      <4>3. QED
        BY <1>0, <3>1, <4>1, <4>2, NumbersAssumption
           DEF MarkFailed, ReleaseLease, RowTypes
  <2>3. CASE ~(outcome[w] # "blank" /\ OwnsLease(w, e))
    BY <1>0, <1>4, <2>3 DEF RecordFailure, rowVars, RowTypes
  <2>4. QED
    BY <2>2, <2>3
<1>5. CASE Tick
  BY <1>0, <1>5, NumbersAssumption DEF Tick, Countdown, RowTypes
<1>6. CASE UNCHANGED rowVars
  BY <1>0, <1>6 DEF rowVars, RowTypes
<1>7. QED
  <2>1. ASSUME NEW w \in Workers, TakeNext(w) \/ HandlerSettles(w) \/ Crash(w)
        PROVE  UNCHANGED rowVars
    BY <2>1 DEF TakeNext, HandlerSettles, Crash
  <2>2. UNCHANGED vars => UNCHANGED rowVars
    BY DEF vars, rowVars
  <2>3. QED
    BY <1>1, <1>2, <1>3, <1>4, <1>5, <1>6, <2>1, <2>2 DEF Next, RunOnce

\* The memory of the dispatchers keeps its types.
LEMMA LoopTypesStep == Core /\ [Next]_vars => LoopTypes'
<1> SUFFICES ASSUME Core, [Next]_vars
             PROVE  LoopTypes'
  OBVIOUS
<1>0. LoopTypes /\ RowTypes
  BY DEF Core, TypeOK
<1>1. CASE UNCHANGED loopVars
  BY <1>0, <1>1 DEF loopVars, LoopTypes
<1>2. ASSUME NEW w \in Workers, ClaimBatch(w)
      PROVE  LoopTypes'
  BY <1>0, <1>2 DEF ClaimBatch, Batches, Claimable, LoopTypes, RowTypes
<1>3. ASSUME NEW w \in Workers, TakeNext(w)
      PROVE  LoopTypes'
  <2>1. PICK e \in held[w] : /\ cur' = [cur EXCEPT ![w] = e]
                             /\ held' = [held EXCEPT ![w] = @ \ {e}]
    BY <1>3 DEF TakeNext
  <2>2. e \in Events
    BY <1>0 DEF LoopTypes
  <2>3. held' \in [Workers -> SUBSET Events]
    BY <1>0, <2>1 DEF LoopTypes
  <2>4. cur' \in [Workers -> Events \cup {NoEvent}]
    BY <1>0, <2>1, <2>2 DEF LoopTypes
  <2>5. /\ pc' \in [Workers -> {"idle", "loop", "handling", "recording"}]
        /\ outcome' \in [Workers -> Outcomes]
    BY <1>0, <1>3 DEF TakeNext, LoopTypes, Outcomes
  <2>6. QED
    BY <1>0, <1>3, <2>3, <2>4, <2>5 DEF TakeNext, LoopTypes
<1>4. ASSUME NEW w \in Workers, HandlerSettles(w)
      PROVE  LoopTypes'
  BY <1>0, <1>4, SetsAssumption DEF HandlerSettles, LoopTypes
<1>5. ASSUME NEW w \in Workers, NextIteration(w), UNCHANGED <<seen, outcome>>
      PROVE  LoopTypes'
  BY <1>0, <1>5 DEF NextIteration, LoopTypes
<1>6. ASSUME NEW w \in Workers, AbandonBatch(w), UNCHANGED <<seen, outcome>>
      PROVE  LoopTypes'
  BY <1>0, <1>6 DEF AbandonBatch, LoopTypes
<1>7. QED
  <2>1. ASSUME NEW w \in Workers,
               RecordDelivery(w) \/ RecordFailure(w) \/ Crash(w)
        PROVE  /\ NextIteration(w) \/ AbandonBatch(w)
               /\ UNCHANGED <<seen, outcome>>
    BY <2>1 DEF RecordDelivery, RecordFailure, Crash
  <2>2. ASSUME (\E e \in Events : Enqueue(e)) \/ Tick \/ UNCHANGED vars
        PROVE  UNCHANGED loopVars
    BY <2>2 DEF Enqueue, Tick, vars, loopVars
  <2>3. QED
    BY <1>1, <1>2, <1>3, <1>4, <1>5, <1>6, <2>1, <2>2 DEF Next, RunOnce

\* A dispatcher's place in the loop agrees with what it holds.
LEMMA LoopShapeStep == Core /\ [Next]_vars => LoopShape'
<1> SUFFICES ASSUME Core, [Next]_vars, NEW v \in Workers
             PROVE  /\ pc'[v] = "idle" => held'[v] = {}
                    /\ cur'[v] \in Events <=> pc'[v] \in {"handling", "recording"}
                    /\ \A e \in InHand(v)' : status'[e] # "absent"
  BY DEF LoopShape
<1> DEFINE Shape == /\ pc[v] = "idle" => held[v] = {}
                    /\ cur[v] \in Events <=> pc[v] \in {"handling", "recording"}
                    /\ \A e \in InHand(v) : status[e] # "absent"
<1>0. LoopTypes /\ RowTypes /\ Shape
  BY DEF Core, TypeOK, LoopShape
<1>1. \A e \in Events : status[e] # "absent" => status'[e] # "absent"
  <2>1. ASSUME NEW e \in Events, Enqueue(e)
        PROVE  \A f \in Events : status[f] # "absent" => status'[f] # "absent"
    BY <1>0, <2>1 DEF Enqueue, RowTypes
  <2>2. ASSUME NEW w \in Workers, ClaimBatch(w)
        PROVE  \A f \in Events : status[f] # "absent" => status'[f] # "absent"
    BY <1>0, <2>2 DEF ClaimBatch, RowTypes
  <2>3. ASSUME NEW w \in Workers, RecordDelivery(w) \/ RecordFailure(w)
        PROVE  \A f \in Events : status[f] # "absent" => status'[f] # "absent"
    BY <1>0, <2>3 DEF RecordDelivery, RecordFailure, MarkDelivered, MarkFailed,
                      rowVars, RowTypes
  <2>4. ASSUME NEW w \in Workers, TakeNext(w) \/ HandlerSettles(w) \/ Crash(w)
        PROVE  UNCHANGED status
    BY <2>4 DEF TakeNext, HandlerSettles, Crash, rowVars
  <2>5. Tick \/ UNCHANGED vars => UNCHANGED status
    BY DEF Tick, vars
  <2>6. QED
    BY <2>1, <2>2, <2>3, <2>4, <2>5 DEF Next, RunOnce
<1>2. InHand(v) \subseteq Events
  BY <1>0 DEF InHand, LoopTypes
<1>3. ASSUME UNCHANGED <<pc[v], held[v], cur[v]>>
      PROVE  Shape'
  BY <1>0, <1>1, <1>2, <1>3 DEF InHand
<1>4. ASSUME ClaimBatch(v)
      PROVE  Shape'
  <2>1. PICK S \in Batches :
             /\ status' = [e \in Events |-> IF e \in S THEN "PROCESSING" ELSE status[e]]
             /\ held' = [held EXCEPT ![v] = S]
    BY <1>4 DEF ClaimBatch
  <2>2. S \subseteq Events /\ \A e \in S : status'[e] # "absent"
    BY <2>1 DEF Batches, Claimable
  <2>3. held'[v] = S /\ pc'[v] = "loop" /\ cur'[v] = cur[v] /\ cur[v] = NoEvent
    BY <1>0, <1>4, <2>1 DEF ClaimBatch, LoopTypes
  <2>4. QED
    BY <2>2, <2>3, SetsAssumption DEF InHand
<1>5. ASSUME TakeNext(v)
      PROVE  Shape'
  <2>1. PICK e \in held[v] :
             /\ cur' = [cur EXCEPT ![v] = e]
             /\ held' = [held EXCEPT ![v] = @ \ {e}]
    BY <1>5 DEF TakeNext
  <2>2. e \in Events
    BY <1>0 DEF LoopTypes
  <2>3. cur'[v] = e /\ held'[v] = held[v] \ {e}
        /\ pc'[v] \in {"handling", "recording"}
    BY <1>0, <1>5, <2>1 DEF TakeNext, LoopTypes
  <2>4. InHand(v)' \subseteq InHand(v)
    BY <2>3 DEF InHand, LoopTypes
  <2>5. QED
    BY <1>0, <1>1, <1>2, <2>2, <2>3, <2>4
<1>6. ASSUME HandlerSettles(v)
      PROVE  Shape'
  BY <1>0, <1>1, <1>2, <1>6 DEF HandlerSettles, LoopTypes, InHand
<1>7. ASSUME NextIteration(v) \/ AbandonBatch(v)
      PROVE  Shape'
  <2>1. cur'[v] = NoEvent /\ held'[v] \subseteq held[v]
        /\ pc'[v] \in {"idle", "loop"} /\ (pc'[v] = "idle" => held'[v] = {})
    BY <1>0, <1>7 DEF NextIteration, AbandonBatch, LoopTypes
  <2>2. InHand(v)' \subseteq InHand(v)
    BY <2>1 DEF InHand
  <2>3. QED
    BY <1>0, <1>1, <1>2, <2>1, <2>2, SetsAssumption
<1>8. QED
  <2>1. ASSUME NEW w \in Workers, w # v, RunOnce(w) \/ Crash(w)
        PROVE  UNCHANGED <<pc[v], held[v], cur[v]>>
    <3>1. CASE ClaimBatch(w) \/ TakeNext(w) \/ HandlerSettles(w)
      BY <1>0, <2>1, <3>1 DEF ClaimBatch, TakeNext, HandlerSettles, LoopTypes
    <3>2. CASE NextIteration(w) \/ AbandonBatch(w)
      BY <1>0, <2>1, <3>2 DEF NextIteration, AbandonBatch, LoopTypes
    <3>3. QED
      BY <2>1, <3>1, <3>2 DEF RunOnce, RecordDelivery, RecordFailure, Crash
  <2>2. ASSUME (\E e \in Events : Enqueue(e)) \/ Tick \/ UNCHANGED vars
        PROVE  UNCHANGED <<pc[v], held[v], cur[v]>>
    BY <2>2 DEF Enqueue, Tick, vars, loopVars
  <2>3. RecordDelivery(v) \/ RecordFailure(v) \/ Crash(v)
          => NextIteration(v) \/ AbandonBatch(v)
    BY DEF RecordDelivery, RecordFailure, Crash
  <2>4. Shape'
    BY <1>3, <1>4, <1>5, <1>6, <1>7, <2>1, <2>2, <2>3 DEF Next, RunOnce
  <2>5. QED
    BY <2>4


\* Claims lock the rows they make PROCESSING, marks unlock the rows they settle.
LEMMA RowShapeStep == Core /\ [Next]_vars => RowShape'
<1> SUFFICES ASSUME Core, [Next]_vars
             PROVE  RowShape'
  OBVIOUS
<1>0. RowTypes /\ RowShape /\ LoopShape
  BY DEF Core, TypeOK
<1>1. CASE UNCHANGED <<status, lockedBy>>
  BY <1>0, <1>1 DEF RowShape
<1>2. ASSUME NEW e \in Events, Enqueue(e)
      PROVE  RowShape'
  BY <1>0, <1>2 DEF Enqueue, RowShape, RowTypes
<1>3. ASSUME NEW w \in Workers, ClaimBatch(w)
      PROVE  RowShape'
  BY <1>0, <1>3 DEF ClaimBatch, RowShape
<1>4. ASSUME NEW e \in Events, MarkDelivered(e) \/ \E r : MarkFailed(e, r)
      PROVE  RowShape'
  BY <1>0, <1>4, SetsAssumption
     DEF MarkDelivered, MarkFailed, ReleaseLease, RowShape, RowTypes
<1>5. QED
  <2>1. ASSUME NEW w \in Workers, RecordDelivery(w) \/ RecordFailure(w)
        PROVE  \/ UNCHANGED <<status, lockedBy>>
               \/ \E e \in Events : MarkDelivered(e) \/ \E r : MarkFailed(e, r)
    BY <1>0, <2>1 DEF RecordDelivery, RecordFailure, LoopShape, rowVars
  <2>2. ASSUME NEW w \in Workers, TakeNext(w) \/ HandlerSettles(w) \/ Crash(w)
        PROVE  UNCHANGED <<status, lockedBy>>
    BY <2>2 DEF TakeNext, HandlerSettles, Crash, rowVars
  <2>3. Tick \/ UNCHANGED vars => UNCHANGED <<status, lockedBy>>
    BY DEF Tick, vars
  <2>4. QED
    BY <1>1, <1>2, <1>3, <1>4, <2>1, <2>2, <2>3 DEF Next, RunOnce

\* Attempts grow only by recorded failures, and the last one dead-letters.
LEMMA AttemptsStep == Core /\ [Next]_vars => AttemptsAccounted'
<1> SUFFICES ASSUME Core, [Next]_vars
             PROVE  AttemptsAccounted'
  OBVIOUS
<1>0. RowTypes /\ LoopShape /\ AttemptsAccounted
  BY DEF Core, TypeOK
<1>1. CASE UNCHANGED <<status, attempts>>
  BY <1>0, <1>1 DEF AttemptsAccounted
<1>2. ASSUME NEW e \in Events, Enqueue(e)
      PROVE  AttemptsAccounted'
  BY <1>0, <1>2 DEF Enqueue, AttemptsAccounted, RowTypes
<1>3. ASSUME NEW w \in Workers, ClaimBatch(w)
      PROVE  AttemptsAccounted'
  BY <1>0, <1>3 DEF ClaimBatch, Batches, Claimable, AttemptsAccounted
<1>4. ASSUME NEW w \in Workers, RecordDelivery(w)
      PROVE  AttemptsAccounted'
  <2>1. cur[w] \in Events
    BY <1>0, <1>4 DEF RecordDelivery, LoopShape
  <2>2. QED
    BY <1>0, <1>4, <2>1
       DEF RecordDelivery, MarkDelivered, OwnsLease, rowVars, AttemptsAccounted, RowTypes
<1>5. ASSUME NEW w \in Workers, RecordFailure(w)
      PROVE  AttemptsAccounted'
  <2>1. cur[w] \in Events
    BY <1>0, <1>5 DEF RecordFailure, LoopShape
  <2>2. CASE outcome[w] # "blank" /\ OwnsLease(w, cur[w])
    <3>1. PICK r : MarkFailed(cur[w], r)
      BY <1>5, <2>2 DEF RecordFailure
    <3> DEFINE n == attempts[cur[w]]
    <3>2. n \in 0 .. MaxAttempts /\ n # MaxAttempts
      BY <1>0, <2>1, <2>2 DEF OwnsLease, AttemptsAccounted, RowTypes
    <3>3. n + 1 <= MaxAttempts /\ (n + 1 >= MaxAttempts <=> n + 1 = MaxAttempts)
      BY <3>2, NumbersAssumption
    <3>4. /\ attempts' = [attempts EXCEPT ![cur[w]] = n + 1]
          /\ status' = [status EXCEPT ![cur[w]] =
                          IF n + 1 = MaxAttempts THEN "DEAD_LETTER" ELSE "PENDING"]
      BY <3>1, <3>3 DEF MarkFailed
    <3> HIDE DEF n
    <3>5. QED
      BY <1>0, <2>1, <3>3, <3>4 DEF AttemptsAccounted, RowTypes
  <2>3. CASE ~(outcome[w] # "blank" /\ OwnsLease(w, cur[w]))
    BY <1>1, <1>5, <2>3 DEF RecordFailure, rowVars
  <2>4. QED
    BY <2>2, <2>3
<1>6. QED
  <2>1. ASSUME NEW w \in Workers, TakeNext(w) \/ HandlerSettles(w) \/ Crash(w)
        PROVE  UNCHANGED <<status, attempts>>
    BY <2>1 DEF TakeNext, HandlerSettles, Crash, rowVars
  <2>2. Tick \/ UNCHANGED vars => UNCHANGED <<status, attempts>>
    BY DEF Tick, vars
  <2>3. QED
    BY <1>1, <1>2, <1>3, <1>4, <1>5, <2>1, <2>2 DEF Next, RunOnce

\* The core is inductive.
LEMMA CoreStep == Core /\ [Next]_vars => Core'
<1> SUFFICES ASSUME Core, [Next]_vars
             PROVE  Core'
  OBVIOUS
<1>1. /\ succeeded' \subseteq Events
      /\ crashes' \in 0 .. MaxCrashes
      /\ overruns' \in 0 .. MaxOverruns
  <2>0. succeeded \subseteq Events /\ crashes \in 0 .. MaxCrashes
        /\ overruns \in 0 .. MaxOverruns /\ LoopShape
    BY DEF Core, TypeOK
  <2>1. ASSUME NEW w \in Workers, HandlerSettles(w)
        PROVE  succeeded' \subseteq Events /\ UNCHANGED <<crashes, overruns>>
    BY <2>0, <2>1 DEF HandlerSettles, LoopShape
  <2>2. ASSUME NEW w \in Workers, Crash(w)
        PROVE  UNCHANGED <<succeeded, overruns>> /\ crashes' \in 0 .. MaxCrashes
    BY <2>0, <2>2, NumbersAssumption DEF Crash
  <2>3. ASSUME Tick
        PROVE  UNCHANGED <<succeeded, crashes>> /\ overruns' \in 0 .. MaxOverruns
    BY <2>0, <2>3, NumbersAssumption DEF Tick
  <2>4. ASSUME NEW w \in Workers,
               ClaimBatch(w) \/ TakeNext(w) \/ RecordDelivery(w) \/ RecordFailure(w)
        PROVE  UNCHANGED <<succeeded, crashes, overruns>>
    BY <2>4 DEF ClaimBatch, TakeNext, RecordDelivery, RecordFailure
  <2>5. ASSUME (\E e \in Events : Enqueue(e)) \/ UNCHANGED vars
        PROVE  UNCHANGED <<succeeded, crashes, overruns>>
    BY <2>5 DEF Enqueue, vars
  <2>6. QED
    BY <2>0, <2>1, <2>2, <2>3, <2>4, <2>5 DEF Next, RunOnce
<1>2. QED
  BY <1>1, RowTypesStep, LoopTypesStep, LoopShapeStep, RowShapeStep, AttemptsStep
     DEF Core, TypeOK

\* The core holds in every reachable state.
LEMMA CoreInvariant == Spec => []Core
BY InitCore, CoreStep, PTL DEF Spec

\* Type correctness of the table and of every dispatcher's memory.
THEOREM TypeCorrect == Spec => []TypeOK
BY CoreInvariant, PTL DEF Core

\* Retries are bounded: a row is a dead letter exactly when it has used up its
\* attempts, whichever dispatchers recorded them.
THEOREM AttemptsBounded == Spec => []AttemptsAccounted
BY CoreInvariant, PTL DEF Core

-------------------------------------------------------------------------------
(* What an owner remembers, and the backoff it computes from it. *)

\* Only a new claim makes a dispatcher an owner, and it reads the row then.
LEMMA OwnerIsCurrentStep ==
    Core /\ OwnerIsCurrent /\ [Next]_vars => OwnerIsCurrent'
<1> SUFFICES ASSUME Core, OwnerIsCurrent, [Next]_vars,
                    NEW v \in Workers, NEW f \in Events
             PROVE  f \in InHand(v)' /\ lockedBy'[f] = v => seen'[v][f] = attempts'[f]
  BY DEF OwnerIsCurrent
<1> DEFINE Current == f \in InHand(v) /\ lockedBy[f] = v => seen[v][f] = attempts[f]
<1>0. RowTypes /\ LoopTypes /\ LoopShape /\ Current
  BY DEF Core, TypeOK, OwnerIsCurrent
<1>1. ASSUME /\ f \in InHand(v)' => f \in InHand(v)
             /\ UNCHANGED <<lockedBy, seen, attempts>>
      PROVE  Current'
  BY <1>0, <1>1
<1>2. ASSUME NEW w \in Workers, ClaimBatch(w)
      PROVE  Current'
  <2>1. PICK S \in Batches :
             /\ lockedBy' = [e \in Events |-> IF e \in S THEN w ELSE lockedBy[e]]
             /\ held' = [held EXCEPT ![w] = S]
             /\ seen' = [seen EXCEPT ![w] = attempts]
    BY <1>2 DEF ClaimBatch
  <2>2. attempts' = attempts /\ cur' = cur
    BY <1>2 DEF ClaimBatch
  <2>3. CASE w = v
    BY <1>0, <2>1, <2>2, <2>3 DEF LoopTypes
  <2>4. CASE w # v
    <3>1. lockedBy'[f] = v => lockedBy[f] = v
      BY <2>1, <2>4
    <3>2. InHand(v)' = InHand(v) /\ seen'[v] = seen[v]
      BY <1>0, <2>1, <2>2, <2>4 DEF InHand, LoopTypes
    <3>3. QED
      BY <1>0, <2>2, <3>1, <3>2
  <2>5. QED
    BY <2>3, <2>4
<1>3. ASSUME NEW w \in Workers, TakeNext(w) \/ HandlerSettles(w) \/ Crash(w)
      PROVE  Current'
  <2>1. UNCHANGED <<lockedBy, seen, attempts>>
    BY <1>3 DEF TakeNext, HandlerSettles, Crash, rowVars
  <2>2. InHand(v)' \subseteq InHand(v)
    <3>1. CASE HandlerSettles(w)
      BY <3>1 DEF HandlerSettles, InHand
    <3>2. CASE Crash(w)
      BY <1>0, <3>2 DEF Crash, AbandonBatch, InHand, LoopTypes
    <3>3. CASE TakeNext(w)
      <4>1. PICK e \in held[w] : /\ cur' = [cur EXCEPT ![w] = e]
                                 /\ held' = [held EXCEPT ![w] = @ \ {e}]
        BY <3>3 DEF TakeNext
      <4>2. QED
        BY <1>0, <4>1 DEF InHand, LoopTypes
    <3>4. QED
      BY <1>3, <3>1, <3>2, <3>3
  <2>3. QED
    BY <1>1, <2>1, <2>2
<1>4. ASSUME NEW w \in Workers, RecordDelivery(w) \/ RecordFailure(w)
      PROVE  Current'
  <2>1. /\ cur[w] \in Events
        /\ UNCHANGED seen
        /\ NextIteration(w) \/ AbandonBatch(w)
        /\ UNCHANGED rowVars \/ MarkDelivered(cur[w]) \/ \E r : MarkFailed(cur[w], r)
    BY <1>0, <1>4 DEF RecordDelivery, RecordFailure, LoopShape
  <2>2. InHand(v)' \subseteq InHand(v)
    BY <1>0, <2>1 DEF NextIteration, AbandonBatch, InHand, LoopTypes
  <2>3. CASE UNCHANGED rowVars
    BY <1>1, <2>1, <2>2, <2>3 DEF rowVars
  <2>4. CASE MarkDelivered(cur[w]) \/ \E r : MarkFailed(cur[w], r)
    <3>1. f # cur[w] => attempts'[f] = attempts[f] /\ lockedBy'[f] = lockedBy[f]
      BY <1>0, <2>1, <2>4 DEF MarkDelivered, MarkFailed, ReleaseLease, RowTypes
    <3>2. f = cur[w] => lockedBy'[f] = NoWorker
      BY <1>0, <2>1, <2>4 DEF MarkDelivered, MarkFailed, ReleaseLease, RowTypes
    <3>3. QED
      BY <1>0, <2>1, <2>2, <3>1, <3>2, SetsAssumption
  <2>5. QED
    BY <2>1, <2>3, <2>4
<1>5. ASSUME (\E e \in Events : Enqueue(e)) \/ Tick \/ UNCHANGED vars
      PROVE  Current'
  BY <1>1, <1>5 DEF Enqueue, Tick, vars, loopVars, InHand
<1>6. Current'
  BY <1>2, <1>3, <1>4, <1>5 DEF Next, RunOnce
<1>7. QED
  BY <1>6

\* What an owner remembers is current in every reachable state.
LEMMA OwnerIsCurrentInvariant == Spec => []OwnerIsCurrent
<1>1. Init => OwnerIsCurrent
  BY DEF Init, OwnerIsCurrent, InHand
<1>2. QED
  BY <1>1, OwnerIsCurrentStep, CoreInvariant, PTL DEF Spec

\* The recorded retry time is the backoff of the recorded attempt, although it
\* was computed from what the dispatcher read when it claimed the row.
THEOREM BackoffIsCurrent == Spec => BackoffMatchesAttempts
<1> DEFINE Backoff ==
      \A e \in Events : attempts'[e] = attempts[e] + 1 /\ status'[e] = "PENDING"
                            => wait'[e] = RetryDelay(attempts'[e])
<1>1. Core /\ OwnerIsCurrent /\ [Next]_vars => [Backoff]_vars
  <2> SUFFICES ASSUME Core, OwnerIsCurrent, Next
               PROVE  Backoff
    OBVIOUS
  <2>0. RowTypes /\ LoopShape /\ LoopTypes /\ AttemptsAccounted
    BY DEF Core, TypeOK
  <2>1. ASSUME NEW w \in Workers, RecordFailure(w),
               outcome[w] # "blank" /\ OwnsLease(w, cur[w])
        PROVE  Backoff
    <3> DEFINE c == cur[w]
               d == seen[w][c] + 1
    <3>1. c \in Events /\ c \in InHand(w)
      BY <2>0, <2>1, SetsAssumption DEF RecordFailure, LoopShape, InHand
    <3>2. seen[w][c] = attempts[c]
      BY <2>1, <3>1 DEF OwnsLease, OwnerIsCurrent
    <3>3. MarkFailed(c, RetryDelay(d))
      BY <2>1 DEF RecordFailure
    <3>4. attempts[c] \in 0 .. MaxAttempts
      BY <2>0, <3>1 DEF RowTypes
    <3>5. attempts'[c] = d
      BY <2>0, <3>1, <3>2, <3>3 DEF MarkFailed, RowTypes
    <3>6. status'[c] = "PENDING" => wait'[c] = RetryDelay(d)
      BY <2>0, <3>1, <3>3 DEF MarkFailed, RowTypes
    <3>7. \A e \in Events : e # c => attempts'[e] = attempts[e]
      BY <2>0, <3>1, <3>3 DEF MarkFailed, RowTypes
    <3>8. \A e \in Events : attempts[e] # attempts[e] + 1
      BY <2>0, NumbersAssumption DEF RowTypes
    <3> HIDE DEF c, d
    <3>9. QED
      BY <3>5, <3>6, <3>7, <3>8
  <2>2. ASSUME UNCHANGED attempts
        PROVE  Backoff
    <3>1. \A e \in Events : attempts[e] # attempts[e] + 1
      BY <2>0, NumbersAssumption DEF RowTypes
    <3>2. QED
      BY <2>2, <3>1
  <2>3. ASSUME NEW w \in Workers, RunOnce(w) \/ Crash(w)
        PROVE  \/ UNCHANGED attempts
               \/ RecordFailure(w) /\ outcome[w] # "blank" /\ OwnsLease(w, cur[w])
    BY <2>3 DEF RunOnce, Crash, ClaimBatch, TakeNext, HandlerSettles, RecordDelivery,
                RecordFailure, MarkDelivered, rowVars
  <2>4. (\E e \in Events : Enqueue(e)) \/ Tick => UNCHANGED attempts
    BY DEF Enqueue, Tick
  <2>5. QED
    BY <2>1, <2>2, <2>3, <2>4 DEF Next
<1>2. QED
  BY <1>1, CoreInvariant, OwnerIsCurrentInvariant, PTL DEF Spec, BackoffMatchesAttempts

-------------------------------------------------------------------------------
(* Delivery.  A rejection with a falsy value is taken for a success, so what  *)
(* follows assumes RejectionsAreTruthy.                                       *)

\* A dispatcher that is about to record a delivery saw its handler return.
LEMMA RecordingShapeStep ==
    ASSUME RejectionsAreTruthy
    PROVE  Core /\ RecordingShape /\ [Next]_vars => RecordingShape'
<1> SUFFICES ASSUME Core, RecordingShape, [Next]_vars, NEW v \in Workers
             PROVE  /\ outcome'[v] # "falsy"
                    /\ pc'[v] = "recording" /\ outcome'[v] = "ok" => cur'[v] \in succeeded'
  BY DEF RecordingShape
<1> DEFINE Shape == /\ outcome[v] # "falsy"
                    /\ pc[v] = "recording" /\ outcome[v] = "ok" => cur[v] \in succeeded
<1>0. LoopTypes /\ Shape
  BY DEF Core, TypeOK, RecordingShape
<1>1. succeeded \subseteq succeeded'
  BY DEF Next, RunOnce, vars, Enqueue, ClaimBatch, TakeNext, HandlerSettles,
         RecordDelivery, RecordFailure, Crash, Tick
<1>2. ASSUME outcome'[v] = outcome[v],
             \/ pc'[v] # "recording"
             \/ pc'[v] = pc[v] /\ cur'[v] = cur[v]
      PROVE  Shape'
  BY <1>0, <1>1, <1>2
<1>3. ASSUME NEW w \in Workers, ClaimBatch(w)
      PROVE  Shape'
  BY <1>0, <1>2, <1>3 DEF ClaimBatch, LoopTypes
<1>4. ASSUME NEW w \in Workers, TakeNext(w)
      PROVE  Shape'
  BY <1>0, <1>2, <1>4 DEF TakeNext, LoopTypes
<1>5. ASSUME NEW w \in Workers, HandlerSettles(w)
      PROVE  Shape'
  <2>1. PICK o \in HandlerOutcomes :
             /\ outcome' = [outcome EXCEPT ![w] = o]
             /\ succeeded' = IF o = "ok" THEN succeeded \cup {cur[w]} ELSE succeeded
    BY <1>5 DEF HandlerSettles
  <2>2. o # "falsy"
    BY DEF RejectionsAreTruthy
  <2>3. cur' = cur /\ pc' = [pc EXCEPT ![w] = "recording"]
    BY <1>5 DEF HandlerSettles
  <2>4. CASE w = v
    BY <1>0, <2>1, <2>2, <2>3, <2>4 DEF LoopTypes
  <2>5. CASE w # v
    BY <1>0, <1>2, <2>1, <2>3, <2>5 DEF LoopTypes
  <2>6. QED
    BY <2>4, <2>5
<1>6. ASSUME NEW w \in Workers, RecordDelivery(w) \/ RecordFailure(w) \/ Crash(w)
      PROVE  Shape'
  <2>1. (NextIteration(w) \/ AbandonBatch(w)) /\ UNCHANGED outcome
    BY <1>6 DEF RecordDelivery, RecordFailure, Crash
  <2>2. pc'[v] # "recording" \/ (pc'[v] = pc[v] /\ cur'[v] = cur[v])
    BY <1>0, <2>1 DEF NextIteration, AbandonBatch, LoopTypes
  <2>3. QED
    BY <1>2, <2>1, <2>2
<1>7. ASSUME (\E e \in Events : Enqueue(e)) \/ Tick \/ UNCHANGED vars
      PROVE  Shape'
  BY <1>2, <1>7 DEF Enqueue, Tick, vars, loopVars
<1>8. Shape'
  BY <1>3, <1>4, <1>5, <1>6, <1>7 DEF Next, RunOnce
<1>9. QED
  BY <1>8

\* The same in every reachable state.
LEMMA RecordingShapeInvariant ==
    ASSUME RejectionsAreTruthy
    PROVE  Spec => []RecordingShape
<1>1. Init => RecordingShape
  BY DEF Init, RecordingShape
<1>2. Core /\ RecordingShape /\ [Next]_vars => RecordingShape'
  BY RecordingShapeStep
<1>3. QED
  BY <1>1, <1>2, CoreInvariant, PTL DEF Spec

\* At least once: no event is DELIVERED before a handler returned for it.
THEOREM DeliveredMeansHandled ==
    ASSUME RejectionsAreTruthy
    PROVE  Spec => []DeliveredOnlyAfterSuccess
<1>1. Init => DeliveredOnlyAfterSuccess
  BY DEF Init, DeliveredOnlyAfterSuccess
<1>2. Core /\ RecordingShape /\ DeliveredOnlyAfterSuccess /\ [Next]_vars
        => DeliveredOnlyAfterSuccess'
  <2> SUFFICES ASSUME Core, RecordingShape, DeliveredOnlyAfterSuccess, [Next]_vars,
                      NEW e \in Events, status'[e] = "DELIVERED"
               PROVE  e \in succeeded'
    BY DEF DeliveredOnlyAfterSuccess
  <2>0. RowTypes /\ LoopShape /\ (status[e] = "DELIVERED" => e \in succeeded)
    BY DEF Core, TypeOK, DeliveredOnlyAfterSuccess
  <2>1. succeeded \subseteq succeeded'
    BY DEF Next, RunOnce, vars, Enqueue, ClaimBatch, TakeNext, HandlerSettles,
           RecordDelivery, RecordFailure, Crash, Tick
  <2>2. ASSUME NEW f \in Events, Enqueue(f)
        PROVE  status[e] = "DELIVERED"
    BY <2>0, <2>2 DEF Enqueue, RowTypes
  <2>3. ASSUME NEW w \in Workers, ClaimBatch(w)
        PROVE  status[e] = "DELIVERED"
    BY <2>0, <2>3 DEF ClaimBatch
  <2>4. ASSUME NEW w \in Workers, RecordFailure(w)
        PROVE  status[e] = "DELIVERED"
    BY <2>0, <2>4 DEF RecordFailure, MarkFailed, rowVars, RowTypes
  <2>5. ASSUME NEW w \in Workers, RecordDelivery(w)
        PROVE  status[e] = "DELIVERED" \/ e \in succeeded
    <3>1. cur[w] \in succeeded
      BY <2>5 DEF RecordDelivery, NoDeliveryError, RecordingShape
    <3>2. e # cur[w] => status[e] = "DELIVERED"
      BY <2>0, <2>5 DEF RecordDelivery, MarkDelivered, rowVars, RowTypes
    <3>3. QED
      BY <3>1, <3>2
  <2>6. ASSUME NEW w \in Workers, TakeNext(w) \/ HandlerSettles(w) \/ Crash(w)
        PROVE  status[e] = "DELIVERED"
    BY <2>6 DEF TakeNext, HandlerSettles, Crash, rowVars
  <2>7. Tick \/ UNCHANGED vars => status[e] = "DELIVERED"
    BY DEF Tick, vars
  <2>8. QED
    BY <2>0, <2>1, <2>2, <2>3, <2>4, <2>5, <2>6, <2>7 DEF Next, RunOnce
<1>3. Spec => []RecordingShape
  BY RecordingShapeInvariant
<1>4. QED
  BY <1>1, <1>2, <1>3, CoreInvariant, PTL DEF Spec

\* The outbox implements its contract.
THEOREM OutboxImplementsContract ==
    ASSUME RejectionsAreTruthy
    PROVE  Spec => ImplementsContract
<1> DEFINE Fate(st, e) == IF st[e] \in {"PENDING", "PROCESSING"} THEN "owed" ELSE st[e]
           fate == [e \in Events |-> Fate(status, e)]
<1>1. Init => Contract!Init
  BY DEF Init, Contract!Init
<1>2. Core /\ RecordingShape /\ [Next]_vars => [Contract!Next]_Contract!contractVars
  <2> SUFFICES ASSUME Core, RecordingShape, [Next]_vars
               PROVE  \/ Contract!Next
                      \/ fate' = fate /\ UNCHANGED <<attempts, succeeded>>
    BY DEF Contract!contractVars
  <2>0. RowTypes /\ LoopShape /\ LoopTypes /\ AttemptsAccounted
    BY DEF Core, TypeOK
  <2>1. ASSUME NEW e \in Events, Enqueue(e)
        PROVE  Contract!Next \/ (fate' = fate /\ UNCHANGED <<attempts, succeeded>>)
    <3>1. CASE status[e] = "absent"
      <4>1. Contract!Owe(e)
        BY <2>0, <2>1, <3>1 DEF Enqueue, Contract!Owe, RowTypes
      <4>2. QED
        BY <4>1 DEF Contract!Next
    <3>2. CASE status[e] # "absent"
      BY <2>0, <2>1, <3>2 DEF Enqueue, RowTypes
    <3>3. QED
      BY <3>1, <3>2
  <2>2. ASSUME NEW w \in Workers, ClaimBatch(w)
        PROVE  fate' = fate /\ UNCHANGED <<attempts, succeeded>>
    <3>1. \A e \in Events : status'[e] # status[e]
              => {status[e], status'[e]} \subseteq {"PENDING", "PROCESSING"}
      BY <2>0, <2>2 DEF ClaimBatch, Batches, Claimable
    <3>2. QED
      BY <2>2, <3>1 DEF ClaimBatch
  <2>3. ASSUME NEW w \in Workers, HandlerSettles(w)
        PROVE  Contract!Next \/ (fate' = fate /\ UNCHANGED <<attempts, succeeded>>)
    <3>1. PICK c \in Events : c = cur[w] /\ status[c] # "absent"
      BY <2>0, <2>3, SetsAssumption DEF HandlerSettles, LoopShape, InHand
    <3>2. UNCHANGED rowVars /\ (succeeded' = succeeded \/ succeeded' = succeeded \cup {c})
      BY <2>3, <3>1 DEF HandlerSettles
    <3>3. CASE succeeded' = succeeded
      BY <3>2, <3>3 DEF rowVars
    <3>4. CASE succeeded' = succeeded \cup {c}
      <4>1. Contract!Succeed(c)
        BY <3>1, <3>2, <3>4 DEF Contract!Succeed, rowVars
      <4>2. QED
        BY <4>1 DEF Contract!Next
    <3>5. QED
      BY <3>2, <3>3, <3>4
  <2>4. ASSUME NEW w \in Workers, RecordDelivery(w)
        PROVE  Contract!Next \/ (fate' = fate /\ UNCHANGED <<attempts, succeeded>>)
    <3>1. PICK c \in Events : c = cur[w] /\ c \in succeeded
      BY <2>0, <2>4 DEF RecordDelivery, NoDeliveryError, RecordingShape, LoopShape
    <3>2. CASE OwnsLease(w, cur[w])
      <4>1. /\ status[c] = "PROCESSING"
            /\ status' = [status EXCEPT ![c] = "DELIVERED"]
            /\ UNCHANGED <<attempts, succeeded>>
        BY <2>4, <3>1, <3>2 DEF RecordDelivery, MarkDelivered, OwnsLease
      <4>2. Contract!Settle(c)
        BY <2>0, <3>1, <4>1 DEF Contract!Settle, RowTypes
      <4>3. QED
        BY <4>2 DEF Contract!Next
    <3>3. CASE ~OwnsLease(w, cur[w])
      BY <2>4, <3>3 DEF RecordDelivery, rowVars
    <3>4. QED
      BY <3>2, <3>3
  <2>5. ASSUME NEW w \in Workers, RecordFailure(w)
        PROVE  Contract!Next \/ (fate' = fate /\ UNCHANGED <<attempts, succeeded>>)
    <3>1. PICK c \in Events : c = cur[w]
      BY <2>0, <2>5 DEF RecordFailure, LoopShape
    <3>2. CASE outcome[w] # "blank" /\ OwnsLease(w, cur[w])
      <4>1. PICK r : MarkFailed(c, r)
        BY <2>5, <3>1, <3>2 DEF RecordFailure
      <4>2. status[c] = "PROCESSING" /\ succeeded' = succeeded
        BY <2>5, <3>1, <3>2 DEF OwnsLease, RecordFailure
      <4>3. attempts[c] \in 0 .. MaxAttempts /\ attempts[c] # MaxAttempts
        BY <2>0, <4>2 DEF AttemptsAccounted, RowTypes
      <4>4. attempts[c] + 1 >= MaxAttempts <=> attempts[c] + 1 = MaxAttempts
        BY <4>3, NumbersAssumption
      <4>5. /\ attempts' = [attempts EXCEPT ![c] = attempts[c] + 1]
            /\ status' = [status EXCEPT ![c] =
                            IF attempts[c] + 1 = MaxAttempts THEN "DEAD_LETTER" ELSE "PENDING"]
        BY <4>1, <4>4 DEF MarkFailed
      <4>6. Contract!Fail(c)
        BY <2>0, <4>2, <4>5 DEF Contract!Fail, RowTypes
      <4>7. QED
        BY <4>6 DEF Contract!Next
    <3>3. CASE ~(outcome[w] # "blank" /\ OwnsLease(w, cur[w]))
      BY <2>5, <3>3 DEF RecordFailure, rowVars
    <3>4. QED
      BY <3>2, <3>3
  <2>6. ASSUME NEW w \in Workers, TakeNext(w) \/ Crash(w)
        PROVE  fate' = fate /\ UNCHANGED <<attempts, succeeded>>
    BY <2>6 DEF TakeNext, Crash, rowVars
  <2>7. Tick \/ UNCHANGED vars => fate' = fate /\ UNCHANGED <<attempts, succeeded>>
    BY DEF Tick, vars
  <2>8. QED
    <3> HIDE DEF fate
    <3>1. QED
      BY <2>1, <2>2, <2>3, <2>4, <2>5, <2>6, <2>7 DEF Next, RunOnce
<1>3. Spec => []RecordingShape
  BY RecordingShapeInvariant
<1>4. QED
  BY <1>1, <1>2, <1>3, CoreInvariant, PTL DEF Spec, ImplementsContract, Contract!Spec

===============================================================================
