---------------------------- MODULE RefundsProofs -----------------------------
(***************************************************************************)
(* Theorems about Refunds for every set of payments, requests, actors and   *)
(* concurrent transactions, and all amounts, and about PaymentsPage, whose  *)
(* service it is, for every set of assessments.                             *)
(***************************************************************************)
EXTENDS Refunds, PaymentsPage, FiniteSetTheorems, TLAPS

(* Sums of amounts.  A sum over a finite set is the fold of the community modules,
   a recursive function: what it computes is shown by induction over its subsets. *)

\* Induction over the subsets of a finite set: what holds of a set whenever it
\* holds of its proper subsets holds of all.
LEMMA SubsetInduction ==
    ASSUME NEW S, IsFiniteSet(S), NEW good,
           \A T \in SUBSET S : (\A U \in SUBSET T : U # T => U \in good) => T \in good
    PROVE  S \in good
<1> DEFINE bad == FiniteSubsetsOf(S) \ good
<1>1. ASSUME bad # {}
      PROVE  FALSE
  <2>1. PICK T \in bad : \A U \in bad : <<U, T>> \notin StrictSubsetOrdering(S)
    <3>1. bad \subseteq FiniteSubsetsOf(S)
      OBVIOUS
    <3>2. IsWellFoundedOn(StrictSubsetOrdering(S), FiniteSubsetsOf(S))
      BY FS_StrictSubsetOrderingWellFounded
    <3> HIDE DEF bad
    <3> QED
      BY <1>1, <3>1, <3>2, WFMin
  <2>2. T \in SUBSET S /\ IsFiniteSet(T) /\ T \notin good
    BY DEF FiniteSubsetsOf
  <2>3. ASSUME NEW U \in SUBSET T, U # T
        PROVE  U \in good
    <3>1. <<U, T>> \in StrictSubsetOrdering(S)
      BY <2>2, <2>3 DEF StrictSubsetOrdering
    <3>2. U \in FiniteSubsetsOf(S)
      BY <2>2, FS_Subset DEF FiniteSubsetsOf
    <3> QED
      BY <2>1, <3>1, <3>2
  <2> QED
    BY <2>2, <2>3
<1>2. S \in FiniteSubsetsOf(S)
  BY DEF FiniteSubsetsOf
<1> QED
  BY <1>1, <1>2

\* The recursion behind a sum, over the subsets of S.
Pick(T) == CHOOSE r \in T : TRUE

Rest(T) == T \ {Pick(T)}

IsSum(g, S) ==
    g = [T \in SUBSET S |-> IF T = {} THEN 0 ELSE RefundAmount[Pick(T)] + g[Rest(T)]]

LEMMA TotalIsASum ==
    ASSUME NEW S
    PROVE  Total(S) = (CHOOSE g : IsSum(g, S))[S]
BY DEF Total, MapThenSumSet, MapThenFoldSet, IsSum, Pick, Rest

LEMMA RestIsSmaller ==
    ASSUME NEW T, T # {}
    PROVE  Pick(T) \in T /\ Rest(T) \subseteq T /\ Rest(T) # T
BY DEF Pick, Rest

\* Two solutions of the recursion agree wherever both are defined.
LEMMA SumsAgree ==
    ASSUME NEW S, NEW T, NEW g, NEW h, IsSum(g, S), IsSum(h, T),
           NEW U, U \subseteq S, U \subseteq T, IsFiniteSet(U)
    PROVE  g[U] = h[U]
<1> DEFINE good == {V \in SUBSET U : g[V] = h[V]}
<1>1. ASSUME NEW V \in SUBSET U, \A W \in SUBSET V : W # V => W \in good
      PROVE  g[V] = h[V]
  <2>1. CASE V = {}
    BY <2>1 DEF IsSum
  <2>2. CASE V # {}
    <3>1. /\ g[V] = RefundAmount[Pick(V)] + g[Rest(V)]
          /\ h[V] = RefundAmount[Pick(V)] + h[Rest(V)]
      BY <2>2 DEF IsSum
    <3>2. Rest(V) \in good
      BY <1>1, <2>2, RestIsSmaller
    <3> QED
      BY <3>1, <3>2
  <2> QED
    BY <2>1, <2>2
<1>2. \A V \in SUBSET U : (\A W \in SUBSET V : W # V => W \in good) => V \in good
  BY <1>1
<1>3. U \in good
  <2> HIDE DEF good
  <2> QED
    BY <1>2, SubsetInduction
<1> QED
  BY <1>3

\* It has a solution, glued from the solutions of the proper subsets.
LEMMA SumsExist ==
    ASSUME NEW S, IsFiniteSet(S)
    PROVE  \E g : IsSum(g, S)
<1> DEFINE good == {T \in SUBSET S : \E g : IsSum(g, T)}
<1>1. ASSUME NEW M \in SUBSET S, \A U \in SUBSET M : U # M => U \in good
      PROVE  M \in good
  <2> DEFINE sum(U) == CHOOSE g : IsSum(g, U)
             g == [U \in SUBSET M |->
                     IF U = {} THEN 0 ELSE RefundAmount[Pick(U)] + sum(Rest(U))[Rest(U)]]
  <2>1. ASSUME NEW U \in SUBSET M, U # M
        PROVE  IsSum(sum(U), U) /\ IsFiniteSet(U)
    <3>1. \E f : IsSum(f, U)
      BY <1>1, <2>1
    <3> QED
      BY <3>1, FS_Subset
  <2>2. ASSUME NEW U \in SUBSET M, U # M
        PROVE  g[U] = sum(U)[U]
    <3>1. IsSum(sum(U), U)
      BY <2>1, <2>2
    <3>2. CASE U = {}
      <4> HIDE DEF sum
      <4> QED
        BY <3>1, <3>2 DEF IsSum
    <3>3. CASE U # {}
      <4>1. Rest(U) \subseteq U /\ Rest(U) \in SUBSET M /\ Rest(U) # M
        BY <2>2, <3>3, RestIsSmaller
      <4>2. IsSum(sum(Rest(U)), Rest(U)) /\ IsFiniteSet(Rest(U))
        BY <2>1, <4>1
      <4> HIDE DEF sum
      <4>3. sum(U)[Rest(U)] = sum(Rest(U))[Rest(U)]
        BY <3>1, <4>1, <4>2, SumsAgree
      <4>4. sum(U)[U] = RefundAmount[Pick(U)] + sum(U)[Rest(U)]
        BY <3>1, <3>3 DEF IsSum
      <4> QED
        BY <3>3, <4>3, <4>4
    <3> QED
      BY <3>2, <3>3
  <2>3. ASSUME NEW U \in SUBSET M
        PROVE  g[U] = IF U = {} THEN 0 ELSE RefundAmount[Pick(U)] + g[Rest(U)]
    <3>1. CASE U # {}
      <4>1. Rest(U) \in SUBSET M /\ Rest(U) # M
        BY <3>1, RestIsSmaller
      <4>2. g[Rest(U)] = sum(Rest(U))[Rest(U)]
        BY <2>2, <4>1
      <4> QED
        BY <3>1, <4>2
    <3> QED
      BY <3>1
  <2>4. IsSum(g, M)
    <3>1. g = [U \in SUBSET M |-> g[U]]
      OBVIOUS
    <3> HIDE DEF g
    <3> QED
      BY <2>3, <3>1 DEF IsSum
  <2> QED
    BY <2>4
<1>2. S \in good
  <2> HIDE DEF good
  <2> QED
    BY <1>1, SubsetInduction
<1> QED
  BY <1>2

LEMMA TotalStep ==
    ASSUME NEW S, IsFiniteSet(S)
    PROVE  Total(S) = IF S = {} THEN 0 ELSE RefundAmount[Pick(S)] + Total(Rest(S))
<1> DEFINE sum(U) == CHOOSE g : IsSum(g, U)
<1>1. IsSum(sum(S), S)
  BY SumsExist
<1>2. Total(S) = sum(S)[S]
  BY TotalIsASum
<1>3. CASE S = {}
  <2> HIDE DEF sum
  <2> QED
    BY <1>1, <1>2, <1>3 DEF IsSum
<1>4. CASE S # {}
  <2>1. Rest(S) \subseteq S /\ IsFiniteSet(Rest(S))
    BY <1>4, RestIsSmaller, FS_Subset
  <2>2. IsSum(sum(Rest(S)), Rest(S)) /\ Total(Rest(S)) = sum(Rest(S))[Rest(S)]
    BY <2>1, SumsExist, TotalIsASum
  <2> HIDE DEF sum
  <2>3. sum(S)[Rest(S)] = sum(Rest(S))[Rest(S)]
    BY <1>1, <2>1, <2>2, SumsAgree
  <2>4. sum(S)[S] = RefundAmount[Pick(S)] + sum(S)[Rest(S)]
    BY <1>1, <1>4 DEF IsSum
  <2> QED
    BY <1>2, <1>4, <2>2, <2>3, <2>4
<1> QED
  BY <1>3, <1>4

LEMMA TotalOfNone == Total({}) = 0
BY TotalStep, FS_EmptySet

LEMMA TotalIsNat ==
    ASSUME NEW S \in SUBSET Refunds, IsFiniteSet(S)
    PROVE  Total(S) \in Nat
<1> DEFINE good == {T \in SUBSET S : Total(T) \in Nat}
<1>1. ASSUME NEW T \in SUBSET S, \A U \in SUBSET T : U # T => U \in good
      PROVE  Total(T) \in Nat
  <2>1. CASE T = {}
    BY <2>1, TotalOfNone
  <2>2. CASE T # {}
    <3>1. Total(T) = RefundAmount[Pick(T)] + Total(Rest(T))
      BY <2>2, TotalStep, FS_Subset
    <3>2. Pick(T) \in Refunds /\ Total(Rest(T)) \in Nat
      BY <1>1, <2>2, RestIsSmaller
    <3> QED
      BY <3>1, <3>2, AmountsAssumption
  <2> QED
    BY <2>1, <2>2
<1>2. \A T \in SUBSET S : (\A U \in SUBSET T : U # T => U \in good) => T \in good
  BY <1>1
<1>3. S \in good
  <2> HIDE DEF good
  <2> QED
    BY <1>2, SubsetInduction
<1> QED
  BY <1>3

\* The order in which a sum is taken does not matter.
LEMMA TotalWithout ==
    ASSUME NEW S \in SUBSET Refunds, IsFiniteSet(S), NEW r \in S
    PROVE  Total(S) = RefundAmount[r] + Total(S \ {r})
<1> DEFINE good == {T \in SUBSET S :
                      \A q \in T : Total(T) = RefundAmount[q] + Total(T \ {q})}
<1>1. ASSUME NEW T \in SUBSET S, \A U \in SUBSET T : U # T => U \in good, NEW q \in T
      PROVE  Total(T) = RefundAmount[q] + Total(T \ {q})
  <2> DEFINE p == Pick(T)
  <2>1. p \in T /\ Total(T) = RefundAmount[p] + Total(T \ {p})
    <3>1. IsFiniteSet(T) /\ T # {}
      BY FS_Subset
    <3> QED
      BY <3>1, TotalStep, RestIsSmaller DEF Rest
  <2> HIDE DEF p
  <2>2. CASE p # q
    <3>1. T \ {p} \in good /\ T \ {q} \in good
      BY <1>1, <2>1
    <3> DEFINE others == Total(T \ {p, q})
    <3>2. T \ {p, q} = (T \ {p}) \ {q} /\ T \ {p, q} = (T \ {q}) \ {p}
      OBVIOUS
    <3>3. /\ Total(T \ {p}) = RefundAmount[q] + others
          /\ Total(T \ {q}) = RefundAmount[p] + others
      BY <2>1, <2>2, <3>1, <3>2
    <3>4. RefundAmount[p] \in Nat /\ RefundAmount[q] \in Nat /\ others \in Nat
      <4>1. IsFiniteSet(T \ {p, q})
        BY FS_Subset
      <4> QED
        BY <2>1, <4>1, TotalIsNat, AmountsAssumption
    <3> HIDE DEF others
    <3> QED
      BY <2>1, <3>3, <3>4
  <2> QED
    BY <2>1, <2>2
<1>2. \A T \in SUBSET S : (\A U \in SUBSET T : U # T => U \in good) => T \in good
  BY <1>1
<1>3. S \in good
  <2> HIDE DEF good
  <2> QED
    BY <1>2, SubsetInduction
<1> QED
  BY <1>3

\* What a sum comes to when a request joins it.
LEMMA TotalWith ==
    ASSUME NEW S \in SUBSET Refunds, IsFiniteSet(S), NEW r \in Refunds, r \notin S
    PROVE  Total(S \cup {r}) = Total(S) + RefundAmount[r]
<1>1. IsFiniteSet(S \cup {r}) /\ (S \cup {r}) \ {r} = S
  BY FS_AddElement
<1> QED
  BY <1>1, TotalWithout, TotalIsNat, AmountsAssumption

-------------------------------------------------------------------------------
(* The invariant. *)

Asking(t) == pc[t] \in {"requesting", "inserting"}

\* An open transaction has a request and a user; one that is creating a request
\* is alone with its fresh identifier.
TransactionShape ==
    \A t \in Transactions :
        /\ pc[t] = "none" <=> target[t] = NoRefund
        /\ pc[t] # "none" => actor[t] \in Actors
        /\ Asking(t) => /\ status[target[t]] = "absent"
                        /\ \A s \in Transactions \ {t} : target[s] # target[t]

\* Nothing is given back before the payment is confirmed.
NothingBackYet ==
    \A p \in Payments : payStatus[p] \in {"PENDING", "CANCELLED"} => refunded[p] = 0

Core == TypeOK /\ TransactionShape /\ NothingBackYet /\ NeverOverRefunded /\ FourEyes

-------------------------------------------------------------------------------

LEMMA InitCore == Init => Core
BY SetsAssumption, AmountsAssumption
   DEF Init, Core, TypeOK, TransactionShape, Asking, NothingBackYet,
       NeverOverRefunded, FourEyes, Sums

\* A transaction has its step by what its pc says.
LEMMA OpenTarget ==
    ASSUME TypeOK, TransactionShape, NEW t \in Transactions, pc[t] # "none"
    PROVE  target[t] \in Refunds /\ actor[t] \in Actors
BY DEF TypeOK, TransactionShape

\* Ending a transaction keeps the types of its variables.
LEMMA CloseTypes ==
    ASSUME TypeOK, NEW t \in Transactions, Close(t)
    PROVE  /\ pc' \in [Transactions -> {"none", "requesting", "inserting",
                                        "approving", "rejecting", "completing"}]
           /\ target' \in [Transactions -> Refunds \cup {NoRefund}]
           /\ actor' \in [Transactions -> Actors \cup {NoActor}]
           /\ reserved' \in [Transactions -> Sums]
<1>1. 0 \in Sums
  BY DEF Sums
<1>2. QED
  BY <1>1 DEF TypeOK, Close

LEMMA TypeStep == Core /\ [Next]_vars => TypeOK'
<1> SUFFICES ASSUME Core, [Next]_vars
             PROVE  TypeOK'
  OBVIOUS
<1>0. TypeOK /\ TransactionShape
  BY DEF Core
<1>1. ASSUME NEW p \in Payments,
             ConfirmPayment(p) \/ CancelPayment(p) \/ ProviderReversal(p)
      PROVE  TypeOK'
  BY <1>0, <1>1
     DEF TypeOK, ConfirmPayment, CancelPayment, ProviderReversal, rowVars, txVars
<1>2. ASSUME NEW t \in Transactions, NEW u \in Actors, NEW r \in Refunds,
             NEW doing \in {"requesting", "approving", "rejecting", "completing"},
             Open(t, doing, r, u)
      PROVE  TypeOK'
  BY <1>0, <1>2 DEF TypeOK, Open, payVars, rowVars
<1>3. ASSUME NEW t \in Transactions, TakeSnapshot(t)
      PROVE  TypeOK'
  <2>1. Total(Reserving(PaymentOf[target[t]])) \in Sums
    BY DEF Sums, Reserving
  <2>2. QED
    BY <1>0, <1>3, <2>1 DEF TypeOK, TakeSnapshot, payVars, rowVars
<1>4. ASSUME NEW t \in Transactions, CommitRequest(t)
      PROVE  TypeOK'
  <2>1. target[t] \in Refunds /\ actor[t] \in Actors /\ Close(t)
    BY <1>0, <1>4, OpenTarget DEF CommitRequest
  <2>2. QED
    BY <1>0, <1>4, <2>1, CloseTypes DEF TypeOK, CommitRequest, payVars
<1>5. ASSUME NEW t \in Transactions, CommitApproval(t) \/ CommitRejection(t)
      PROVE  TypeOK'
  <2>1. /\ target[t] \in Refunds
        /\ actor[t] \in Actors
        /\ Decide(t, "APPROVED") \/ Decide(t, "REJECTED")
        /\ Close(t)
    BY <1>0, <1>5, OpenTarget DEF CommitApproval, CommitRejection, Decide
  <2>2. QED
    BY <1>0, <2>1, CloseTypes DEF TypeOK, Decide, payVars
<1>6. ASSUME NEW t \in Transactions, CommitCompletion(t)
      PROVE  TypeOK'
  <2>1. target[t] \in Refunds /\ Close(t)
    BY <1>0, <1>6, OpenTarget DEF CommitCompletion
  <2>2. /\ RefundAmount[target[t]] \in Nat
        /\ GiveBack(PaymentOf[target[t]], RefundAmount[target[t]])
        /\ status' = [status EXCEPT ![target[t]] = "COMPLETED"]
        /\ UNCHANGED <<requestedBy, decidedBy>>
    BY <1>6, <2>1, AmountsAssumption DEF CommitCompletion
  <2>3. payStatus' \in [Payments -> {"PENDING", "CONFIRMED", "CANCELLED",
                                     "REFUNDED"}]
    BY <1>0, <2>2 DEF TypeOK, GiveBack
  <2>4. refunded' \in [Payments -> Nat]
    <3> DEFINE amount == RefundAmount[target[t]]
    <3>1. /\ refunded \in [Payments -> Nat]
          /\ \A p \in Payments : refunded[p] + amount \in Nat
      BY <1>0, <2>2 DEF TypeOK
    <3> HIDE DEF amount
    <3>2. refunded' = [refunded EXCEPT ![PaymentOf[target[t]]] = @ + amount]
      BY <2>2 DEF GiveBack, amount
    <3>3. QED
      BY <3>1, <3>2
  <2>5. QED
    BY <1>0, <2>1, <2>2, <2>3, <2>4, CloseTypes DEF TypeOK
<1>7. ASSUME NEW t \in Transactions, Rollback(t)
      PROVE  TypeOK'
  <2>1. Close(t)
    BY <1>7 DEF Rollback
  <2>2. QED
    BY <1>0, <1>7, <2>1, CloseTypes DEF TypeOK, Rollback, payVars, rowVars
<1>8. UNCHANGED vars => TypeOK'
  BY <1>0 DEF TypeOK, vars
<1>9. QED
  BY <1>1, <1>2, <1>3, <1>4, <1>5, <1>6, <1>7, <1>8
     DEF Next, PaymentStep, BeginStep, CommitStep, BeginRequest, BeginDecision,
         BeginCompletion

-------------------------------------------------------------------------------

\* Opening a transaction on a row that nobody is creating keeps the shape.
LEMMA OpenShape ==
    ASSUME TypeOK, TransactionShape,
           NEW t \in Transactions, NEW u \in Actors, NEW r \in Refunds,
           NEW doing \in {"requesting", "approving", "rejecting", "completing"},
           Open(t, doing, r, u),
           doing = "requesting"
             => status[r] = "absent" /\ \A s \in Transactions : target[s] # r,
           doing # "requesting" => status[r] # "absent"
    PROVE  TransactionShape'
BY SetsAssumption
   DEF TypeOK, TransactionShape, Asking, Open, payVars, rowVars

\* Closing one on a row it creates, or that nobody is creating, does too.
LEMMA CloseShape ==
    ASSUME TypeOK, TransactionShape, NEW t \in Transactions, Close(t),
           pc[t] # "none",
           \A r \in Refunds \ {target[t]} : status'[r] = status[r],
           Asking(t) \/ status[target[t]] # "absent"
    PROVE  TransactionShape'
<1> SUFFICES ASSUME NEW s \in Transactions
             PROVE  /\ pc'[s] = "none" <=> target'[s] = NoRefund
                    /\ pc'[s] # "none" => actor'[s] \in Actors
                    /\ Asking(s)' =>
                         /\ status'[target'[s]] = "absent"
                         /\ \A q \in Transactions \ {s} : target'[q] # target'[s]
  BY DEF TransactionShape
<1>1. target[t] \in Refunds
  BY OpenTarget
<1>2. CASE s = t
  BY <1>2 DEF Close, TypeOK, Asking
<1>3. CASE s # t
  <2>1. pc'[s] = pc[s] /\ target'[s] = target[s] /\ actor'[s] = actor[s]
    BY <1>3 DEF Close, TypeOK
  <2>2. Asking(s)' <=> Asking(s)
    BY <2>1 DEF Asking
  <2>3. ASSUME Asking(s)
        PROVE  /\ status'[target[s]] = "absent"
               /\ \A q \in Transactions \ {s} : target'[q] # target[s]
    <3>1. target[s] \in Refunds /\ target[s] # target[t]
      BY <1>1, <1>3, <2>3, OpenTarget DEF TransactionShape, Asking
    <3>2. status'[target[s]] = "absent"
      BY <2>3, <3>1 DEF TransactionShape
    <3>3. \A q \in Transactions \ {s} : target'[q] # target[s]
      BY <2>3, <3>1, SetsAssumption DEF TransactionShape, Close, TypeOK
    <3>4. QED
      BY <3>2, <3>3
  <2>4. QED
    BY <2>1, <2>2, <2>3 DEF TransactionShape
<1>4. QED
  BY <1>2, <1>3

LEMMA ShapeStep == Core /\ [Next]_vars => TransactionShape'
<1> SUFFICES ASSUME Core, [Next]_vars
             PROVE  TransactionShape'
  OBVIOUS
<1>0. TypeOK /\ TransactionShape
  BY DEF Core
<1>1. ASSUME NEW p \in Payments,
             ConfirmPayment(p) \/ CancelPayment(p) \/ ProviderReversal(p)
      PROVE  TransactionShape'
  BY <1>0, <1>1 DEF TransactionShape, Asking, ConfirmPayment, CancelPayment,
                    ProviderReversal, rowVars, txVars
<1>2. ASSUME NEW t \in Transactions, NEW u \in Actors, NEW r \in Refunds,
             \/ BeginRequest(t, u, r)
             \/ BeginDecision(t, "approving", u, r)
             \/ BeginDecision(t, "rejecting", u, r)
             \/ BeginCompletion(t, u, r)
      PROVE  TransactionShape'
  <2>1. CASE BeginRequest(t, u, r)
    BY <1>0, <2>1, OpenShape DEF BeginRequest
  <2>2. CASE BeginDecision(t, "approving", u, r)
    BY <1>0, <2>2, OpenShape DEF BeginDecision, MayDecide
  <2>3. CASE BeginDecision(t, "rejecting", u, r)
    BY <1>0, <2>3, OpenShape DEF BeginDecision, MayDecide
  <2>4. CASE BeginCompletion(t, u, r)
    BY <1>0, <2>4, OpenShape DEF BeginCompletion
  <2>5. QED
    BY <1>2, <2>1, <2>2, <2>3, <2>4
<1>3. ASSUME NEW t \in Transactions, TakeSnapshot(t)
      PROVE  TransactionShape'
  BY <1>0, <1>3 DEF TypeOK, TransactionShape, Asking, TakeSnapshot, rowVars
<1>4. ASSUME NEW t \in Transactions,
             \/ CommitRequest(t)
             \/ CommitApproval(t)
             \/ CommitRejection(t)
             \/ CommitCompletion(t)
             \/ Rollback(t)
      PROVE  TransactionShape'
  <2>1. /\ Close(t)
        /\ pc[t] # "none"
        /\ \A r \in Refunds \ {target[t]} : status'[r] = status[r]
    BY <1>0, <1>4 DEF TypeOK, CommitRequest, CommitApproval, CommitRejection,
                      CommitCompletion, Rollback, Decide, rowVars
  <2>2. CASE CommitRequest(t)
    BY <1>0, <2>1, <2>2, CloseShape DEF CommitRequest, Asking
  <2>3. CASE CommitApproval(t) \/ CommitRejection(t) \/ CommitCompletion(t)
    <3>1. status[target[t]] # "absent"
      BY <2>3 DEF CommitApproval, CommitRejection, CommitCompletion, MayDecide
    <3>2. QED
      BY <1>0, <2>1, <3>1, CloseShape
  <2>4. CASE Rollback(t)
    BY <1>0, <2>1, <2>4 DEF TypeOK, TransactionShape, Asking, Rollback, Close, rowVars
  <2>5. QED
    BY <1>4, <2>2, <2>3, <2>4
<1>5. UNCHANGED vars => TransactionShape'
  BY <1>0 DEF TransactionShape, Asking, vars
<1>6. QED
  BY <1>1, <1>2, <1>3, <1>4, <1>5 DEF Next, PaymentStep, BeginStep, CommitStep

-------------------------------------------------------------------------------

\* What CommitCompletion does to the payment of its request.
LEMMA CompletionEffect ==
    ASSUME TypeOK, TransactionShape, NEW t \in Transactions, CommitCompletion(t)
    PROVE  /\ target[t] \in Refunds
           /\ PaymentOf[target[t]] \in Payments
           /\ RefundAmount[target[t]] \in Nat \ {0}
           /\ PaymentAmount[PaymentOf[target[t]]] \in Nat
           /\ status[target[t]] = "APPROVED"
           /\ status' = [status EXCEPT ![target[t]] = "COMPLETED"]
           /\ payStatus[PaymentOf[target[t]]] = "CONFIRMED"
           /\ refunded[PaymentOf[target[t]]] + RefundAmount[target[t]]
                <= PaymentAmount[PaymentOf[target[t]]]
           /\ GiveBack(PaymentOf[target[t]], RefundAmount[target[t]])
           /\ UNCHANGED <<requestedBy, decidedBy>>
<1>1. target[t] \in Refunds
  BY OpenTarget DEF CommitCompletion
<1>2. QED
  BY <1>1, AmountsAssumption DEF CommitCompletion

\* Only confirmation, cancellation, reversal and a completed refund touch the
\* payment.
LEMMA BalanceStep == Core /\ [Next]_vars => (NothingBackYet /\ NeverOverRefunded)'
<1> SUFFICES ASSUME Core, [Next]_vars
             PROVE  (NothingBackYet /\ NeverOverRefunded)'
  OBVIOUS
<1>0. TypeOK /\ TransactionShape /\ NothingBackYet /\ NeverOverRefunded
  BY DEF Core
<1>1. ASSUME NEW p \in Payments,
             ConfirmPayment(p) \/ CancelPayment(p) \/ ProviderReversal(p)
      PROVE  (NothingBackYet /\ NeverOverRefunded)'
  BY <1>0, <1>1, AmountsAssumption
     DEF TypeOK, NothingBackYet, NeverOverRefunded, ConfirmPayment,
         CancelPayment, ProviderReversal
<1>2. ASSUME NEW t \in Transactions, CommitCompletion(t)
      PROVE  (NothingBackYet /\ NeverOverRefunded)'
  <2> DEFINE p == PaymentOf[target[t]]
             amount == RefundAmount[target[t]]
  <2>1. /\ p \in Payments /\ amount \in Nat \ {0}
        /\ payStatus[p] = "CONFIRMED"
        /\ refunded[p] + amount <= PaymentAmount[p]
        /\ GiveBack(p, amount)
    BY <1>0, <1>2, CompletionEffect
  <2> HIDE DEF p, amount
  <2>2. \A q \in Payments \ {p} :
          refunded'[q] = refunded[q] /\ payStatus'[q] = payStatus[q]
    BY <1>0, <2>1 DEF TypeOK, GiveBack
  <2>3. refunded'[p] = refunded[p] + amount
    BY <1>0, <2>1 DEF TypeOK, GiveBack
  <2>4. payStatus'[p] = IF refunded[p] + amount = PaymentAmount[p]
                        THEN "REFUNDED" ELSE "CONFIRMED"
    BY <1>0, <2>1 DEF TypeOK, GiveBack
  <2>5. refunded[p] \in Nat /\ PaymentAmount[p] \in Nat
    BY <1>0, <2>1, AmountsAssumption DEF TypeOK
  <2>6. NothingBackYet'
    BY <1>0, <2>2, <2>4 DEF NothingBackYet
  <2>7. NeverOverRefunded'
    BY <1>0, <2>1, <2>2, <2>3, <2>4, <2>5 DEF NeverOverRefunded
  <2>8. QED
    BY <2>6, <2>7
<1>3. UNCHANGED payVars => (NothingBackYet /\ NeverOverRefunded)'
  BY <1>0 DEF NothingBackYet, NeverOverRefunded, payVars
<1>4. QED
  BY <1>1, <1>2, <1>3
     DEF Next, PaymentStep, BeginStep, CommitStep, BeginRequest, BeginDecision,
         BeginCompletion, Open, TakeSnapshot, CommitRequest, CommitApproval,
         CommitRejection, Decide, Rollback, vars, payVars

\* What a decision does to the row it locked.
LEMMA DecisionEffect ==
    ASSUME TypeOK, TransactionShape, NEW t \in Transactions,
           CommitApproval(t) \/ CommitRejection(t)
    PROVE  /\ target[t] \in Refunds
           /\ actor[t] \in Actors \ {requestedBy[target[t]]}
           /\ status[target[t]] = "REQUESTED"
           /\ decidedBy' = [decidedBy EXCEPT ![target[t]] = actor[t]]
           /\ UNCHANGED <<payVars, requestedBy>>
<1>1. target[t] \in Refunds /\ actor[t] \in Actors
  BY OpenTarget DEF CommitApproval, CommitRejection
<1>2. QED
  BY <1>1 DEF CommitApproval, CommitRejection, MayDecide, Decide

LEMMA FourEyesStep == Core /\ [Next]_vars => FourEyes'
<1> SUFFICES ASSUME Core, [Next]_vars
             PROVE  FourEyes'
  OBVIOUS
<1>0. TypeOK /\ TransactionShape /\ FourEyes
  BY DEF Core
<1>1. ASSUME NEW t \in Transactions, CommitRequest(t)
      PROVE  FourEyes'
  <2>1. target[t] \in Refunds /\ status[target[t]] = "absent"
    BY <1>0, <1>1, OpenTarget DEF CommitRequest, TransactionShape, Asking
  <2>2. QED
    BY <1>0, <1>1, <2>1 DEF TypeOK, FourEyes, CommitRequest
<1>2. ASSUME NEW t \in Transactions, CommitApproval(t) \/ CommitRejection(t)
      PROVE  FourEyes'
  <2>1. PICK verdict \in {"APPROVED", "REJECTED"} :
          status' = [status EXCEPT ![target[t]] = verdict]
    BY <1>2 DEF CommitApproval, CommitRejection, Decide
  <2>2. QED
    BY <1>0, <1>2, <2>1, DecisionEffect DEF TypeOK, FourEyes
<1>3. ASSUME NEW t \in Transactions, CommitCompletion(t)
      PROVE  FourEyes'
  BY <1>0, <1>3, CompletionEffect DEF TypeOK, FourEyes
<1>4. UNCHANGED rowVars => FourEyes'
  BY <1>0 DEF FourEyes, rowVars
<1>5. QED
  BY <1>1, <1>2, <1>3, <1>4
     DEF Next, PaymentStep, BeginStep, CommitStep, BeginRequest, BeginDecision,
         BeginCompletion, Open, TakeSnapshot, ConfirmPayment, CancelPayment,
         ProviderReversal, Rollback, vars, rowVars

LEMMA CoreInvariant == Spec => []Core
<1>1. Core /\ [Next]_vars => Core'
  BY TypeStep, ShapeStep, BalanceStep, FourEyesStep DEF Core
<1>2. QED
  BY InitCore, <1>1, PTL DEF Spec

-------------------------------------------------------------------------------

\* The rows, the payments and the open transactions keep their types.
THEOREM TypeCorrect == Spec => []TypeOK
BY CoreInvariant, PTL DEF Core

\* However the requests, decisions and completions race, a payment never gives
\* back more than was paid, and is CONFIRMED only while something is left.
THEOREM RefundsBounded == Spec => []NeverOverRefunded
BY CoreInvariant, PTL DEF Core

\* No request is decided by its requester, and none is paid undecided.
THEOREM SecondPersonDecides == Spec => []FourEyes
BY CoreInvariant, PTL DEF Core

\* The stages of the ledger, word by word.
LEMMA StageWords ==
    /\ Stage["absent"] = "none"
    /\ Stage["REQUESTED"] = "open"
    /\ Stage["APPROVED"] = "approved"
    /\ Stage["REJECTED"] = "refused"
    /\ Stage["COMPLETED"] = "paid"
BY DEF Stage

\* A row that changes its status moves in the ledger.
LEMMA RowMoves ==
    ASSUME NEW r \in Refunds, NEW from, NEW to, NEW a, NEW b,
           Stage[from] = a, Stage[to] = b,
           status \in [Refunds -> {"absent", "REQUESTED", "APPROVED", "REJECTED",
                                   "COMPLETED"}],
           status[r] = from, status' = [status EXCEPT ![r] = to]
    PROVE  Ledger!Move(r, a, b)
BY DEF Ledger!Move

\* Every commit is one atomic operation of the refund ledger.
THEOREM RefundsImplementLedger == Spec => ImplementsLedger
<1> DEFINE stage == [r \in Refunds |-> Stage[status[r]]]
           left == [p \in Payments |-> PaymentAmount[p] - refunded[p]]
<1>1. Init => Ledger!Init
  BY AmountsAssumption DEF Init, Ledger!Init, Stage
<1>2. Core /\ [Next]_vars => [Ledger!Next]_(Ledger!vars)
  <2> SUFFICES ASSUME Core, [Next]_vars
               PROVE  Ledger!Next \/ UNCHANGED <<stage, left>>
    BY DEF Ledger!vars
  <2>0. TypeOK /\ TransactionShape
    BY DEF Core
  <2>1. ASSUME NEW t \in Transactions, CommitRequest(t)
        PROVE  Ledger!Next
    <3>1. PICK r \in Refunds : r = target[t] /\ status[r] = "absent"
      BY <2>0, <2>1, OpenTarget DEF CommitRequest, TransactionShape, Asking
    <3>2. /\ status' = [status EXCEPT ![r] = "REQUESTED"]
          /\ refunded' = refunded
      BY <2>1, <3>1 DEF CommitRequest, payVars
    <3>3. Ledger!Ask(r)
      <4>1. Ledger!Move(r, "none", "open")
        BY <2>0, <3>1, <3>2, RowMoves, StageWords DEF TypeOK
      <4>2. QED
        BY <4>1, <3>2 DEF Ledger!Ask
    <3>4. QED
      BY <3>3 DEF Ledger!Next
  <2>2. ASSUME NEW t \in Transactions, CommitApproval(t)
        PROVE  Ledger!Next
    <3>1. PICK r \in Refunds :
            /\ r = target[t]
            /\ status[r] = "REQUESTED"
            /\ status' = [status EXCEPT ![r] = "APPROVED"]
            /\ refunded' = refunded
      BY <2>0, <2>2, DecisionEffect DEF CommitApproval, Decide, payVars
    <3>2. Ledger!Approve(r)
      <4>1. Ledger!Move(r, "open", "approved")
        BY <2>0, <3>1, RowMoves, StageWords DEF TypeOK
      <4>2. QED
        BY <4>1, <3>1 DEF Ledger!Approve
    <3>3. QED
      BY <3>2 DEF Ledger!Next
  <2>3. ASSUME NEW t \in Transactions, CommitRejection(t)
        PROVE  Ledger!Next
    <3>1. PICK r \in Refunds :
            /\ r = target[t]
            /\ status[r] = "REQUESTED"
            /\ status' = [status EXCEPT ![r] = "REJECTED"]
            /\ refunded' = refunded
      BY <2>0, <2>3, DecisionEffect DEF CommitRejection, Decide, payVars
    <3>2. Ledger!Refuse(r)
      <4>1. Ledger!Move(r, "open", "refused")
        BY <2>0, <3>1, RowMoves, StageWords DEF TypeOK
      <4>2. QED
        BY <4>1, <3>1 DEF Ledger!Refuse
    <3>3. QED
      BY <3>2 DEF Ledger!Next
  <2>4. ASSUME NEW t \in Transactions, CommitCompletion(t)
        PROVE  Ledger!Next
    <3>0. PICK r \in Refunds : r = target[t]
      BY <2>0, <2>4, CompletionEffect
    <3> DEFINE p == PaymentOf[r]
    <3>1. /\ p \in Payments
          /\ RefundAmount[r] \in Nat /\ PaymentAmount[p] \in Nat
          /\ status[r] = "APPROVED"
          /\ status' = [status EXCEPT ![r] = "COMPLETED"]
          /\ refunded[p] + RefundAmount[r] <= PaymentAmount[p]
          /\ refunded' = [refunded EXCEPT ![p] = @ + RefundAmount[r]]
      BY <2>0, <2>4, <3>0, CompletionEffect DEF GiveBack
    <3>2. refunded \in [Payments -> Nat]
      BY <2>0 DEF TypeOK
    <3>3. Ledger!Move(r, "approved", "paid")
      BY <2>0, <3>1, RowMoves, StageWords DEF TypeOK
    <3>4. RefundAmount[r] <= left[p]
      BY <3>1, <3>2
    <3>5. left' = [left EXCEPT ![p] = @ - RefundAmount[r]]
      <4>1. ASSUME NEW q \in Payments
            PROVE  PaymentAmount[q] - refunded'[q]
                     = IF q = p THEN left[p] - RefundAmount[r] ELSE left[q]
        BY <3>1, <3>2, <4>1, AmountsAssumption
      <4>2. QED
        BY <3>1, <4>1
    <3>6. Ledger!Pay(r)
      BY <3>1, <3>3, <3>4, <3>5 DEF Ledger!Pay
    <3>7. QED
      BY <3>1, <3>6 DEF Ledger!Next
  <2>5. status' = status /\ refunded' = refunded => UNCHANGED <<stage, left>>
    OBVIOUS
  <2>6. QED
    <3> HIDE DEF stage, left
    <3>1. QED
      BY <2>1, <2>2, <2>3, <2>4, <2>5
         DEF Next, PaymentStep, BeginStep, CommitStep, BeginRequest,
             BeginDecision, BeginCompletion, Open, TakeSnapshot, ConfirmPayment,
             CancelPayment, ProviderReversal, Rollback, vars, rowVars, payVars
<1>3. QED
  BY <1>1, <1>2, CoreInvariant, PTL DEF Spec, ImplementsLedger, Ledger!Spec

-------------------------------------------------------------------------------
(* The ledger. *)

\* Rows are inserted one at a time, so whatever is summed is finite.
FewRows == IsFiniteSet({r \in Refunds : status[r] # "absent"})

Completed(p) == {r \in Refunds : PaymentOf[r] = p /\ status[r] = "COMPLETED"}

Accounts == Core /\ FewRows /\ LedgerBalances

LEMMA RowsAreFinite ==
    ASSUME FewRows, NEW p
    PROVE  IsFiniteSet(Completed(p)) /\ IsFiniteSet(Reserving(p))
<1>1. /\ Completed(p) \subseteq {r \in Refunds : status[r] # "absent"}
      /\ Reserving(p) \subseteq {r \in Refunds : status[r] # "absent"}
  BY DEF Completed, Reserving
<1> QED
  BY <1>1, FS_Subset DEF FewRows

\* What a step may do to the rows: one changes its status.
RowStep(r, from, to) ==
    /\ r \in Refunds
    /\ status[r] = from
    /\ status' = [status EXCEPT ![r] = to]

LEMMA RowSteps ==
    ASSUME Core, [Next]_vars
    PROVE  \/ UNCHANGED status
           \/ \E t \in Transactions :
                \/ CommitRequest(t) /\ RowStep(target[t], "absent", "REQUESTED")
                \/ CommitApproval(t) /\ RowStep(target[t], "REQUESTED", "APPROVED")
                \/ CommitRejection(t) /\ RowStep(target[t], "REQUESTED", "REJECTED")
                \/ CommitCompletion(t) /\ RowStep(target[t], "APPROVED", "COMPLETED")
<1>0. TypeOK /\ TransactionShape
  BY DEF Core
<1>1. ASSUME NEW t \in Transactions, CommitRequest(t)
      PROVE  RowStep(target[t], "absent", "REQUESTED")
  BY <1>0, <1>1, OpenTarget DEF CommitRequest, TransactionShape, Asking, RowStep
<1>2. ASSUME NEW t \in Transactions, CommitApproval(t)
      PROVE  RowStep(target[t], "REQUESTED", "APPROVED")
  BY <1>0, <1>2, DecisionEffect DEF CommitApproval, Decide, RowStep
<1>3. ASSUME NEW t \in Transactions, CommitRejection(t)
      PROVE  RowStep(target[t], "REQUESTED", "REJECTED")
  BY <1>0, <1>3, DecisionEffect DEF CommitRejection, Decide, RowStep
<1>4. ASSUME NEW t \in Transactions, CommitCompletion(t)
      PROVE  RowStep(target[t], "APPROVED", "COMPLETED")
  BY <1>0, <1>4, CompletionEffect DEF RowStep
<1> QED
  BY <1>1, <1>2, <1>3, <1>4
     DEF Next, PaymentStep, BeginStep, CommitStep, BeginRequest, BeginDecision,
         BeginCompletion, Open, TakeSnapshot, ConfirmPayment, CancelPayment,
         ProviderReversal, Rollback, vars, rowVars

LEMMA FewRowsStep == Core /\ FewRows /\ [Next]_vars => FewRows'
<1> SUFFICES ASSUME Core, FewRows, [Next]_vars
             PROVE  FewRows'
  OBVIOUS
<1> DEFINE rows == {r \in Refunds : status[r] # "absent"}
<1>1. PICK r : rows' \subseteq rows \cup {r}
  <2>1. status \in [Refunds -> {"absent", "REQUESTED", "APPROVED", "REJECTED",
                                "COMPLETED"}]
    BY DEF Core, TypeOK
  <2> QED
    BY <2>1, RowSteps DEF RowStep
<1>2. IsFiniteSet(rows \cup {r})
  BY FS_AddElement DEF FewRows
<1> QED
  BY <1>1, <1>2, FS_Subset DEF FewRows

\* A step that completes nothing leaves the sums of completed refunds alone.
LEMMA SameCompleted ==
    ASSUME Core, NEW p, NEW r, NEW from, NEW to, RowStep(r, from, to),
           from # "COMPLETED", to # "COMPLETED"
    PROVE  Completed(p)' = Completed(p)
BY DEF RowStep, Completed, Core, TypeOK

LEMMA LedgerStep == Accounts /\ [Next]_vars => LedgerBalances'
<1> SUFFICES ASSUME Accounts, [Next]_vars, NEW p \in Payments
             PROVE  refunded'[p] = Total(Completed(p)')
  BY DEF LedgerBalances, Completed
<1>0. /\ Core /\ TypeOK /\ TransactionShape
      /\ refunded[p] = Total(Completed(p))
  BY DEF Accounts, Core, LedgerBalances, Completed
<1>1. CASE \E t \in Transactions : CommitCompletion(t)
  <2>1. PICK t \in Transactions : CommitCompletion(t)
    BY <1>1
  <2>2. PICK r \in Refunds :
          /\ r = target[t]
          /\ PaymentOf[r] \in Payments /\ RefundAmount[r] \in Nat
          /\ status[r] = "APPROVED"
          /\ status' = [status EXCEPT ![r] = "COMPLETED"]
          /\ refunded' = [refunded EXCEPT ![PaymentOf[r]] = @ + RefundAmount[r]]
    BY <1>0, <2>1, CompletionEffect DEF GiveBack
  <2>3. CASE PaymentOf[r] = p
    <3>1. Completed(p)' = Completed(p) \cup {r} /\ r \notin Completed(p)
      BY <1>0, <2>2, <2>3 DEF Completed, TypeOK
    <3>2. IsFiniteSet(Completed(p)) /\ Completed(p) \in SUBSET Refunds
      BY RowsAreFinite DEF Accounts, Completed
    <3>3. Total(Completed(p)') = Total(Completed(p)) + RefundAmount[r]
      BY <3>1, <3>2, TotalWith
    <3>4. refunded'[p] = refunded[p] + RefundAmount[r]
      BY <1>0, <2>2, <2>3 DEF TypeOK
    <3> QED
      BY <1>0, <3>3, <3>4
  <2>4. CASE PaymentOf[r] # p
    <3>1. Completed(p)' = Completed(p)
      BY <1>0, <2>2, <2>4 DEF Completed, TypeOK
    <3>2. refunded'[p] = refunded[p]
      BY <1>0, <2>2, <2>4 DEF TypeOK
    <3> QED
      BY <1>0, <3>1, <3>2
  <2> QED
    BY <2>3, <2>4
<1>2. CASE ~ \E t \in Transactions : CommitCompletion(t)
  <2>1. refunded' = refunded
    BY <1>2 DEF Next, PaymentStep, BeginStep, CommitStep, BeginRequest, BeginDecision,
         BeginCompletion, Open, TakeSnapshot, ConfirmPayment, CancelPayment,
         ProviderReversal, CommitRequest, CommitApproval, CommitRejection, Decide,
         Rollback, vars, payVars
  <2>2. Completed(p)' = Completed(p)
    <3>1. CASE UNCHANGED status
      BY <3>1 DEF Completed
    <3> QED
      BY <1>0, <1>2, <3>1, RowSteps, SameCompleted
  <2> QED
    BY <1>0, <2>1, <2>2
<1> QED
  BY <1>1, <1>2

LEMMA AccountsStep == Accounts /\ [Next]_vars => Accounts'
<1>1. Core /\ [Next]_vars => Core'
  BY TypeStep, ShapeStep, BalanceStep, FourEyesStep DEF Core
<1> QED
  BY <1>1, FewRowsStep, LedgerStep DEF Accounts

LEMMA InitAccounts == Init => Accounts
<1> SUFFICES ASSUME Init
             PROVE  FewRows /\ LedgerBalances
  BY InitCore DEF Accounts
<1>1. {r \in Refunds : status[r] # "absent"} = {}
  BY DEF Init
<1>2. ASSUME NEW p \in Payments
      PROVE  Completed(p) = {} /\ refunded[p] = 0
  BY DEF Init, Completed
<1> QED
  BY <1>1, <1>2, TotalOfNone, FS_EmptySet DEF FewRows, LedgerBalances, Completed

LEMMA AccountsInvariant == Spec => []Accounts
BY InitAccounts, AccountsStep, PTL DEF Spec

\* The total kept with a payment is the sum of its completed refunds, for any
\* number of requests of any amounts and however their completions interleave.
THEOREM LedgerIsExact == Spec => []LedgerBalances
BY AccountsInvariant, PTL DEF Accounts

-------------------------------------------------------------------------------
(* The ceiling on requests. *)

\* No two statements that create a request of one payment overlap, from their
\* snapshot to their commit.
OneRequestAtATime ==
    \A s, t \in Transactions :
        /\ pc[s] = "inserting" /\ pc[t] = "inserting"
        /\ PaymentOf[target[s]] = PaymentOf[target[t]]
        => s = t

\* Then the sum that such a statement has read is still an upper bound.
SnapshotsBound ==
    \A t \in Transactions : pc[t] = "inserting" =>
        /\ reserved[t] \in Nat
        /\ Total(Reserving(PaymentOf[target[t]])) <= reserved[t]

Reserved == Accounts /\ CeilingRespected /\ SnapshotsBound

\* What a step does to the requests that count against the ceiling of a payment:
\* only a commit adds one, and a rejection removes one.
LEMMA ReservingStep ==
    ASSUME Accounts, [Next]_vars, NEW p \in Payments,
           ~ \E t \in Transactions : CommitRequest(t) /\ PaymentOf[target[t]] = p
    PROVE  Total(Reserving(p)') \in Nat /\ Total(Reserving(p)') <= Total(Reserving(p))
<1>0. Core /\ TypeOK /\ IsFiniteSet(Reserving(p)) /\ Reserving(p) \in SUBSET Refunds
  BY RowsAreFinite DEF Accounts, Core, Reserving
<1>1. Total(Reserving(p)) \in Nat
  BY <1>0, TotalIsNat
<1>2. CASE Reserving(p)' = Reserving(p)
  BY <1>1, <1>2
<1>3. CASE \E t \in Transactions : CommitRejection(t)
  <2>1. PICK t \in Transactions : CommitRejection(t)
    BY <1>3
  <2>2. PICK r \in Refunds : RowStep(r, "REQUESTED", "REJECTED")
    BY <1>0, <2>1, DecisionEffect DEF CommitRejection, Decide, RowStep, Core
  <2>3. CASE PaymentOf[r] = p
    <3>1. Reserving(p)' = Reserving(p) \ {r} /\ r \in Reserving(p)
      BY <1>0, <2>2, <2>3 DEF RowStep, Reserving, TypeOK
    <3>2. Total(Reserving(p)) = RefundAmount[r] + Total(Reserving(p)')
      BY <1>0, <3>1, TotalWithout
    <3>3. Total(Reserving(p)') \in Nat /\ RefundAmount[r] \in Nat
      BY <1>0, <3>1, FS_Subset, TotalIsNat, AmountsAssumption
    <3> QED
      BY <3>2, <3>3
  <2>4. CASE PaymentOf[r] # p
    BY <1>0, <1>2, <2>2, <2>4 DEF RowStep, Reserving, TypeOK
  <2> QED
    BY <2>3, <2>4
<1>4. CASE ~ \E t \in Transactions : CommitRejection(t)
  <2>1. CASE UNCHANGED status
    BY <1>2, <2>1 DEF Reserving
  <2>2. ASSUME NEW t \in Transactions, CommitRequest(t),
               RowStep(target[t], "absent", "REQUESTED")
        PROVE  Reserving(p)' = Reserving(p)
    BY <1>0, <2>2 DEF RowStep, Reserving, TypeOK
  <2>3. ASSUME NEW r,
               \/ RowStep(r, "REQUESTED", "APPROVED")
               \/ RowStep(r, "APPROVED", "COMPLETED")
        PROVE  Reserving(p)' = Reserving(p)
    BY <1>0, <2>3 DEF RowStep, Reserving, TypeOK
  <2> QED
    BY <1>0, <1>2, <1>4, <2>1, <2>2, <2>3, RowSteps
<1> QED
  BY <1>3, <1>4

\* A request that is committed under the lock of its payment counts from then on.
LEMMA AdmittedRequest ==
    ASSUME Accounts, NEW t \in Transactions, CommitRequest(t),
           NEW r \in Refunds, r = target[t], NEW p, p = PaymentOf[r]
    PROVE  /\ p \in Payments
           /\ Total(Reserving(p)') = Total(Reserving(p)) + RefundAmount[r]
<1>0. TypeOK /\ TransactionShape
  BY DEF Accounts, Core
<1>1. status[r] = "absent" /\ status' = [status EXCEPT ![r] = "REQUESTED"]
  BY <1>0 DEF CommitRequest, TransactionShape, Asking
<1>2. Reserving(p)' = Reserving(p) \cup {r}
  BY <1>0, <1>1 DEF Reserving, TypeOK
<1>3. r \notin Reserving(p) /\ IsFiniteSet(Reserving(p)) /\ Reserving(p) \in SUBSET Refunds
  BY <1>1, RowsAreFinite DEF Accounts, Reserving
<1> QED
  BY <1>2, <1>3, TotalWith, AmountsAssumption

LEMMA ReservedTypes ==
    ASSUME Accounts, NEW p \in Payments
    PROVE  Total(Reserving(p)) \in Nat
<1>1. IsFiniteSet(Reserving(p)) /\ Reserving(p) \in SUBSET Refunds
  BY RowsAreFinite DEF Accounts, Reserving
<1> QED
  BY <1>1, TotalIsNat

\* A statement that was committed had read a sum that was still a bound.
LEMMA CeilingStep == Reserved /\ [Next]_vars => CeilingRespected'
<1> SUFFICES ASSUME Reserved, [Next]_vars, NEW p \in Payments
             PROVE  Total(Reserving(p)') <= PaymentAmount[p]
  BY DEF CeilingRespected, Reserving
<1>0. Accounts /\ Accounts' /\ Total(Reserving(p)) <= PaymentAmount[p]
  BY AccountsStep DEF Reserved, CeilingRespected
<1>1. Total(Reserving(p)) \in Nat /\ PaymentAmount[p] \in Nat
  BY <1>0, ReservedTypes, AmountsAssumption
<1>2. CASE \E t \in Transactions : CommitRequest(t) /\ PaymentOf[target[t]] = p
  <2>1. PICK t \in Transactions : CommitRequest(t) /\ PaymentOf[target[t]] = p
    BY <1>2
  <2>2. PICK r \in Refunds : r = target[t]
    BY <1>0, <2>1, OpenTarget DEF Accounts, Core, CommitRequest
  <2>3. Total(Reserving(p)') = Total(Reserving(p)) + RefundAmount[r]
    BY <1>0, <2>1, <2>2, AdmittedRequest
  <2>4. /\ reserved[t] \in Nat
        /\ Total(Reserving(p)) <= reserved[t]
        /\ reserved[t] + RefundAmount[r] <= PaymentAmount[p]
    BY <2>1, <2>2 DEF CommitRequest, Reserved, SnapshotsBound
  <2>5. RefundAmount[r] \in Nat
    BY AmountsAssumption
  <2> QED
    BY <1>1, <2>3, <2>4, <2>5
<1>3. CASE ~ \E t \in Transactions : CommitRequest(t) /\ PaymentOf[target[t]] = p
  <2>1. Total(Reserving(p)') \in Nat /\ Total(Reserving(p)') <= Total(Reserving(p))
    BY <1>0, <1>3, ReservingStep
  <2> QED
    BY <1>0, <1>1, <2>1
<1> QED
  BY <1>2, <1>3

\* Every statement but the one that takes the step keeps what it has read.
LEMMA OthersKeepSnapshots ==
    ASSUME TypeOK, [Next]_vars, NEW s \in Transactions, (pc[s] = "inserting")',
           ~TakeSnapshot(s)
    PROVE  /\ pc[s] = "inserting" /\ ~CommitRequest(s)
           /\ target'[s] = target[s] /\ reserved'[s] = reserved[s]
<1>1. ASSUME NEW t \in Transactions, NEW r, NEW u,
             NEW doing \in {"requesting", "approving", "rejecting", "completing"},
             Open(t, doing, r, u)
      PROVE  s # t /\ pc'[s] = pc[s] /\ target'[s] = target[s] /\ reserved'[s] = reserved[s]
  BY <1>1 DEF TypeOK, Open
<1>2. ASSUME NEW t \in Transactions, Close(t)
      PROVE  s # t /\ pc'[s] = pc[s] /\ target'[s] = target[s] /\ reserved'[s] = reserved[s]
  BY <1>2 DEF TypeOK, Close
<1>3. ASSUME NEW t \in Transactions, TakeSnapshot(t)
      PROVE  pc'[s] = pc[s] /\ target'[s] = target[s] /\ reserved'[s] = reserved[s]
  BY <1>3 DEF TypeOK, TakeSnapshot
<1>4. CommitRequest(s) => Close(s)
  BY DEF CommitRequest
<1>5. pc'[s] = pc[s] /\ target'[s] = target[s] /\ reserved'[s] = reserved[s]
  BY <1>1, <1>2, <1>3
     DEF Next, PaymentStep, BeginStep, CommitStep, BeginRequest, BeginDecision,
         BeginCompletion, ConfirmPayment, CancelPayment, ProviderReversal,
         CommitRequest, CommitApproval, CommitRejection, CommitCompletion, Decide,
         Rollback, vars, txVars
<1> QED
  BY <1>2, <1>4, <1>5

LEMMA SnapshotsStep == Reserved /\ OneRequestAtATime /\ [Next]_vars => SnapshotsBound'
<1> SUFFICES ASSUME Reserved, OneRequestAtATime, [Next]_vars,
                    NEW s \in Transactions, (pc[s] = "inserting")'
             PROVE  (/\ reserved[s] \in Nat
                     /\ Total(Reserving(PaymentOf[target[s]])) <= reserved[s])'
  BY DEF SnapshotsBound
<1>0. Accounts /\ TypeOK /\ TransactionShape
  BY DEF Reserved, Accounts, Core
<1>1. CASE TakeSnapshot(s)
  <2>1. PICK r \in Refunds : r = target[s]
    BY <1>0, <1>1, OpenTarget DEF TakeSnapshot
  <2> DEFINE p == PaymentOf[r]
  <2>2. p \in Payments /\ target'[s] = r /\ reserved'[s] = Total(Reserving(p))
    BY <1>0, <1>1, <2>1, AmountsAssumption DEF TypeOK, TakeSnapshot
  <2>3. Reserving(p)' = Reserving(p)
    BY <1>1 DEF TakeSnapshot, Reserving, rowVars
  <2>4. Total(Reserving(p)) \in Nat
    BY <1>0, <2>2, ReservedTypes
  <2>5. Reserving(PaymentOf[target[s]])' = Reserving(p)
    BY <2>2, <2>3 DEF Reserving
  <2> QED
    BY <2>2, <2>4, <2>5
<1>2. CASE ~TakeSnapshot(s)
  <2>1. /\ pc[s] = "inserting" /\ ~CommitRequest(s)
        /\ target'[s] = target[s] /\ reserved'[s] = reserved[s]
    BY <1>0, <1>2, OthersKeepSnapshots
  <2>2. PICK r \in Refunds : r = target[s]
    BY <1>0, <2>1, OpenTarget
  <2> DEFINE p == PaymentOf[r]
  <2>3. p \in Payments /\ reserved[s] \in Nat /\ Total(Reserving(p)) <= reserved[s]
    BY <2>1, <2>2, AmountsAssumption DEF Reserved, SnapshotsBound
  <2>4. ~ \E t \in Transactions : CommitRequest(t) /\ PaymentOf[target[t]] = p
    BY <2>1, <2>2 DEF CommitRequest, OneRequestAtATime
  <2> HIDE DEF p
  <2>5. /\ Total(Reserving(p)') \in Nat /\ Total(Reserving(p)) \in Nat
        /\ Total(Reserving(p)') <= Total(Reserving(p))
    BY <1>0, <2>3, <2>4, ReservingStep, ReservedTypes
  <2>6. Total(Reserving(p)') <= reserved[s]
    BY <2>3, <2>5
  <2>7. Reserving(PaymentOf[target[s]])' = Reserving(p)'
    BY <2>1, <2>2 DEF Reserving, p
  <2> QED
    BY <2>1, <2>3, <2>6, <2>7
<1> QED
  BY <1>1, <1>2

\* IMPLEMENTATION_STATUS.md's ceiling does hold, for any number of sessions, in
\* every behaviour in which the statements that request a refund of one payment do
\* not overlap: what breaks it is only the snapshot that is older than the lock.
THEOREM CeilingOfSerialRequests == Spec /\ []OneRequestAtATime => []CeilingRespected
<1>1. Init => Reserved
  <2> SUFFICES ASSUME Init
               PROVE  Reserved
    OBVIOUS
  <2>1. ASSUME NEW p \in Payments
        PROVE  Total(Reserving(p)) <= PaymentAmount[p]
    <3>1. Reserving(p) = {}
      BY DEF Init, Reserving
    <3>2. Total(Reserving(p)) = 0 /\ PaymentAmount[p] \in Nat
      BY <3>1, TotalOfNone, AmountsAssumption
    <3> QED
      BY <3>2
  <2>2. CeilingRespected
    BY <2>1 DEF CeilingRespected
  <2>3. SnapshotsBound
    BY DEF Init, SnapshotsBound
  <2> QED
    BY <2>2, <2>3, InitAccounts DEF Reserved
<1>2. Reserved /\ OneRequestAtATime /\ [Next]_vars => Reserved'
  BY AccountsStep, CeilingStep, SnapshotsStep DEF Reserved
<1> QED
  BY <1>1, <1>2, PTL DEF Spec, Reserved

-------------------------------------------------------------------------------
(* The payment, as the rest of the system sees it. *)

Standing == [PENDING |-> "open", CONFIRMED |-> "confirmed", CANCELLED |-> "lost",
             REFUNDED |-> "returned"]

\* Confirmation is what announces a payment (see PaymentEvents).
Life == INSTANCE PaymentLifecycle WITH
    standing <- [p \in Payments |-> Standing[payStatus[p]]],
    announced <- {p \in Payments : payStatus[p] \in {"CONFIRMED", "REFUNDED"}}

LEMMA StandingWords ==
    /\ Standing["PENDING"] = "open"
    /\ Standing["CONFIRMED"] = "confirmed"
    /\ Standing["CANCELLED"] = "lost"
    /\ Standing["REFUNDED"] = "returned"
BY DEF Standing

\* What a step may do to a payment: its status moves, and no other's does.
PaymentMoves(p, from, to) ==
    /\ payStatus[p] = from
    /\ payStatus' = [payStatus EXCEPT ![p] = to]

LEMMA PaymentSteps ==
    ASSUME Core, [Next]_vars
    PROVE  \/ UNCHANGED payStatus
           \/ \E p \in Payments : \/ PaymentMoves(p, "PENDING", "CONFIRMED")
                                  \/ PaymentMoves(p, "PENDING", "CANCELLED")
                                  \/ PaymentMoves(p, "CONFIRMED", "REFUNDED")
<1>0. TypeOK /\ TransactionShape
  BY DEF Core
<1>1. ASSUME NEW p \in Payments,
             ConfirmPayment(p) \/ CancelPayment(p) \/ ProviderReversal(p)
      PROVE  \/ PaymentMoves(p, "PENDING", "CONFIRMED")
             \/ PaymentMoves(p, "PENDING", "CANCELLED")
             \/ PaymentMoves(p, "CONFIRMED", "REFUNDED")
  BY <1>1 DEF ConfirmPayment, CancelPayment, ProviderReversal, PaymentMoves
<1>2. ASSUME NEW t \in Transactions, CommitCompletion(t)
      PROVE  \/ UNCHANGED payStatus
             \/ \E p \in Payments : PaymentMoves(p, "CONFIRMED", "REFUNDED")
  BY <1>0, <1>2, CompletionEffect DEF GiveBack, PaymentMoves, TypeOK
<1> QED
  BY <1>1, <1>2
     DEF Next, PaymentStep, BeginStep, CommitStep, BeginRequest, BeginDecision,
         BeginCompletion, Open, TakeSnapshot, CommitRequest, CommitApproval,
         CommitRejection, Decide, Rollback, vars, payVars

\* The refund transactions, with the provider's events between their reads and
\* their commits, never take a payment through anything but its lifecycle: what
\* Registry and Fees assume of payments survives refunds.
THEOREM RefundsKeepTheLifecycle == Spec => Life!Spec
<1> DEFINE standing == [p \in Payments |-> Standing[payStatus[p]]]
           announced == {p \in Payments : payStatus[p] \in {"CONFIRMED", "REFUNDED"}}
<1>1. Init => Life!Init
  BY DEF Init, Life!Init, Standing
<1>2. Core /\ [Next]_vars => [Life!Next]_(Life!vars)
  <2> SUFFICES ASSUME Core, [Next]_vars
               PROVE  Life!Next \/ UNCHANGED <<standing, announced>>
    BY DEF Life!vars
  <2>1. payStatus \in [Payments -> {"PENDING", "CONFIRMED", "CANCELLED", "REFUNDED"}]
    BY DEF Core, TypeOK
  <2>2. ASSUME NEW p \in Payments, NEW from, NEW to, PaymentMoves(p, from, to)
        PROVE  Life!Move(p, Standing[from], Standing[to])
    BY <2>1, <2>2 DEF PaymentMoves, Life!Move
  <2>3. ASSUME NEW p \in Payments, PaymentMoves(p, "PENDING", "CONFIRMED")
        PROVE  Life!Confirm(p)
    <3>1. announced' = announced \cup {p}
      BY <2>1, <2>3 DEF PaymentMoves
    <3> QED
      BY <2>2, <2>3, <3>1, StandingWords DEF Life!Confirm
  <2>4. ASSUME NEW p \in Payments, PaymentMoves(p, "PENDING", "CANCELLED")
        PROVE  Life!Lose(p)
    <3>1. announced' = announced
      BY <2>1, <2>4 DEF PaymentMoves
    <3> QED
      BY <2>2, <2>4, <3>1, StandingWords DEF Life!Lose
  <2>5. ASSUME NEW p \in Payments, PaymentMoves(p, "CONFIRMED", "REFUNDED")
        PROVE  Life!GiveBack(p)
    <3>1. announced' = announced
      BY <2>1, <2>5 DEF PaymentMoves
    <3> QED
      BY <2>2, <2>5, <3>1, StandingWords DEF Life!GiveBack
  <2>6. UNCHANGED payStatus => UNCHANGED <<standing, announced>>
    OBVIOUS
  <2> QED
    <3> HIDE DEF standing, announced
    <3> QED
      BY <2>3, <2>4, <2>5, <2>6, PaymentSteps DEF Life!Next
<1> QED
  BY <1>1, <1>2, CoreInvariant, PTL DEF Spec, Life!Spec

-------------------------------------------------------------------------------
(* PaymentsPage, the page that requests, decides and completes refunds. *)

Deciding == {"approve", "reject", "complete"}

\* What the officer gave was given for the refund under review.
FormShape ==
    /\ refundDecisionReason \in {reviewed, Nothing}
    /\ makerCheckerConfirmed \in {reviewed, Nothing}
    /\ providerRefundReference \in {reviewed, Nothing}
    /\ completionEvidenceConfirmed \in {reviewed, Nothing}

\* A request in flight is about what the page still shows: the controls that
\* would change it are disabled.
RequestShape ==
    /\ ~Busy => reply = NoReply
    /\ request.op = "pay" =>
          request.on = assessment /\ assessment # Nothing /\ payment = Nothing
    /\ request.op = "session" => request.on = payment /\ payment # Nothing
    /\ request.op = "load" => request.on \in Refunds
    /\ request.op \in Deciding => request.on = reviewed /\ request.on \in Refunds

\* The answer to it was true when the service gave it, and the service has only
\* moved forward since.
ReplyShape == reply # NoReply =>
    /\ request.op = "assess" => reply.id \in assessed
    /\ request.op = "pay" => reply.id \in Payments /\ paysFor[reply.id] = request.on
    /\ request.op = "session" => reply.id = request.on
    /\ request.op = "request" => reply.id \in Refunds /\ refund[reply.id] # "absent"
    /\ request.op \in {"load"} \cup Deciding =>
          reply.id = request.on /\ reply.status \in Earlier[refund[reply.id]]

KnownShape ==
    /\ assessment \in assessed \cup {Nothing}
    /\ \A r \in listed : refund[r] # "absent"

\* The inductive invariant of the page.
PageInv ==
    /\ PageTypeOK /\ FollowsTheService
    /\ FormShape /\ RequestShape /\ ReplyShape /\ KnownShape

\* What was so at the service stays so, or was so earlier.
Forward ==
    /\ assessed \subseteq assessed'
    /\ \A p \in Payments : paysFor[p] # Nothing => paysFor'[p] = paysFor[p]
    /\ \A r \in Refunds : /\ Earlier[refund[r]] \subseteq Earlier[refund'[r]]
                          /\ refund[r] # "absent" => refund'[r] # "absent"

LEMMA EarlierWords ==
    /\ Earlier["absent"] = {}
    /\ Earlier["REQUESTED"] = {"REQUESTED"}
    /\ Earlier["APPROVED"] = {"REQUESTED", "APPROVED"}
    /\ Earlier["REJECTED"] = {"REQUESTED", "REJECTED"}
    /\ Earlier["COMPLETED"] = {"REQUESTED", "APPROVED", "COMPLETED"}
BY DEF Earlier

LEMMA DecisionWords ==
    /\ DOMAIN Before = Deciding
    /\ Before["approve"] = "REQUESTED" /\ After["approve"] = "APPROVED"
    /\ Before["reject"] = "REQUESTED" /\ After["reject"] = "REJECTED"
    /\ Before["complete"] = "APPROVED" /\ After["complete"] = "COMPLETED"
BY DEF Before, After, Deciding

ServiceTypes ==
    /\ assessed \subseteq Assessments
    /\ paysFor \in [Payments -> assessed \cup {Nothing}]
    /\ refund \in [Refunds -> Statuses]

\* Whoever the service acts for, it moves forward.
LEMMA ActIsForward ==
    ASSUME ServiceTypes, NEW q, NEW id, Act(q, id),
           q.op = "pay" => q.on \in assessed
    PROVE  ServiceTypes' /\ Forward
<1> USE DEF ServiceTypes
<1>1. CASE q.op = "assess" /\ id \in Assessments /\ assessed' = assessed \cup {id}
           /\ UNCHANGED <<paysFor, refund>>
  BY <1>1 DEF Forward
<1>2. CASE /\ q.op = "pay" /\ id \in Payments /\ paysFor[id] = Nothing
           /\ paysFor' = [paysFor EXCEPT ![id] = q.on]
           /\ UNCHANGED <<assessed, refund>>
  BY <1>2 DEF Forward
<1>3. CASE UNCHANGED <<assessed, paysFor, refund>>
  BY <1>3 DEF Forward
<1>4. ASSUME NEW from, NEW to, refund[id] = from, refund' = [refund EXCEPT ![id] = to],
             UNCHANGED <<assessed, paysFor>>,
             from \in Statuses, to \in Statuses,
             Earlier[from] \subseteq Earlier[to], to # "absent"
      PROVE  ServiceTypes' /\ Forward
  BY <1>4 DEF Forward
<1>5. CASE /\ q.op = "request" /\ refund[id] = "absent"
           /\ refund' = [refund EXCEPT ![id] = "REQUESTED"]
           /\ UNCHANGED <<assessed, paysFor>>
  <2>1. Earlier["absent"] \subseteq Earlier["REQUESTED"]
    BY EarlierWords
  <2> QED
    BY <1>4, <1>5, <2>1 DEF Statuses
<1>6. CASE /\ q.op \in Deciding /\ refund[id] = Before[q.op]
           /\ refund' = [refund EXCEPT ![id] = After[q.op]]
           /\ UNCHANGED <<assessed, paysFor>>
  <2>1. /\ Before[q.op] \in Statuses
        /\ After[q.op] \in Statuses \ {"absent"}
        /\ Earlier[Before[q.op]] \subseteq Earlier[After[q.op]]
    BY <1>6, DecisionWords, EarlierWords DEF Deciding, Statuses
  <2> QED
    BY <1>4, <1>6, <2>1
<1> QED
  BY <1>1, <1>2, <1>3, <1>5, <1>6, DecisionWords DEF Act, serviceVars

\* The page takes no step: at most its answer comes in.
PageRests ==
    UNCHANGED <<chainVars, refundQueue, reviewVars, request, listVars>>

\* Then a service that moves forward leaves what the page shows and awaits true.
LEMMA ForwardKeeps ==
    ASSUME PageInv, ServiceTypes', Forward, PageRests
    PROVE  /\ FormShape' /\ KnownShape' /\ FollowsTheService'
           /\ reply' = reply => PageTypeOK' /\ RequestShape' /\ ReplyShape'
<1>0. /\ PageTypeOK /\ FollowsTheService
      /\ FormShape /\ RequestShape /\ ReplyShape /\ KnownShape
  BY DEF PageInv
<1>1. FormShape'
  BY <1>0 DEF PageRests, FormShape, reviewVars, formVars
<1>2. KnownShape'
  BY <1>0 DEF PageRests, PageTypeOK, KnownShape, Forward, chainVars, listVars
<1>3. FollowsTheService'
  BY <1>0
     DEF PageRests, PageTypeOK, FollowsTheService, KnownShape, Forward, chainVars,
         reviewVars
<1>4. ASSUME reply' = reply
      PROVE  PageTypeOK' /\ RequestShape' /\ ReplyShape'
  <2>1. PageTypeOK'
    BY <1>0, <1>4
       DEF PageRests, PageTypeOK, ServiceTypes, chainVars, reviewVars, formVars,
           listVars
  <2>2. RequestShape'
    BY <1>0, <1>4 DEF PageRests, RequestShape, Busy, chainVars, reviewVars
  <2>3. ReplyShape'
    BY <1>0, <1>4
       DEF PageRests, PageTypeOK, RequestShape, ReplyShape, Forward, Deciding
  <2> QED
    BY <2>1, <2>2, <2>3
<1> QED
  BY <1>1, <1>2, <1>3, <1>4

\* An answer is true when it is given.
LEMMA ServiceStepKeeps == PageInv /\ ServiceStep => PageInv'
<1> SUFFICES ASSUME PageInv, ServiceStep
             PROVE  PageInv'
  OBVIOUS
<1>0. PageTypeOK /\ ServiceTypes /\ RequestShape /\ KnownShape
  BY DEF PageInv, PageTypeOK, ServiceTypes
<1>1. CASE Serve
  <2>1. PICK id \in Things :
          /\ Act(request, id)
          /\ reply' = [id |-> id,
                       status |-> IF id \in Refunds THEN refund'[id] ELSE "absent"]
    BY <1>1 DEF Serve
  <2>2. request.op = "pay" => request.on \in assessed
    BY <1>0 DEF RequestShape, KnownShape
  <2>3. ServiceTypes' /\ Forward
    BY <1>0, <2>1, <2>2, ActIsForward
  <2>4. PageRests /\ Busy /\ reply = NoReply
    BY <1>1 DEF Serve, PageRests
  <2>5. FormShape' /\ KnownShape' /\ FollowsTheService'
    BY <2>3, <2>4, ForwardKeeps
  <2>6. reply' \in [id : Things, status : Statuses]
    BY <2>1, <2>3 DEF ServiceTypes, Statuses
  <2>7. PageTypeOK'
    BY <1>0, <2>3, <2>4, <2>6
       DEF PageRests, PageTypeOK, ServiceTypes, chainVars, reviewVars, formVars,
           listVars
  <2>8. RequestShape'
    BY <1>0, <2>4 DEF PageRests, RequestShape, Busy, chainVars, reviewVars
  <2>9. ReplyShape'
    <3>1. reply'.id = id /\ (id \in Refunds => reply'.status = refund'[id])
      BY <2>1
    <3>2. /\ request.op = "assess" => id \in assessed'
          /\ request.op = "pay" => id \in Payments /\ paysFor'[id] = request.on
          /\ request.op = "session" => id = request.on
          /\ request.op = "request" => id \in Refunds /\ refund'[id] = "REQUESTED"
          /\ request.op = "load" => id = request.on /\ refund'[id] # "absent"
          /\ request.op \in Deciding =>
                id = request.on /\ refund'[id] = After[request.op]
      BY <1>0, <2>1, DecisionWords
         DEF Act, serviceVars, ServiceTypes, RequestShape, Deciding
    <3>3. request.op \in {"load"} \cup Deciding =>
            id \in Refunds /\ refund'[id] \in Statuses \ {"absent"}
      BY <1>0, <2>3, <3>2, DecisionWords DEF ServiceTypes, RequestShape, Deciding
    <3>4. \A word \in Statuses \ {"absent"} : word \in Earlier[word]
      BY EarlierWords DEF Statuses
    <3> QED
      BY <2>4, <3>1, <3>2, <3>3, <3>4 DEF PageRests, ReplyShape, Deciding
  <2> QED
    BY <2>5, <2>7, <2>8, <2>9 DEF PageInv
<1>2. CASE ActElsewhere
  <2>1. PICK q, id : Act(q, id) /\ (q.op = "pay" => q.on \in assessed)
    BY <1>2, DecisionWords DEF ActElsewhere, Deciding
  <2>2. PageRests /\ reply' = reply
    BY <1>2 DEF ActElsewhere, netVars, PageRests
  <2> QED
    BY <1>0, <2>1, <2>2, ActIsForward, ForwardKeeps DEF PageInv
<1>3. CASE ListRefunds
  BY <1>3
     DEF ListRefunds, PageInv, PageTypeOK, FormShape, RequestShape, ReplyShape,
         KnownShape, FollowsTheService, Busy, serviceVars, chainVars, reviewVars,
         formVars, netVars
<1> QED
  BY <1>1, <1>2, <1>3 DEF ServiceStep

\* A control may send what is on the screen.
LEMMA SendKeeps ==
    ASSUME PageInv, NEW op \in Operations, NEW on \in Things, Send(op, on),
           UNCHANGED <<assessment, payment>>,
           paymentSession' = paymentSession \/ paymentSession' = Nothing,
           op = "pay" => on = assessment /\ assessment # Nothing /\ payment = Nothing,
           op = "session" => on = payment /\ payment # Nothing,
           op = "load" => on \in Refunds,
           op \in Deciding => on = reviewed /\ on \in Refunds
    PROVE  PageInv'
<1>0. /\ PageTypeOK /\ FormShape /\ RequestShape /\ ReplyShape /\ KnownShape
      /\ FollowsTheService
      /\ reply' = reply /\ reply = NoReply /\ request' = [op |-> op, on |-> on]
      /\ UNCHANGED <<serviceVars, refundQueue, reviewVars, listVars>>
  BY DEF PageInv, Send, RequestShape
<1>1. PageTypeOK'
  BY <1>0 DEF PageTypeOK, serviceVars, reviewVars, formVars, listVars
<1>2. FormShape' /\ KnownShape' /\ ReplyShape' /\ FollowsTheService'
  BY <1>0
     DEF FormShape, KnownShape, ReplyShape, FollowsTheService, serviceVars,
         reviewVars, formVars, listVars
<1>3. RequestShape'
  BY <1>0 DEF RequestShape, reviewVars
<1> QED
  BY <1>1, <1>2, <1>3 DEF PageInv

LEMMA EditKeeps == PageInv /\ (EditDecision \/ EditCompletion) => PageInv'
<1> SUFFICES ASSUME PageInv, EditDecision \/ EditCompletion
             PROVE  PageInv'
  OBVIOUS
<1>1. /\ UNCHANGED <<serviceVars, chainVars, refundQueue, reviewed, shown,
                    netVars, listVars>>
      /\ refundDecisionReason' \in {refundDecisionReason, reviewed, Nothing}
      /\ makerCheckerConfirmed' \in {makerCheckerConfirmed, reviewed, Nothing}
      /\ providerRefundReference' \in {providerRefundReference, reviewed, Nothing}
      /\ completionEvidenceConfirmed' \in {completionEvidenceConfirmed, reviewed, Nothing}
  BY DEF EditDecision, EditCompletion, Edit
<1>2. PageTypeOK'
  BY <1>1 DEF PageInv, PageTypeOK, serviceVars, chainVars, netVars, listVars
<1>3. FormShape'
  BY <1>1 DEF PageInv, FormShape
<1>4. RequestShape' /\ ReplyShape' /\ KnownShape' /\ FollowsTheService'
  BY <1>1
     DEF PageInv, RequestShape, ReplyShape, KnownShape, FollowsTheService, Busy,
         serviceVars, chainVars, netVars, listVars
<1> QED
  BY <1>2, <1>3, <1>4 DEF PageInv

LEMMA OfficerStepKeeps == PageInv /\ OfficerStep => PageInv'
<1> SUFFICES ASSUME PageInv, OfficerStep
             PROVE  PageInv'
  OBVIOUS
<1>0. PageTypeOK /\ FormShape /\ FollowsTheService
  BY DEF PageInv
<1>1. Assessments \cup Payments \cup Refunds \cup {Nothing} \subseteq Things
  BY DEF Things
<1>2. CASE Assess \/ SubmitRefundRequest
  BY <1>1, <1>2, SendKeeps
     DEF Assess, SubmitRefundRequest, Operations, chainVars, Deciding
<1>3. CASE MakePayment
  BY <1>0, <1>1, <1>3, SendKeeps DEF MakePayment, Operations, PageTypeOK, Deciding
<1>4. CASE StartPaymentSession
  BY <1>0, <1>1, <1>4, SendKeeps
     DEF StartPaymentSession, Operations, PageTypeOK, chainVars, Deciding
<1>5. ASSUME NEW r \in Refunds, LoadRefundById(r)
      PROVE  PageInv'
  BY <1>1, <1>5, SendKeeps DEF LoadRefundById, Operations, chainVars, Deciding
<1>6. ASSUME NEW op \in Deciding, Send(op, reviewed), reviewed # Nothing,
             UNCHANGED chainVars
      PROVE  PageInv'
  BY <1>0, <1>1, <1>6, SendKeeps DEF Operations, PageTypeOK, chainVars, Deciding
<1>7. CASE ApproveLoadedRefund \/ RejectLoadedRefund
  <2>1. makerCheckerConfirmed # Nothing => reviewed # Nothing
    BY <1>0 DEF FormShape
  <2> QED
    BY <1>6, <1>7, <2>1
       DEF ApproveLoadedRefund, RejectLoadedRefund, DecideLoadedRefund, Deciding
<1>8. CASE RecordRefundCompletion
  <2>1. completionEvidenceConfirmed # Nothing => reviewed # Nothing
    BY <1>0 DEF FormShape
  <2> QED
    BY <1>6, <1>8, <2>1 DEF RecordRefundCompletion, Deciding
<1> QED
  BY <1>2, <1>3, <1>4, <1>5, <1>7, <1>8, EditKeeps DEF OfficerStep

\* An answer, or the failure of a request, ends it and leaves the service alone.
Ended ==
    /\ request' = NoRequest /\ reply' = NoReply
    /\ UNCHANGED <<serviceVars, listVars>>

LEMMA EndedShapes ==
    ASSUME Ended
    PROVE  /\ RequestShape' /\ ReplyShape'
           /\ request' \in [op : Operations, on : Things]
           /\ reply' \in [id : Things, status : Statuses]
<1>1. RequestShape' /\ ReplyShape'
  BY DEF Ended, RequestShape, ReplyShape, NoRequest, Busy, Deciding
<1>2. /\ request' \in [op : Operations, on : Things]
      /\ reply' \in [id : Things, status : Statuses]
  BY DEF Ended, NoRequest, NoReply, Operations, Things, Statuses
<1> QED
  BY <1>1, <1>2

LEMMA AnswerStepKeeps == PageInv /\ AnswerStep => PageInv'
<1> SUFFICES ASSUME PageInv, AnswerStep
             PROVE  PageInv'
  OBVIOUS
<1>0. /\ PageTypeOK /\ FollowsTheService
      /\ FormShape /\ RequestShape /\ ReplyShape /\ KnownShape
  BY DEF PageInv
<1>1. CASE ReceiveAssessment
  <2>1. /\ request.op = "assess" /\ reply # NoReply /\ Ended
    BY <1>1 DEF ReceiveAssessment, Answered, Ended
  <2>2. reply.id \in assessed
    BY <1>0, <2>1 DEF ReplyShape
  <2> QED
    BY <1>0, <1>1, <2>1, <2>2, EndedShapes
       DEF Ended, ReceiveAssessment, ClearPaymentProgression, PageInv, PageTypeOK,
           FormShape, KnownShape, FollowsTheService, serviceVars, reviewVars,
           formVars, listVars
<1>2. CASE ReceivePayment
  <2>1. /\ request.op = "pay" /\ reply # NoReply /\ Ended
    BY <1>2 DEF ReceivePayment, Answered, Ended
  <2>2. /\ reply.id \in Payments /\ paysFor[reply.id] = assessment /\ assessment # Nothing
        /\ paymentSession = Nothing
    BY <1>0, <2>1 DEF RequestShape, ReplyShape, FollowsTheService
  <2> QED
    BY <1>0, <1>2, <2>1, <2>2, EndedShapes
       DEF Ended, ReceivePayment, PageInv, PageTypeOK, FormShape, KnownShape,
           FollowsTheService, serviceVars, reviewVars, formVars, listVars
<1>3. CASE ReceiveSession
  <2>1. /\ request.op = "session" /\ reply # NoReply /\ Ended
    BY <1>3 DEF ReceiveSession, Answered, Ended
  <2>2. reply.id = payment
    BY <1>0, <2>1 DEF RequestShape, ReplyShape
  <2> QED
    BY <1>0, <1>3, <2>1, <2>2, EndedShapes
       DEF Ended, ReceiveSession, PageInv, PageTypeOK, FormShape, KnownShape,
           FollowsTheService, serviceVars, reviewVars, formVars, listVars
<1>4. CASE ReceiveRefundRequest
  <2>1. /\ request.op = "request" /\ reply # NoReply /\ Ended
    BY <1>4 DEF ReceiveRefundRequest, Answered, Ended
  <2>2. reply.id \in Refunds /\ refund[reply.id] # "absent"
    BY <1>0, <2>1 DEF ReplyShape
  <2> QED
    BY <1>0, <1>4, <2>1, <2>2, EndedShapes
       DEF Ended, ReceiveRefundRequest, PageInv, PageTypeOK, FormShape, KnownShape,
           FollowsTheService, serviceVars, chainVars, reviewVars, formVars, listVars
<1>5. ASSUME reviewed' = reply.id, shown' = reply.status, UNCHANGED chainVars,
             refundQueue' \subseteq refundQueue, FormShape',
             \/ Answered({"load"})
             \/ Answered({"approve", "reject"})
             \/ Answered({"complete"})
      PROVE  PageInv'
  <2>1. /\ request.op \in {"load"} \cup Deciding /\ reply # NoReply /\ Ended
    BY <1>5 DEF Answered, Ended, Deciding
  <2>2. reply.id \in Refunds /\ reply.status \in Earlier[refund[reply.id]]
    BY <1>0, <2>1 DEF RequestShape, ReplyShape
  <2>3. PageTypeOK'
    BY <1>0, <1>5, <2>1, <2>2, EndedShapes
       DEF Ended, PageTypeOK, FormShape, serviceVars, chainVars, listVars
  <2> QED
    BY <1>0, <1>5, <2>1, <2>2, <2>3, EndedShapes
       DEF Ended, PageInv, KnownShape, FollowsTheService, serviceVars, chainVars,
           listVars
<1>6. CASE ReceiveRefund
  <2>1. FormShape'
    BY <1>6 DEF ReceiveRefund, ClearReview, FormShape
  <2> QED
    BY <1>5, <1>6, <2>1 DEF ReceiveRefund
<1>7. CASE ReceiveDecision \/ ReceiveCompletion
  <2>1. request.op \in Deciding /\ reply # NoReply
    BY <1>7 DEF ReceiveDecision, ReceiveCompletion, Answered, Deciding
  <2>2. reviewed' = reviewed
    BY <1>0, <1>7, <2>1
       DEF ReceiveDecision, ReceiveCompletion, RequestShape, ReplyShape
  <2>3. FormShape'
    BY <1>0, <1>7, <2>2 DEF ReceiveDecision, ReceiveCompletion, FormShape
  <2> QED
    BY <1>5, <1>7, <2>3 DEF ReceiveDecision, ReceiveCompletion
<1>8. CASE RequestFails
  <2>1. Ended /\ UNCHANGED <<chainVars, refundQueue, reviewVars>>
    BY <1>8 DEF RequestFails, Ended
  <2> QED
    BY <1>0, <2>1, EndedShapes
       DEF Ended, PageInv, PageTypeOK, FormShape, KnownShape, FollowsTheService,
           serviceVars, chainVars, reviewVars, formVars, listVars
<1>9. CASE ReceiveListing \/ ListingFails
  <2>1. /\ UNCHANGED <<serviceVars, chainVars, reviewVars, netVars>>
        /\ listing' = "over" /\ listed' = {}
        /\ refundQueue' = refundQueue \/ refundQueue' = listed
    BY <1>9 DEF ReceiveListing, ListingFails
  <2> QED
    BY <1>0, <2>1
       DEF PageInv, PageTypeOK, FormShape, RequestShape, ReplyShape, KnownShape,
           FollowsTheService, Busy, serviceVars, chainVars, reviewVars, formVars,
           netVars
<1> QED
  BY <1>1, <1>2, <1>3, <1>4, <1>6, <1>7, <1>8, <1>9 DEF AnswerStep

LEMMA InitPage == PageInit => PageInv
<1> SUFFICES ASSUME PageInit
             PROVE  PageInv
  OBVIOUS
<1>1. PageTypeOK
  BY DEF PageInit, PageTypeOK, Things, Statuses, Operations, NoRequest, NoReply
<1>2. FormShape /\ RequestShape /\ ReplyShape /\ KnownShape /\ FollowsTheService
  BY DEF PageInit, FormShape, RequestShape, ReplyShape, KnownShape,
         FollowsTheService, NoRequest, Busy, Deciding
<1> QED
  BY <1>1, <1>2 DEF PageInv

LEMMA PageInvariant == PageSpec => []PageInv
<1>1. PageInv /\ UNCHANGED pageVars => PageInv'
  BY DEF PageInv, PageTypeOK, FormShape, RequestShape, ReplyShape, KnownShape,
         FollowsTheService, Busy, pageVars, serviceVars, chainVars, reviewVars,
         formVars, netVars, listVars
<1>2. PageInv /\ [PageNext]_pageVars => PageInv'
  BY <1>1, OfficerStepKeeps, ServiceStepKeeps, AnswerStepKeeps DEF PageNext
<1> QED
  BY InitPage, <1>2, PTL DEF PageSpec

\* What the page keeps, sends and awaits has its type.
THEOREM PageTypes == PageSpec => []PageTypeOK
BY PageInvariant, PTL DEF PageInv

\* Whatever is lost, fails or comes late, and whatever other officers do, the page
\* shows only what the service once said, and its payment, link and refund belong
\* together.
THEOREM PageFollowsTheService == PageSpec => []FollowsTheService
BY PageInvariant, PTL DEF PageInv

\* A request that changes is one that was sent, with what its control asks for.
LEMMA SentAsConfirmed ==
    ASSUME PageInv, [PageNext]_pageVars, request' # request
    PROVE  /\ request'.op \in {"approve", "reject"} =>
                {refundDecisionReason, makerCheckerConfirmed} = {request'.on}
           /\ request'.op = "complete" =>
                {providerRefundReference, completionEvidenceConfirmed} = {request'.on}
<1>1. CASE request' = NoRequest
  BY <1>1 DEF NoRequest
<1>2. CASE OfficerStep
  <2>1. CASE DecideLoadedRefund("approve") \/ DecideLoadedRefund("reject")
    BY <2>1 DEF DecideLoadedRefund, Send, PageInv, FormShape
  <2>2. CASE RecordRefundCompletion
    BY <2>2 DEF RecordRefundCompletion, Send, PageInv, FormShape
  <2>3. ASSUME NEW op, NEW on, Send(op, on), op \notin Deciding
        PROVE  request'.op \notin Deciding
    BY <2>3 DEF Send
  <2>4. CASE EditDecision \/ EditCompletion
    BY <2>4 DEF EditDecision, EditCompletion, Edit, netVars
  <2> QED
    BY <1>2, <2>1, <2>2, <2>3, <2>4
       DEF OfficerStep, Assess, MakePayment, StartPaymentSession,
           SubmitRefundRequest, LoadRefundById, ApproveLoadedRefund,
           RejectLoadedRefund, Deciding
<1> QED
  BY <1>1, <1>2
     DEF PageNext, ServiceStep, Serve, ActElsewhere, ListRefunds, AnswerStep,
         Answered, ReceiveAssessment, ReceivePayment, ReceiveSession,
         ReceiveRefundRequest, ReceiveRefund, ReceiveDecision, ReceiveCompletion,
         RequestFails, ReceiveListing, ListingFails, pageVars, netVars

\* A decision or a completion never leaves the page with a reason, a reference or a
\* tick that was given for another refund.
THEOREM PageSendsWhatWasConfirmed == PageSpec => ConfirmedWhatIsSent
<1>1. PageInv /\ [PageNext]_pageVars =>
        [/\ request'.op \in {"approve", "reject"} /\ request # request' =>
              {refundDecisionReason, makerCheckerConfirmed} = {request'.on}
         /\ request'.op = "complete" /\ request # request' =>
              {providerRefundReference, completionEvidenceConfirmed} = {request'.on}]_pageVars
  BY SentAsConfirmed
<1> QED
  BY <1>1, PageInvariant, PTL DEF PageSpec, ConfirmedWhatIsSent

-------------------------------------------------------------------------------
(* The page over the refund transactions: what its service knows of a refund is the
   status of the row. *)

Page == INSTANCE PaymentsPage WITH refund <- status

\* What PaymentsPage assumes of its service is what the transactions do: each
\* step that changes a row is one the page's service may take, for a request of
\* the page or of somebody else.
THEOREM RefundsServeThePage ==
    Spec => [][UNCHANGED <<assessed, paysFor>> =>
                 \E q \in [op : {"request"} \cup Deciding, on : Refunds \cup {Nothing}],
                    id \in Refunds : Page!Act(q, id)]_status
<1>1. Core /\ [Next]_vars =>
        [UNCHANGED <<assessed, paysFor>> =>
           \E q \in [op : {"request"} \cup Deciding, on : Refunds \cup {Nothing}],
              id \in Refunds : Page!Act(q, id)]_status
  <2> SUFFICES ASSUME Core, [Next]_vars, status' # status,
                      UNCHANGED <<assessed, paysFor>>
               PROVE  \E q \in [op : {"request"} \cup Deciding,
                                on : Refunds \cup {Nothing}],
                         id \in Refunds : Page!Act(q, id)
    OBVIOUS
  <2>0. Page!Before = Before /\ Page!After = After
    BY DEF Page!Before, Page!After, Before, After
  <2>1. ASSUME NEW r, RowStep(r, "absent", "REQUESTED")
        PROVE  r \in Refunds /\ Page!Act([op |-> "request", on |-> Nothing], r)
    BY <2>1 DEF RowStep, Page!Act
  <2>2. ASSUME NEW r, NEW op \in Deciding, RowStep(r, Page!Before[op], Page!After[op])
        PROVE  r \in Refunds /\ Page!Act([op |-> op, on |-> r], r)
    BY <2>0, <2>2, DecisionWords DEF RowStep, Page!Act
  <2>3. PICK r : \/ RowStep(r, "absent", "REQUESTED")
                 \/ RowStep(r, "REQUESTED", "APPROVED")
                 \/ RowStep(r, "REQUESTED", "REJECTED")
                 \/ RowStep(r, "APPROVED", "COMPLETED")
    BY RowSteps
  <2>4. CASE RowStep(r, "absent", "REQUESTED")
    BY <2>1, <2>4
  <2>5. CASE ~RowStep(r, "absent", "REQUESTED")
    <3>1. PICK op \in Deciding : RowStep(r, Page!Before[op], Page!After[op])
      BY <2>0, <2>3, <2>5, DecisionWords DEF Deciding
    <3> QED
      BY <2>2, <3>1
  <2> QED
    BY <2>4, <2>5
<1> QED
  BY <1>1, CoreInvariant, PTL DEF Spec
===============================================================================
