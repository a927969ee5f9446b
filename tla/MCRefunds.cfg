\* A request that is refused and a payment that is refunded have no further step.
CHECK_DEADLOCK FALSE
SPECIFICATION Spec
CONSTANTS
    p1 = p1
    r1 = r1
    r2 = r2
    r3 = r3
    Payments = {p1}
    Refunds = {r1, r2, r3}
    PaymentOf <- MCPaymentOf
    RefundAmount <- MCRefundAmount
    PaymentAmount <- MCPaymentAmount
    Actors = {u1, u2}
    NoActor = NoActor
    Transactions = {t1, t2}
    NoRefund = NoRefund
INVARIANTS TypeOK LedgerBalances NeverOverRefunded
PROPERTIES ImplementsLedger
