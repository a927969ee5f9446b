CONSTANTS
    f1 = f1
    f2 = f2
    p1 = p1
    p2 = p2
    Filings = {f1, f2}
    Payments = {p1, p2}
    PaidFor <- OnePaymentEach
    Keys = {k1, k2}
    Nothing = Nothing
    Sessions = {t1, t2}
SPECIFICATION Spec
SYMMETRY Interchangeable
INVARIANTS
    TypeOK
    SubmittedOnce
    OpenedOnce
PROPERTY MoneyWasThere
