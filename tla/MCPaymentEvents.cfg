\* Once every event is settled and every payment returned there is no step left.
CHECK_DEADLOCK FALSE
SPECIFICATION Spec
CONSTANTS
    p1 = p1
    p2 = p2
    r1 = r1
    r2 = r2
    Payments = {p1, p2}
    NoPayment = NoPayment
    References = {r1, r2}
    NoReference = NoReference
    Events = {e1, e2, e3}
    NoEvent = NoEvent
    Contents <- MixedContents
    NoContent = NoContent
    Processors = {k1, k2}
    Sessions = {s1, s2}
    ManualConfirmation = TRUE
    MaxFailures = 0
SYMMETRY Symmetry
INVARIANTS TypeOK OutcomesAccounted OutcomesBelong
PROPERTIES SettledOnce ImplementsLifecycle
