\* Once every event is settled and every payment returned there is no step left.
CHECK_DEADLOCK FALSE
SPECIFICATION FairSpec
CONSTANTS
    p1 = p1
    p2 = p2
    r1 = r1
    r2 = r2
    Payments = {p1}
    NoPayment = NoPayment
    References = {r1}
    NoReference = NoReference
    Events = {e1, e2}
    NoEvent = NoEvent
    Contents <- ChainedContents
    NoContent = NoContent
    Processors = {k1, k2}
    Sessions = {s1}
    ManualConfirmation = TRUE
    MaxFailures = 1
PROPERTIES EventuallySettled
