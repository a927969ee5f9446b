CONSTANTS
    Assessments = {a1, a2}
    Payments = {p1, p2}
    Refunds = {r1, r2}
    Nothing = Nothing
SPECIFICATION PageSpec
SYMMETRY Interchangeable
INVARIANTS
    PageTypeOK
    FollowsTheService
PROPERTIES
    ConfirmedWhatIsSent
