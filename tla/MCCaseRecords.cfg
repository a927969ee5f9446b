SPECIFICATION Spec
CONSTANTS
    t1 = t1
    t2 = t2
    Requests = {r1, r2}
    NoRequest = NoRequest
    Actors = {u1, u2}
    NoActor = NoActor
    Transactions <- MCTransactions
SYMMETRY Sessions
INVARIANTS TypeOK ReviewIsDecidable ApprovalIsWarranted
PROPERTIES DecisionsAreFinal
