\* A pipeline whose documents are all withdrawn or superseded has no further step.
CHECK_DEADLOCK FALSE
SPECIFICATION FairSpec
CONSTANTS
    w1 = w1
    w2 = w2
    defaultId = defaultId
    Documents = {d1, d2}
    NoDocument = NoDocument
    Workers = {w1, w2}
    Identity <- MCIdentity
    NoOwner = NoOwner
    BatchSize = 2
    MaxAttempts = 2
    MaxCrashes = 1
    MaxOverruns = 1
INVARIANTS TypeOK JobMatchesDocument AttemptsLeft SupersededByRelease
PROPERTIES VerdictIsFinal EventuallySettled ImplementsRelease
