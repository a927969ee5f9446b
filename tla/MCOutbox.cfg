SPECIFICATION FairSpec
CONSTANTS
    e1 = e1
    e2 = e2
    Events <- MCEvents
    HandledEvents <- MCHandled
    HandlerOutcomes <- WellBehaved
    Workers = {w1, w2}
    NoWorker = NoWorker
    NoEvent = NoEvent
    BatchSize = 2
    LeaseTimeout = 2
    MaxAttempts = 3
    BaseDelay = 2
    MaxDelay = 3
    MaxCrashes = 1
    MaxOverruns = 1
INVARIANTS TypeOK
PROPERTIES BackoffMatchesAttempts EventuallySettled ImplementsContract
