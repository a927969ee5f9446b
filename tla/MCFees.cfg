CONSTANTS
    court = court
    everywhere = everywhere
    nextYear = nextYear
    Schedules = {court, everywhere, nextYear}
    Conflicting <- Overlaps
    Current = {court, everywhere}
    Payments = {p1, p2}
    Adjustments = {a1}
    Nothing = Nothing
    Sessions = {t1, t2}
SPECIFICATION Spec
SYMMETRY Interchangeable
CHECK_DEADLOCK FALSE
INVARIANTS
    TypeOK
    OneScheduleGoverns
PROPERTIES
    ChargedOnSchedule
    AdjustedBeforeMoney
