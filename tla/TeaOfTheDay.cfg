\* One user, three concurrent requests over three days of two hours each.
CONSTANTS
    Users = {u1}
    Teas = {x1, x2}
    Requests = {r1, r2, r3}
    DayLength = 2
    Retention = 3
    MaxTime = 5
    None = None
SYMMETRY MCSymmetry
SPECIFICATION TodSpec
INVARIANTS
    NeverYesterdaysTea
    HistoryKept
PROPERTIES
    EvictsOnlyExpired
    ReplacedOnlyInRace
CHECK_DEADLOCK FALSE
