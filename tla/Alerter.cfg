\* One user with one collection, two records that expire at different times, one
\* device with its identifier or one token; one request, one Stop, runs that fail.
CONSTANTS
    Users = {u1}
    CollectionIds = {c1}
    RecordIds = {q1, q2}
    TeaIds = {i1}
    Expirations = {0, 1}
    Requests = {r1}
    StorageMayFail = FALSE
    RunsMayFail = TRUE
    DeviceIds = {d1}
    PushTokens = {t1}
    Stops = {s1}
    MaxTime = 1
    None = None
SPECIFICATION AlertSpec
INVARIANTS RunCovers
PROPERTIES AlertedEveryWeek StopReturns
CHECK_DEADLOCK FALSE
