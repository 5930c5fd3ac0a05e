\* Two users, collections, records and teas, three requests; statements may
\* fail.
CONSTANTS
    Users = {u1, u2}
    CollectionIds = {c1, c2}
    RecordIds = {q1, q2}
    TeaIds = {i1, i2}
    Expirations = {1}
    Requests = {r1, r2, r3}
    StorageMayFail = TRUE
    None = None
SPECIFICATION ColSpec
INVARIANTS FailedOnlyIfGone
PROPERTY OwnerOnly
SYMMETRY MCSymmetry
CHECK_DEADLOCK FALSE
