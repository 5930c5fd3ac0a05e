\* Three subscriptions on one registry and two broadcasts: CleanDone runs between,
\* before and after them, and removes up to three entries.
CONSTANTS
    Clients = {c1, c2, c3}
    Topics = {t1}
    Messages = {m1, m2}
    NoTopic = NoTopic
    NoMessage = NoMessage
    MaxSent = 2
SYMMETRY MCSymmetry
SPECIFICATION MCSpec
INVARIANTS
    NoPanic
    RegistryIntact
    DeliveredInOrder
PROPERTY ImplementsBroadcast
CHECK_DEADLOCK FALSE
