\* One subscription and two mutations, channels of capacity 1: senders block, and
\* mutations of one kind overtake each other between write and send.
CONSTANTS
    Clients = {c1}
    Topics = {"create", "update", "delete"}
    Messages = {r1, r2}
    TeaIds = {i1, i2}
    ChanSize = 1
    NoTopic = NoTopic
    NoMessage = NoMessage
    NoOp = NoOp
SPECIFICATION FairSpec
INVARIANTS
    AnnouncedOnce
    RealTimeOrder
PROPERTIES
    BroadcastOrStalled
    RemovedOrStalled
CHECK_DEADLOCK FALSE
