\* One subscription and two mutations, under the fairness of FairSpec.
CONSTANTS
    Clients = {c1}
    Topics = {"create", "update", "delete"}
    Messages = {r1, r2}
    TeaIds = {i1}
    ChanSize = 1
    NoTopic = NoTopic
    NoMessage = NoMessage
    NoOp = NoOp
SPECIFICATION FairSpec
PROPERTIES
    ClosedConnectionsRemoved
CHECK_DEADLOCK FALSE
