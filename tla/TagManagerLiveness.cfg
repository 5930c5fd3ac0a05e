\* One subscription, one mutation on one category, two tags and one tea; a
\* category may have more tags than a channel holds.
CONSTANTS
    CatIds = {k1}
    TagIds = {x1, x2}
    TeaIds = {i1}
    Requests = {r1}
    ChanSize = 1
    None = None
    Clients = {c1}
    Topics <- MCTopics
    Messages <- MCMessages
    NoTopic = NoTopic
    NoMessage = NoMessage
SPECIFICATION TagFairSpec
INVARIANTS
    TagTypeOK
    ToldWhatWasAsked
PROPERTIES
    EventuallyHandled
    CleanedAfterEvent
CHECK_DEADLOCK FALSE
