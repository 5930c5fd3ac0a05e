\* Two subscriptions of either kind; streams of up to three chunks on a channel
\* that holds one.
CONSTANTS
    Subscriptions = {s1, s2}
    Names = {n1}
    StreamSize = 1
    MaxChunks = 3
    NoName = NoName
SPECIFICATION AnsSpec
INVARIANTS WholeAnswer
PROPERTIES EndsUnlessLeaked DescriptionServed
CHECK_DEADLOCK FALSE
