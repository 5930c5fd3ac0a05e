\* Two categories, two tags, one tea, two mutations; statements may fail, and a
\* category may have more tags than a channel holds.
CONSTANTS
    CatIds = {k1, k2}
    TagIds = {x1, x2}
    TeaIds = {i1}
    Requests = {r1, r2}
    ChanSize = 1
    None = None
SPECIFICATION CatalogSpec
INVARIANTS
    RemovalAnnouncedUnlessRaced
    DroppedOnlyIfGone
CHECK_DEADLOCK FALSE
