SPECIFICATION FairSpec
CONSTANTS
    None = None
    Gone = Gone
    d1 = d1
    d2 = d2
    k1 = k1
    k2 = k2
    Daemons = {d1, d2}
    Old = {d2}
    Clients = {k1, k2}
    Polls = 2
INVARIANTS
    OwnerUnlessRaced
PROPERTIES
    StopIsObeyed
    EveryCommandEnds
CHECK_DEADLOCK FALSE
