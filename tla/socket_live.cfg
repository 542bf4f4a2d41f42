SPECIFICATION FairSpec
CONSTANTS
    None = None
    Subs = {c1, c2}
    Namespaces = {n1}
    Limits = {0, 1}
    BufSize = 1
    TTLs = {}
    MaxTime = 0
CHECK_DEADLOCK FALSE
PROPERTY SubscriptionEnds
PROPERTY LimitEnds
PROPERTY ServeStops
