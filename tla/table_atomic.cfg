SPECIFICATION FairSpec
CONSTANTS
    u1 = u1
    u2 = u2
    p1 = p1
    p2 = p2
    s1 = s1
    s2 = s2
    Advancer = Advancer
    None = None
    Peers = {p1, p2}
    Servers = {s1, s2}
    Upserters = {u1, u2}
    From <- SplitFrom
    TTLs = {1}
    MaxSeq = 1
    MaxTime = 2
PROPERTY ImplementsTable
PROPERTY OperationsReturn
