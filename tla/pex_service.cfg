SPECIFICATION FairSpec
CONSTANTS
    None = None
    Namespaces = {n1}
    Callers = {c1, c2}
    Gossipers = {g1, g2}
    Tick = 1
    Timeout = 1
    MaxPeers = 2
    MaxCalls = 2
CHECK_DEADLOCK FALSE
 
INVARIANT OneTracker
PROPERTY FindReturns
 
