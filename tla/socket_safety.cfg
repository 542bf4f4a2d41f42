SPECIFICATION Spec
SYMMETRY Symmetry
CONSTANTS
    None = None
    Subs = {c1, c2}
    Namespaces = {n1}
    Limits = {0, 2}
    BufSize = 1
    TTLs = {0, 1}
    MaxTime = 3
CHECK_DEADLOCK FALSE
INVARIANT SocketInv
INVARIANT NoSendOnClosed
PROPERTY ReleasedAtLimit
PROPERTY AdvertKept
