SPECIFICATION Spec
SYMMETRY Symmetry
CONSTANTS
    None = None
    Self = Self
    Peers = {p1, p2, p3, p4}
    Rounds = {r1, r2}
    MaxView = 2
    Swap = 1
    Protect = 1
    MaxSeq = 1
    MaxHop = 2
    MaxPush = 1
CHECK_DEADLOCK FALSE
INVARIANT GossipInv
INVARIANT PushValid
INVARIANT MergeFills
PROPERTY EvictedWhenFull
