SPECIFICATION RouterFairSpec
CONSTANTS
    NoCaller = NoCaller
    Callers = {c1, c2}
    Stoppers = {s1}
    MaxCalls = 1
CHECK_DEADLOCK FALSE
INVARIANT StartInv
PROPERTY ShutsDown
PROPERTY BootstrapReturns
