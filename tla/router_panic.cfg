SPECIFICATION RouterSpec
CONSTANTS
    NoCaller = NoCaller
    Callers = {c1}
    Stoppers = {s1}
    MaxCalls = 2
CHECK_DEADLOCK FALSE
INVARIANT NoPanic
