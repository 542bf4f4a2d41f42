SPECIFICATION FairSpec
CONSTANTS
    None = None
    Milli = 2
    TTLRange = 4
    DefaultTTL = 10
    RouterTTL = 4
    Tick = 2
    MaxLag = 2
    MaxNet = 2
    Back = 1
    MaxRestarts = 1
 
 
PROPERTY InstanceSeen
PROPERTY CrashedGone
