SPECIFICATION FairSpec
CONSTANTS
    Dists = 3
    CacheSize = 2
    AddrsOf <- MCAddrsOf
    Bits = 3
    Reserved = 3
    MinOnes = 1
    Hosts = {0, 2}
    Client = 0
    At <- MCAt
    Static <- MCStatic
    Calls <- MCCalls
    Buf = 1
    MaxNet = 2
    NS = ns
    Group = Group
    nil = nil
    Err = Err
    Empty = Empty
INVARIANT OthersOnly
INVARIANT CrawlExact
PROPERTY SentAsMeant
PROPERTY SurveyFinds
PROPERTY FindEnds
CHECK_DEADLOCK FALSE
