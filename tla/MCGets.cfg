SPECIFICATION FairSpec
CONSTANTS
    feed1 = feed1
    feed2 = feed2
    mine1 = mine1
    feed = feed
    mine = mine
    Gets = {feed1, feed2, mine1}
    Queries = {feed, mine}
    QueryOf <- MCQueryOf
    MaxWatchStreamFailures = 1
    MaxGets = 2
    MaxEvents = 2
    MaxFaults = 2
INVARIANTS
    TrackerAsserts
    StreamAsNeeded
    ListenersReleased
    NoGetForgotten
PROPERTIES
    CacheWhenOffline
    Implements
    GetsAnswered
CHECK_DEADLOCK FALSE
