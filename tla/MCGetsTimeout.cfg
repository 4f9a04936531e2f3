SPECIFICATION Spec
CONSTANTS
    feed1 = feed1
    feed2 = feed2
    mine1 = mine1
    feed = feed
    mine = mine
    Gets = {feed1, feed2}
    Queries = {feed}
    QueryOf <- MCQueryOf
    MaxWatchStreamFailures = 1
    MaxGets = 2
    MaxEvents = 1
    MaxFaults = 1
INVARIANTS
    UnknownIsTimed
