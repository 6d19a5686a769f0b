\* Two requests on two clients, and one more reader of the structure.
CONSTANTS
    r1 = r1
    r2 = r2
    c1 = c1
    c2 = c2
    l1 = l1
    None = None
    Requests = {r1, r2}
    Clients = {c1, c2}
    Handlers <- MCHandlers
    Readers = {l1}
    Setters = {"script"}

SPECIFICATION FairSpec

INVARIANTS
    ClientsComeBackClean
    
    CacheFollowsWrites

PROPERTY EveryRequestEnds
