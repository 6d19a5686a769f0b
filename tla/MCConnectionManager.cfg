\* One database, start-up and three concurrent calls.
CONSTANTS
    d1 = d1
    main = main
    c1 = c1
    c2 = c2
    c3 = c3
    p1 = p1
    p2 = p2
    p3 = p3
    p4 = p4
    p5 = p5
    p6 = p6
    None = None
    Databases = {d1}
    Default = d1
    Calls = {main, c1, c2, c3}
    Main = main
    Pools = {p1, p2, p3, p4, p5, p6}

SPECIFICATION FairSpec

INVARIANTS
    StatusMatchesPool
    OneAttemptPerDatabase

PROPERTIES
    NoSilentReplacement
    EveryGetReturns
