\* Two databases, start-up and two concurrent calls.
CONSTANTS
    d1 = d1
    d2 = d2
    main = main
    c1 = c1
    c2 = c2
    p1 = p1
    p2 = p2
    p3 = p3
    p4 = p4
    p5 = p5
    None = None
    Databases = {d1, d2}
    Default = d1
    Calls = {main, c1, c2}
    Main = main
    Pools = {p1, p2, p3, p4, p5}

SPECIFICATION RoutingSpec

INVARIANTS
    PoolOfRequestedDatabase
    SchemasOfOtherDatabases

PROPERTY SwitchOnlyOnSuccess
CHECK_DEADLOCK FALSE
VIEW LivePools
