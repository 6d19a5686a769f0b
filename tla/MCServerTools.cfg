SPECIFICATION Spec
CONSTANTS
    c1 = c1
    c2 = c2
    Calls <- MCCalls
    MaxRow = 2
    Bulk = 1
    PageSize = 1
SYMMETRY Symmetry
INVARIANTS
    WritesStayInScope
    WarnedUnlessRaced
    CachesFollowWrites
    DumpMatchesTable
