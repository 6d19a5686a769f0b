SPECIFICATION Spec
CONSTANTS
    t1 = t1
    t2 = t2
    None = None
    Tables <- MCTables
    First = t1
    Initially <- MCInitially
    MaxRows <- MCMaxRows
    PageSize = 2
    MaxMoves = 1
    MaxAsks = 2
    MaxUpsets = 1
PROPERTIES
    WritesReachMeantRows
    ReportedDeletionsHold
    DialogAnswers
