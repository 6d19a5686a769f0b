SPECIFICATION StatementsSpec
CONSTANTS
    Ids = {1, 2}
    Values = {1, 2}
    Null = Null
    Hidden = Hidden
    Where <- MCWhere
    Data <- MCData
    MaxTake = 2
    MaxRepeats = 2
CHECK_DEADLOCK FALSE
INVARIANTS
    WritesAreAsAsked
    UpsertsSettle
    PagesCoverTable
