SPECIFICATION Spec
CONSTANTS
    t1 = t1
    t2 = t2
    s1 = s1
    s2 = s2
    None = None
    Tables <- MCTables
    Streams <- MCStreams
    First = t1
    MaxChanges <- MCMaxChanges
PROPERTIES
    ChangesReachPage
    StreamsAreForgotten
