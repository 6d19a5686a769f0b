SPECIFICATION Spec
CONSTANTS
    v1 = v1
    v2 = v2
    script = script
    read = read
    write = write
    None = None
    Asked = Asked
    AllPending = AllPending
    Versions <- MCVersions
    Jobs = {1, 2}
    Tools <- MCTools
    Script = script
    WriteTools <- MCWriteTools
    Runs = {1, 2}
    InitiallyApplied <- MCInitiallyApplied
    MaxVisits = 1
INVARIANTS
    OneJobAtATime
    SelectionIsPending
    ContentOfSelection
    ResultsBelong
