SPECIFICATION Spec
CONSTANTS
    None = None
    Malformed = Malformed
    u1 = u1
    u2 = u2
    u3 = u3
    bad = bad
    default = default
    users = users
    Urls <- MCUrls
    Names <- MCNames
    Default = default
    Started <- MCStarted
    Versions <- MCVersions
    MaxEdits = 1
    Clients = {c1, c2}
    Http = TRUE
    ReadonlyFlag = FALSE
    Chosen = None
    BadUrls <- MCBadUrls
    Unresolved = bad
    MaxMcpStarts = 1
    Posts = {1}
    Requests <- MCRequests
    MaxUnderWay = 1
    MaxSets = 1
    MaxApiStarts = 2
INVARIANT
    SetupsFollowFiles
PROPERTY
    ContextFollowsFlag
CHECK_DEADLOCK FALSE
