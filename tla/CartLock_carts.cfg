SPECIFICATION FairSpec
CONSTANTS
    v1 = v1
    v2 = v2
    p1 = p1
    p2 = p2
    Requests = {p1, p2}
    Variants = {v1, v2}
    Guest = Guest
    User = User
    None = None
    InitialItems <- MCInitialItems
    Ops = {"get", "add", "update", "remove", "validate", "clear", "merge"}
    Quantities = {1}
    MaxLines = 1
INVARIANTS
    HoldersOwnLocks
PROPERTIES
    NoLostUpdate
    DropsOnlyWhatWasRead
    RequestsEnd
\* all requests may have ended
CHECK_DEADLOCK FALSE
