SPECIFICATION FairSpec
CONSTANTS
    j1 = j1
    d1 = d1
    u1 = u1
    p1 = p1
    p2 = p2
    Jobs = {j1}
    Designs = {d1}
    Users = {u1}
    None = None
    Polls = {p1, p2}
    AnonRetention = 2
    UserRetention = 3
    BatchSize = 1
    MaxTime = 4
    MaxFaults = 1
INVARIANTS
    ImagesTracked
    LiveResultHasImage
    SavedKept
PROPERTIES
    ExpiredDeleted
\* the clock ends
CHECK_DEADLOCK FALSE
