SPECIFICATION FairSpec
CONSTANTS
    d1 = d1
    d2 = d2
    Docs = {d1, d2}
    Contents = {"a", "b"}
    None = None
    Callers = {1, 2}
    InitCorpus <- MCInitCorpus
    MaxEdits = 3
    MaxFaults = 2
INVARIANTS
    SignatureHolds
PROPERTIES
    ReindexRebuilds
    EventuallyFresh
