SPECIFICATION FairSpec
CONSTANTS
    p1 = p1
    p2 = p2
    NumEvents = 2
    Publishers = {p1, p2}
    MaxRetry = 2
    BatchSize = 2
    MaxFaults = 3
INVARIANTS
    PublishedWasSent
PROPERTIES
    ImplementsDelivery
    EventuallySettled
\* the outbox may be empty and nothing left to do
CHECK_DEADLOCK FALSE
