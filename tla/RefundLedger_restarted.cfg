SPECIFICATION Spec
CONSTANTS
    k1 = k1
    k2 = k2
    k3 = k3
    Amount = 3
    Keys = {k1, k2}
    ReturnKeys = {}
    Requested <- MCRequested
    Approvable = {1, 3}
    MaxAmount = 3
    KeyStarts = 2
    MaxWorkflows = 3
    MaxEvents = 1
INVARIANTS
    ReservedWithinPayment
\* all refunds may be finished with nothing left to do
CHECK_DEADLOCK FALSE
