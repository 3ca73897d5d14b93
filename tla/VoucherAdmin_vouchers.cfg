SPECIFICATION Spec
CONSTANTS
    o1 = o1
    o2 = o2
    o3 = o3
    e1 = e1
    e2 = e2
    Null = Null
    Orders = {o1, o2, o3}
    UserOf <- MCUserOf
    AmountOf <- MCAmountOf
    Edits = {e1, e2}
    Creations <- MCCreations
    Changes <- MCChanges
    MaxTime = 1
SYMMETRY MCSymmetry
INVARIANTS
    DriftBounded
PROPERTIES
    UseWithinLimits
\* all orders may be placed and cancelled
CHECK_DEADLOCK FALSE
