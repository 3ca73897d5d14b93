SPECIFICATION FairSpec
CONSTANTS
    r1 = r1
    r2 = r2
    u1 = u1
    u2 = u2
    k1 = k1
    k2 = k2
    v1 = v1
    v2 = v2
    Requests = {r1, r2}
    Users = {u1, u2}
    Keys = {k1, k2}
    Variants = {v1, v2}
    Voucher = Voucher
    None = None
    UserOf <- MCUserOf
    Scenarios <- MCScenarios
    Carts <- MCCarts
    InitStock <- MCInitStock
    Edits <- MCEdits
    InitCart <- MCInitCart
    UsageLimit = 1
    UserLimit = 1
    MaxQuantity = 2
    EditAt <- MCEditAt
    MaxRemovals <- MCMaxRemovals
INVARIANTS
    OncePerKey
    InventoryExact
    VoucherExact
    ClearedWasRead
PROPERTIES
    CheckoutEnds
    PlacesAtomically
\* every request may have ended
CHECK_DEADLOCK FALSE
