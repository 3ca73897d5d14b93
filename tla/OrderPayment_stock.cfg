SPECIFICATION FairSpec
CONSTANTS
    o1 = o1
    o2 = o2
    v1 = v1
    Orders = {o1, o2}
    Variants = {v1}
    UserOf <- MCUserOf
    Qty <- MCQty
    InitStock <- MCInitStock
    MaxQty = 2
    AdminStock = {3}
    Methods = {"vnpay"}
    MaxPayments = 1
    MaxAttempts = 1
    MaxJobs = 2
    MaxSupplied = 3
    UsageLimit = 1
    UserLimitPerUser = 1
INVARIANTS
    InventoryAccounting
    NoOverselling
    VoucherAccounting
PROPERTIES
    ExpiryReleasesStock
\* every order may reach a final status with nothing left to do
CHECK_DEADLOCK FALSE
