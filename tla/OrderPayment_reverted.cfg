SPECIFICATION Spec
CONSTANTS
    o1 = o1
    o2 = o2
    v1 = v1
    Orders = {o1}
    Variants = {v1}
    UserOf <- MCUserOf
    Qty <- MCQty
    InitStock <- MCInitStock
    MaxQty = 2
    AdminStock = {}
    Methods = {"vnpay"}
    MaxPayments = 1
    MaxAttempts = 1
    MaxJobs = 2
    MaxSupplied = 2
    UsageLimit = 0
    UserLimitPerUser = 1
INVARIANTS
    PaidNeverReverted
\* every order may reach a final status with nothing left to do
CHECK_DEADLOCK FALSE
