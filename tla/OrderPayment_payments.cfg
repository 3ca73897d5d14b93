SPECIFICATION Spec
CONSTANTS
    o1 = o1
    o2 = o2
    v1 = v1
    Orders = {o1}
    Variants = {v1}
    UserOf <- MCUserOf
    Qty <- MCQty
    InitStock <- MCInitStock
    MaxQty = 2
    AdminStock = {}
    Methods = {"vnpay", "cod"}
    MaxPayments = 2
    MaxAttempts = 1
    MaxJobs = 1
    MaxSupplied = 2
    UsageLimit = 0
    UserLimitPerUser = 1
INVARIANTS
    TypeOK
    StatusInventory
    CancelledNotPaid
    FulfilledWasPaid
PROPERTIES
    StatusForward
    DecidedOnce
\* every order may reach a final status with nothing left to do
CHECK_DEADLOCK FALSE
