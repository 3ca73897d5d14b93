SPECIFICATION Spec
CONSTANTS
    i1 = i1
    i2 = i2
    Items = {i1, i2}
    Bought <- MCBought
    Price <- MCPrice
    ComboItems <- MCComboItems
    Discounts <- MCDiscounts
    Shipping = 1
    AdminAmounts = {1, 3}
    MaxRequests <- MCMaxRequests
INVARIANTS
    ReturnedUnits
    CompletedWasPaid
    ApprovedWithinTotal
    RefundsAddUp
PROPERTIES
    ClosedRequestsFinal
\* all goods may be returned and paid for
CHECK_DEADLOCK FALSE
