SPECIFICATION Spec
CONSTANTS
    Requests = {q1, q2}
    Items = {i1}
    Prices = {2}
    Quantities = {1}
    Terms <- MCTerms
    MaxUses = 1
    MinSpend = 2
    MaxStock = 2
    MaxCarts = 1
    MaxLines = 1
    MaxReservations = 2
    MaxOrders = 2
SYMMETRY Symmetry
INVARIANTS TypeOK ReservedIsBacked TotalsAddUp CouponCounted PaidBeforeFulfilled
CHECK_DEADLOCK FALSE
