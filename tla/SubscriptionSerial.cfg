SPECIFICATION Spec
CONSTANTS
    Rows = {s1, s2}
    Clerks = {c1}
    Work = {"intake", "pay", "refund", "close", "scale", "allot", "batch", "retry"}
    Quantity = 2
    Price = 2
    Payments = {3, 4, 5}
    Cap = 3
    Authorized = 4
SYMMETRY Interchangeable
INVARIANTS
    TypeOK
    SharesArePaid
    ClosedIsEmpty
CHECK_DEADLOCK FALSE
