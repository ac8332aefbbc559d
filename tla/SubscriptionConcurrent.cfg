SPECIFICATION Spec
CONSTANTS
    Rows = {s1, s2}
    Clerks = {c1, c2}
    Work = {"pay", "refund", "close", "allot", "retry"}
    Quantity = 2
    Price = 2
    Payments = {3, 4}
    Cap = 3
    Authorized = 4
SYMMETRY Interchangeable
INVARIANTS
    CapRespected
    NeverOverRefunded
    RefundsAreRecorded
CHECK_DEADLOCK FALSE
