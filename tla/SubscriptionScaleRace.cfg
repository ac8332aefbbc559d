SPECIFICATION Spec
CONSTANTS
    Rows = {s1, s2}
    Clerks = {c1, c2}
    Work = {"pay", "refund", "scale"}
    Quantity = 2
    Price = 2
    Payments = {4}
    Cap = 3
    Authorized = 4
SYMMETRY Interchangeable
INVARIANTS
    NeverOverRefunded
CHECK_DEADLOCK FALSE
