SPECIFICATION Spec
CONSTANTS
    Rows = {s1, s2}
    Clerks = {c1}
    Work = {"pay"}
    Quantity = 2
    Price = 2
    Payments = {3, 4}
    Cap = 4
    Authorized = 4
SYMMETRY Interchangeable
INVARIANTS
    OwedIsRecorded
CHECK_DEADLOCK FALSE
