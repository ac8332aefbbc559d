SPECIFICATION Spec
CONSTANTS
    Rows = {s1, s2}
    Clerks = {c1}
    Work = {"pay", "allot"}
    Quantity = 2
    Price = 1
    Payments = {2}
    Cap = 4
    Authorized = 3
SYMMETRY Interchangeable
INVARIANTS
    PromisedFits
CHECK_DEADLOCK FALSE
