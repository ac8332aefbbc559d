SPECIFICATION FairSpec
CONSTANTS
    Workers = {w1}
    Paid = 2
    Cost = 1
    MaxClaims = 2
PROPERTIES
    Resolves
CHECK_DEADLOCK FALSE
