SPECIFICATION FairSpec
CONSTANTS
    a1 = a1
    b1 = b1
    b2 = b2
    Sells = {a1}
    Buys = {b1, b2}
    Swaps = {s1, s2}
    Workers = {w1, w2}
    MaxQuantity = 1
    Terms <- OneTerm
    None = None
PROPERTIES
    UnclaimedEnds
    SentIsDecided
CHECK_DEADLOCK FALSE
