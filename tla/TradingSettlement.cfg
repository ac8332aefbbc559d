SPECIFICATION Spec
CONSTANTS
    a1 = a1
    b1 = b1
    b2 = b2
    Sells = {a1}
    Buys = {b1, b2}
    Swaps = {s1, s2}
    Workers = {w1, w2}
    MaxQuantity = 2
    Terms <- ManyTerms
    None = None
SYMMETRY Interchangeable
INVARIANTS
    TypeOK
    FilledIsAccounted
    OutcomeIsTrue
    MatchesHoldOrders
    TermsStand
PROPERTIES
    ImplementsSettledOrReleased
CHECK_DEADLOCK FALSE
