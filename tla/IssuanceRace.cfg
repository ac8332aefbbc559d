SPECIFICATION Spec
CONSTANTS
    Workers = {w1, w2}
    Paid = 3
    Cost = 2
    MaxClaims = 3
SYMMETRY Interchangeable
INVARIANTS
    TypeOK
    MoneyBehindShares
    ReleasedIsUnsigned
    RecordsAreTrue
PROPERTIES
    RestartIsAuthorised
    GuardsNeverRefuse
    UsesTheJournal
    IsSharesOrMoney
CHECK_DEADLOCK FALSE
