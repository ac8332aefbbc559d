SPECIFICATION Spec
CONSTANTS
    Commands = {c1, c2}
    Workers = {w1, w2}
    MaxClaims = 3
    MaxTotal = 3
    MaxRetries = 1
    Subjects = {"pause", "nav", "capital", "mint", "deploy", "approval", "whitelist", "wallet", "orders", "files", "holders"}
    Coins = {t1}
    Tokens = {t2}
    Elsewhere = {t2}
    MaxSyncs = 1
    NonceOf <- InOrder
    Funds <- Purse
    Submissions = {s1}
    Cancels = {x1}
    Modifies = {m1}
    OrderOf <- OfTheOne
    MaxChallenges = 2
    Documents = {d1}
    MaxCopies = 2
    Members = {a1, a2}
    MaxValue = 1
    MaxTransfers = 4
    MaxDay = 2
    Retention = 1
    None = None
SYMMETRY Interchangeable
INVARIANTS
    TypeOK
    TargetIsTrue
    LiveOnce
    FailedIsOver
    OneEffect
PROPERTIES
    CapOnlyRises
    GuardsNeverRefuse
CHECK_DEADLOCK FALSE
