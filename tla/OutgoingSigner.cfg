SPECIFICATION Spec
CONSTANTS
    s1 = s1
    Ops = {o1, o2}
    Signers <- OneSigner
    SignerOf <- SentByS1
    ForeignUse <- OneSigner
    Workers = {w1, w2}
    MaxNonce = 2
    MaxGeneration = 4
    MaxClaims = 1
    None = None
SYMMETRY Interchangeable
INVARIANTS
    NonceUnique
    NoNonceGap
    NoDelayedPreparer
PROPERTIES
    ClosureDrains
CHECK_DEADLOCK FALSE
