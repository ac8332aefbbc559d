SPECIFICATION FairSpec
CONSTANTS
    s1 = s1
    Ops = {o1}
    Signers <- OneSigner
    SignerOf <- SentByS1
    ForeignUse <- Nobody
    Workers = {w1, w2}
    MaxNonce = 3
    MaxGeneration = 3
    MaxClaims = 3
    None = None
INVARIANTS
    TypeOK
    AppliedOnce
    ClaimFencesWorkers
    RecordedIsTrue
PROPERTIES
    ImplementsOnceOnly
    SignedIsResolved
CHECK_DEADLOCK FALSE
