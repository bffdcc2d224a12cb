SPECIFICATION StoreSpec
CONSTANTS
    Jobs = {j1, j2}
    Owners = {w1, w2}
    None = None
    MaxClaims = 3
    MaxRetry = 1
    MaxDead = 2
CONSTRAINT StoreBound
INVARIANTS
    LiveXorArchived
    ClaimEpochsDistinct
PROPERTY
    ImplementsLifecycle
