\* Two keys, two pushes.
CONSTANTS
    h1 = h1 h2 = h2
    ID = {1, 2}
    Hash = {h1, h2}
    None = None
    MaxVer = 2
    MaxGen = 3
    Cleanup = FALSE
    Budgets <- Faults
SPECIFICATION FairSpec
 
INVARIANT ConfirmationTrue
PROPERTY CacheSpec
PROPERTY Repaired
CHECK_DEADLOCK FALSE
