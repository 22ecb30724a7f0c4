\* Two requests for one model: the first also takes its key's share and grows as
\* it streams, the second comes from a hold and may end at a provider. With one
\* replica they do not fit together, with two they do; the janitor runs.
CONSTANTS
    r1 = r1  r2 = r2  r3 = r3
    model = model  key = key
    Req = {r1, r2}
    HeldReq = {r2}
    Undeclared = {r1}
    ProviderReq = {r2}
    Pool = {model, key}
    PoolOf <- OneShared
    StateId = {s1, s2, s3}
    NoState = NoState
    Weights = {2}
    Replicas = {1, 2}
    AdmitBudget = 2
    MaxInflight = 2
    FracNum = 1  FracDen = 1
    ShareNum = 1  ShareDen = 2
    Parks = TRUE
    GrowSteps = {1}
    Deltas <- MCDeltas
    WeightCap = 3
SPECIFICATION FairSpec
INVARIANT Conservation
INVARIANT CountExact
INVARIANT NoOrphanState
INVARIANT NoLostWakeup
PROPERTY AllReturned
