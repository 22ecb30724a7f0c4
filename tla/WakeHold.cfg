\* Two requests for one model, which may wake in silence, under every limit.
CONSTANTS
    c1 = c1  c2 = c2  m1 = m1  k1 = k1
    Call = {c1, c2}
    Model = {m1}
    ModelOf <- OneModel
    Caller = {k1}
    NoCaller = NoCaller
    Requests <- RetryOrShared
    Limits <- EachBinds
    KeepAlives = TRUE
    NoPoll = NoPoll
    MaxEvents = 3
SPECIFICATION FairSpec
INVARIANT DemandExact
INVARIANT WakeNotMissed
PROPERTY HealthyReleases
CHECK_DEADLOCK FALSE
