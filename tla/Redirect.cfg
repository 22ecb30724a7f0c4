\* One client request and what may happen to it between four routers.
CONSTANTS
    A = A
    B = B
    C = C
    D = D
    m1 = m1
    m2 = m2
    auto = auto
    Sites <- MCSites
    Models = {m1, m2}
    Alias = auto
    Aliased = {A, B}
    Allowed = {m1}
    Country <- MCCountry
    EU = {A, C}
    Home <- MCHome
    BySession <- MCBySession
    Docs <- MCDocs
    Requests <- MCRequests
    Serving <- MCServing
    MaxHops = 2
    HomeSize = 2
    SlowBody = FALSE
    Faults = 2
SPECIFICATION Spec
INVARIANT ScopeKept
INVARIANT SameRequest
 
 
CHECK_DEADLOCK FALSE
