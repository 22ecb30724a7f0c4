\* One slot under a two-step policy whose second step has a gate, with a provider
\* behind it: two requests of which one meets every kind of failure, while the
\* agent is lost, won back or registered again; or three that stand in line.
CONSTANTS
    r1 = r1  r2 = r2  r3 = r3  r4 = r4
    Req = {r1, r2, r3, r4}
    HeldReq = {r2}
    Agent = {1}
    Capacity <- OneSlot
    Steps = 2
    Match <- AnyAgent
    GatedStep = {2}
    MaxTries <- OneThenTwo
    MaxReconnects = 1
    QueueDepth = 1
    MaxConcurrent = 3
    HasProvider = TRUE
    Outcomes <- OneFails
    MaxGen = 2
    Workloads <- FailingOrCrowded
SPECIFICATION FairSpec
INVARIANT SlotsExact
INVARIANT FreedInLineWakes
INVARIANT AttemptsBounded
 
