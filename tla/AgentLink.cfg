\* An agent with two faults, or one and a renewal.
CONSTANTS
    m1 = m1 m2 = m2
    Model = {m1}
    Token = {1, 2, 3}
    Conn = {1, 2}
    None = 0
    Threshold = 1
    Budgets <- FaultsOrRenewal
SPECIFICATION FairSpec
INVARIANT LateHeartbeat
INVARIANT TokenOverlap
PROPERTY Settles
CHECK_DEADLOCK FALSE
