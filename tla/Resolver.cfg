\* Three requests of up to three conversations, two at a time; the store holds
\* two pins.
CONSTANTS
    Owner = {"o1", "o2"}
    perShard = 2
    perOwnerCap = 2
    failureProbe = 2
    FailureMarkers = {"panic"}
    CodeWords = {"func"}
    Caller = {p1, p2}
    MaxRequests = 3
    Cases <- MCCases
    Configs <- MCConfigs
    Model = {"big", "small", "eye"}
    perMessageOverhead = 4
    MaxTime = 2
    MaxChanges = 1
SYMMETRY Symmetry
SPECIFICATION Spec
INVARIANT UsableFound
INVARIANT FailureTold
PROPERTY EntryKept
 
CHECK_DEADLOCK FALSE
