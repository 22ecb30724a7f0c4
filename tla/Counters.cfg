\* Two forwards whose outcomes are recorded at any time, three objects, and
\* two flushes, one reset and one crash among them.
SPECIFICATION CountersSpec
CONSTANTS
  Rec = {r1, r2}
  MaxObjects = 3
  MaxFlushes = 2
  MaxResets = 1
  MaxCrashes = 1
SYMMETRY Symmetry
 
INVARIANT ResetHolds
CHECK_DEADLOCK FALSE
