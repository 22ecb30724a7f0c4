SPECIFICATION Spec
CONSTANTS
  r1 = r1
  r2 = r2
  Requests = {r1, r2}
  Cases <- MCCases
  TPD = 3
  RPM = 1
  ITPM = 2
  OTPM = 1
  MaxReplicas = 1
  MaxDay = 1
  Faults = 1
  ReadErrors = TRUE
SYMMETRY Symmetry
 
INVARIANT NotOvercharged
CHECK_DEADLOCK FALSE
