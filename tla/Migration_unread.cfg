CONSTANTS
  Session = {s1, s2}
  Large = {s2}
  MaxParts = 1
  MaxRuns = 1
  MaxFaults = 1
SPECIFICATION Spec
INVARIANT OnlyUnreferencedRemoved
CHECK_DEADLOCK FALSE
