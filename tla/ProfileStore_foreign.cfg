CONSTANTS
  Style = {left, right}
  Foreign = {trend}
  Unknown = unknown
  Symbol = {s1}
  MaxSeconds = 1
  MaxFacts = 3
SPECIFICATION Spec
INVARIANT ReadsLast
CHECK_DEADLOCK FALSE
