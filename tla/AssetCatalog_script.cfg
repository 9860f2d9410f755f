CONSTANTS
  Asset = {a1, a2}
  Query = {q1, q2}
  Legible = {q2}
  Names = {}
  Symbols = {}
  Worker = {w1}
  MaxQueries = 2
  MaxFaults = 0
SPECIFICATION Spec
INVARIANT EveryAnswerSame
CHECK_DEADLOCK FALSE
