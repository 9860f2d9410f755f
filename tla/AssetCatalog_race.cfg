CONSTANTS
  Asset = {a1, a2}
  Query = {q1, q2}
  Legible = {q1, q2}
  Names = {}
  Symbols = {}
  Worker = {w1, w2}
  MaxQueries = 2
  MaxFaults = 0
SPECIFICATION Spec
INVARIANT RegistrationKept
CHECK_DEADLOCK FALSE
