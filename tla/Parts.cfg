CONSTANTS
  Prompt = 4
  Kept = 1
  MaxUsers = 3
  MaxCalls = 1
  MaxReplies = 3
  Session = {"s1", "s2"}
  Message = {"m1", "m2", "m3"}
  SessionOf <- MessageOf
  MaxInputs = 4
  Large = {"s2"}
  MaxParts = 2
  MaxRuns = 2
  Style = {"swing", "scalping"}
  Foreign = {"day"}
  Unknown = "unknown"
  Symbol = {"BTC", "ETH"}
  MaxSeconds = 2
  MaxFacts = 3
  Asset = {"a1", "a2"}
  Query = {"q1", "q2", "q3"}
  Legible = {"q1", "q2"}
  Names <- AssetNames
  Symbols <- AssetNames
  Worker = {"w1", "w2"}
  MaxQueries = 3
  Price = {200, 206, 213}
  Wing = 1
  LeastRows = 3
  Lookback = 4
  Newest = 1
  FibRows = 3
  MaxBars = 4
  MaxFaults <- Faults
SPECIFICATION Spec
INVARIANTS
  NothingForgotten
  Accounted
  AllOrNothing
  ReadsLastSteady
  SameAnswer
  RepeatedLevelShown
PROPERTY PrepareEnds
CHECK_DEADLOCK FALSE
