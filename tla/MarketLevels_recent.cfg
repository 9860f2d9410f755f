CONSTANTS
  Price = {200, 206, 213}
  Wing = 1
  LeastRows = 3
  Lookback = 4
  Recent = 1
  FibRows = 3
  MaxBars = 7
SPECIFICATION Spec
INVARIANT KeyLevelsRecent
