CONSTANTS
  Plan = {p1}
  Candle <- Shapes
  MaxCandles = 3
  MaxFaults = 2
  MaxFails = 0
SPECIFICATION Spec
INVARIANT NoticeOnce
CHECK_DEADLOCK FALSE
