CONSTANTS
  Plan = {p1}
  Candle <- Shapes
  MaxCandles = 3
  MaxFaults = 1
  MaxFails = 1
SPECIFICATION Spec
INVARIANT NoticeOnce
CHECK_DEADLOCK FALSE
