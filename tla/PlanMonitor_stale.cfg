CONSTANTS
  Plan = {p1}
  Candle <- Shapes
  MaxCandles = 3
  MaxFaults = 0
  MaxFails = 0
SPECIFICATION Spec
PROPERTY NoStaleNotice
CHECK_DEADLOCK FALSE
