CONSTANTS
  Plan = {p1}
  Candle <- Shapes
  MaxCandles = 3
  MaxFaults = 2
  MaxFails = 1
SPECIFICATION Spec
INVARIANTS
  TypeOK
  TriggerExact
  RepeatsExplained
PROPERTY PlanEnds
CHECK_DEADLOCK FALSE
