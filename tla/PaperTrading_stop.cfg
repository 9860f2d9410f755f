CONSTANTS
  Order = {o1}
  Price = {1, 2, 3}
  MaxBars = 3
  MaxFaults = 0
SPECIFICATION Spec
INVARIANTS StopNotOverlooked
