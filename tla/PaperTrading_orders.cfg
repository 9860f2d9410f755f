CONSTANTS
  Order = {o1}
  Price = {1, 2, 3}
  MaxBars = 3
  MaxFaults = 1
SPECIFICATION Spec
INVARIANTS
  TypeOK
  NoLookBack
  BatchComplete
  ProfitSigned
PROPERTY TerminalStays
