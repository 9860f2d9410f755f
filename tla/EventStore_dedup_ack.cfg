\* A repeated append is confirmed without an fsync.
CONSTANTS
  p1 = p1
  p2 = p2
  k1 = k1
  k2 = k2
  main = main
  alt = alt
  noProc = noProc
  Proc <- MCProc
  NoProc = noProc
  Key <- OneKey
  Main = main
  Fork <- NoFork
  PartMaxEvents = 5
  MaxParts = 1
  MaxCrashes = 1
  MaxPowerLosses = 1
  MaxFsyncErrors = 0
SPECIFICATION Spec
INVARIANTS
  AckedDurable
SYMMETRY Symmetry
