\* A partition is rotated behind a line that was never fsynced.
CONSTANTS
  p1 = p1
  p2 = p2
  k1 = k1
  k2 = k2
  main = main
  alt = alt
  noProc = noProc
  Proc <- MCProc
  NoProc = noProc
  Key <- TwoKeys
  Main = main
  Fork <- NoFork
  PartMaxEvents = 2
  MaxParts = 2
  MaxCrashes = 1
  MaxPowerLosses = 0
  MaxFsyncErrors = 0
SPECIFICATION Spec
PROPERTIES
  RotationSettled
SYMMETRY Symmetry
