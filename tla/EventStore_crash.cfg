\* Two processes, two process crashes, a failing fsync and rotation; no power loss.
CONSTANTS
  p1 = p1
  p2 = p2
  k1 = k1
  k2 = k2
  main = main
  alt = alt
  noProc = noProc
  Proc <- MCProc
  NoProc = noProc
  Key <- OneKey
  Main = main
  Fork <- NoFork
  PartMaxEvents = 2
  MaxParts = 2
  MaxCrashes = 2
  MaxPowerLosses = 0
  MaxFsyncErrors = 1
SPECIFICATION Spec
INVARIANTS
  TypeOK
  WriterExclusive
  Numbering
  CrashNeverQuarantines
PROPERTIES
  OnlyPowerLossForgets
SYMMETRY Symmetry
