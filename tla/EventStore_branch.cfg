\* Branches are created and activated by two processes.
CONSTANTS
  p1 = p1
  p2 = p2
  k1 = k1
  k2 = k2
  main = main
  alt = alt
  noProc = noProc
  Proc <- MCProc
  NoProc = noProc
  Key <- OneKey
  Main = main
  Fork <- OneFork
  PartMaxEvents = 5
  MaxParts = 1
  MaxCrashes = 0
  MaxPowerLosses = 0
  MaxFsyncErrors = 0
SPECIFICATION Spec
INVARIANTS
  UniqueKeys
  BranchChain
SYMMETRY Symmetry
