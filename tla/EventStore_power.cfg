\* One partition, power losses and a process crash; fsync works; fair steps.
CONSTANTS
  p1 = p1
  p2 = p2
  k1 = k1
  k2 = k2
  main = main
  alt = alt
  noProc = noProc
  Proc <- MCProc
  NoProc = noProc
  Key <- OneKey
  Main = main
  Fork <- NoFork
  PartMaxEvents = 5
  MaxParts = 1
  MaxCrashes = 1
  MaxPowerLosses = 2
  MaxFsyncErrors = 0
SPECIFICATION FairSpec
INVARIANTS
  CommittedDurable
PROPERTIES
  ImplementsDurableLog
  LockReleased
