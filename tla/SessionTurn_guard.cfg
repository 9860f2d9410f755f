\* Two processes share the session: turns exclude each other, deliveries overlap them.
CONSTANTS
  m1 = m1
  m2 = m2
  w1 = w1
  w2 = w2
  c1 = c1
  c2 = c2
  noMsg = noMsg
  noWorker = noWorker
  noCall = noCall
  Msg <- TwoMsgs
  Worker <- TwoWorkers
  NoMsg = noMsg
  NoWorker = noWorker
  NoCall = noCall
  Batches <- OneCall
  LoopSteps = 1
  MaxDeliveries = 2
  MaxFaults = 1
SPECIFICATION Spec
INVARIANTS
  TypeOK
  ResultTruth
  DeliveredTruth
SYMMETRY Symmetry
\* The environment may deliver nothing more.
CHECK_DEADLOCK FALSE
