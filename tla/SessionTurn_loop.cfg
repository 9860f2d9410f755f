\* Two messages, the first one cut off and delivered late.
CONSTANTS
  m1 = m1
  m2 = m2
  w1 = w1
  w2 = w2
  c1 = c1
  c2 = c2
  noMsg = noMsg
  noWorker = noWorker
  noCall = noCall
  Msg <- TwoMsgs
  Worker <- OneWorker
  NoMsg = noMsg
  NoWorker = noWorker
  NoCall = noCall
  Batches <- OneCall
  LoopSteps = 1
  MaxDeliveries = 4
  MaxFaults = 1
SPECIFICATION Spec
INVARIANTS
  OneLoop
\* The environment may deliver nothing more.
CHECK_DEADLOCK FALSE
