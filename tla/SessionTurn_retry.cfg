\* One message delivered again and again, two steps per loop, fair steps.
CONSTANTS
  m1 = m1
  m2 = m2
  w1 = w1
  w2 = w2
  c1 = c1
  c2 = c2
  noMsg = noMsg
  noWorker = noWorker
  noCall = noCall
  Msg <- OneMsg
  Worker <- OneWorker
  NoMsg = noMsg
  NoWorker = noWorker
  NoCall = noCall
  Batches <- OneCall
  LoopSteps = 2
  MaxDeliveries = 3
  MaxFaults = 2
SPECIFICATION FairSpec
PROPERTIES
  GuardReleased
  Answered
INVARIANTS
  NoBlindRetry
  OneLoop
  SentOnce
\* The environment may deliver nothing more.
CHECK_DEADLOCK FALSE
