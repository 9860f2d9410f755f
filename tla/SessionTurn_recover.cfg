\* One process, two messages, answers with two calls; faults also inside recovery.
CONSTANTS
  m1 = m1
  m2 = m2
  w1 = w1
  w2 = w2
  c1 = c1
  c2 = c2
  noMsg = noMsg
  noWorker = noWorker
  noCall = noCall
  Msg <- TwoMsgs
  Worker <- OneWorker
  NoMsg = noMsg
  NoWorker = noWorker
  NoCall = noCall
  Batches <- TwoCalls
  LoopSteps = 1
  MaxDeliveries = 3
  MaxFaults = 2
SPECIFICATION Spec
INVARIANTS
  EffectOnce
  CallsClosed
  AbortSticks
CONSTRAINT NoneSettled
SYMMETRY Symmetry
\* The environment may deliver nothing more.
CHECK_DEADLOCK FALSE
