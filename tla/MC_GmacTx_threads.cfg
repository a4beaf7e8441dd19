\* Two eth_tx() threads, three single-fragment frames, one hardware TX error.
CONSTANTS
  p1 = p1  p2 = p2  p3 = p3  p4 = p4  t1 = t1  t2 = t2
  NoPkt = NoPkt
  NTxDesc = 3
  MaxTxErrors = 1
  Pkts <- MC_Pkts3
  NFrags <- MC_SingleFrags
  Threads <- MC_TwoThreads
SPECIFICATION Spec
\* The frames are finite: once all are handled the driver idles.
CHECK_DEADLOCK FALSE
INVARIANT TypeOK
INVARIANT FlowControlBounded
INVARIANT ReleasedAtMostOnce
INVARIANT QueuedFrameTracked
PROPERTY QueuedFrameEventuallySent
PROPERTY FramesRefineQueue
