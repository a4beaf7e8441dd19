\* One eth_tx() thread, frames of 2, 1 and 2 fragments, one hardware TX error.
CONSTANTS
  p1 = p1  p2 = p2  p3 = p3  p4 = p4  t1 = t1  t2 = t2
  NoPkt = NoPkt
  NTxDesc = 4
  MaxTxErrors = 1
  Pkts <- MC_Pkts3
  NFrags <- MC_MultiFrags
  Threads <- MC_OneThread
SPECIFICATION Spec
\* The frames are finite: once all are sent the driver idles.
CHECK_DEADLOCK FALSE
INVARIANT TypeOK
INVARIANT FlowControlBounded
INVARIANT ReleasedAtMostOnce
INVARIANT QueuedFrameTracked
PROPERTY FramesRefineQueue
