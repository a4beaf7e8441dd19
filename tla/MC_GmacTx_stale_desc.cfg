\* The running DMA enters a frame eth_tx() is still posting.
CONSTANTS
  p1 = p1  p2 = p2  p3 = p3  p4 = p4  t1 = t1  t2 = t2
  NoPkt = NoPkt
  NTxDesc = 3
  MaxTxErrors = 1
  Pkts <- MC_Pkts3
  NFrags <- MC_MultiFrags
  Threads <- MC_OneThread
SPECIFICATION Spec
\* The frames are finite: once all are handled the driver idles.
CHECK_DEADLOCK FALSE
PROPERTY DmaReadsLiveFrame
