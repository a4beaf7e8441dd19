\* Two eth_tx() threads record descriptors and tx_frames in different orders.
CONSTANTS
  p1 = p1  p2 = p2  p3 = p3  p4 = p4  t1 = t1  t2 = t2
  NoPkt = NoPkt
  NTxDesc = 3
  MaxTxErrors = 1
  Pkts <- MC_Pkts2
  NFrags <- MC_SingleFrags2
  Threads <- MC_TwoThreads
SPECIFICATION Spec
\* The frames are finite: once all are handled the driver idles.
CHECK_DEADLOCK FALSE
PROPERTY ReleasedOnlyAfterSent
