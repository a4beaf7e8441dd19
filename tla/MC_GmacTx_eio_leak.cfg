\* Two eth_tx() threads, four single-fragment frames, one hardware TX error:
\* callers that sampled err_tx_flushed_count before a flush return -EIO
\* holding units of the reseeded semaphore, and a later caller blocks.
CONSTANTS
  p1 = p1  p2 = p2  p3 = p3  p4 = p4  t1 = t1  t2 = t2
  NoPkt = NoPkt
  NTxDesc = 3
  MaxTxErrors = 1
  Pkts <- MC_Pkts4
  NFrags <- MC_SingleFrags4
  Threads <- MC_TwoThreads
SPECIFICATION Spec
\* The frames are finite: once all are handled the driver idles.
CHECK_DEADLOCK FALSE
PROPERTY EverySubmissionReturns
