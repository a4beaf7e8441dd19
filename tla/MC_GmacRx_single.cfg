\* A 2-slot ring, 4 buffers, three one-buffer frames, one failure of
\* net_pkt_get_reserve_rx() and one overrun.
CONSTANTS
  b1 = b1  b2 = b2  b3 = b3  b4 = b4  b5 = b5  b6 = b6  b7 = b7  f1 = f1  f2 = f2  f3 = f3
  NoBuf = NoBuf
  NRxDesc = 2
  MaxPktFails = 1
  MaxRxErrors = 1
  Bufs <- MC_Bufs4
  Frames <- MC_Frames3
  NFr <- MC_SingleFrags3
  BufSize = 2
  FrameLen <- MC_SingleLens3
  WordMod <- MC_WordMod
  NIfaces = 2
  MaxPhyFails = 0
  MckFreqs <- MC_Mck
  Reserved <- MC_NoReserved
SPECIFICATION Spec
\* The frames are finite: once all have arrived the driver idles.
CHECK_DEADLOCK FALSE
INVARIANT TypeOK
INVARIANT BufferInOnePlace
INVARIANT DescMatchesFragList
