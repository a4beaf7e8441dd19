\* A 4-slot ring, 7 buffers, frames of 1, 3 and 1 buffers, one failure of
\* net_pkt_get_reserve_rx() and one overrun.
CONSTANTS
  b1 = b1  b2 = b2  b3 = b3  b4 = b4  b5 = b5  b6 = b6  b7 = b7  f1 = f1  f2 = f2  f3 = f3
  NoBuf = NoBuf
  NRxDesc = 4
  MaxPktFails = 1
  MaxRxErrors = 1
  Bufs <- MC_Bufs7
  Frames <- MC_Frames3
  NFr <- MC_Frags3Big
  BufSize = 2
  FrameLen <- MC_Lens3Big
  WordMod <- MC_WordMod
  NIfaces = 1
  MaxPhyFails = 1
  MckFreqs <- MC_MckProbes
  Reserved <- MC_NoReserved
SPECIFICATION Spec
\* The frames are finite: once all have arrived the driver idles.
CHECK_DEADLOCK FALSE
INVARIANT TypeOK
INVARIANT BufferInOnePlace
INVARIANT DescMatchesFragList
INVARIANT MdcDivisorMinimal
