\* A frame abandoned by the DMA mid-way, with no overrun: only RXUBR.
CONSTANTS
  b1 = b1  b2 = b2  b3 = b3  b4 = b4  b5 = b5  b6 = b6  b7 = b7  f1 = f1  f2 = f2  f3 = f3
  NoBuf = NoBuf
  NRxDesc = 2
  MaxPktFails = 0
  MaxRxErrors = 0
  Bufs <- MC_Bufs4
  Frames <- MC_Frames3
  NFr <- MC_Frags3
  BufSize = 2
  FrameLen <- MC_Lens3
  WordMod <- MC_WordMod
  NIfaces = 1
  MaxPhyFails = 0
  MckFreqs <- MC_Mck
  Reserved <- MC_NoReserved
SPECIFICATION Spec
\* The frames are finite: once all have arrived the driver idles.
CHECK_DEADLOCK FALSE
INVARIANT LinkedLengthFitsBuffer
