\* One frame dropped for want of a net_pkt, no line errors.
CONSTANTS
  b1 = b1  b2 = b2  b3 = b3  b4 = b4  b5 = b5  b6 = b6  b7 = b7  f1 = f1  f2 = f2  f3 = f3
  NoBuf = NoBuf
  NRxDesc = 2
  MaxPktFails = 1
  MaxRxErrors = 0
  Bufs <- MC_Bufs4
  Frames <- MC_Frames3
  NFr <- MC_SingleFrags3
  BufSize = 2
  FrameLen <- MC_SingleLens3
  WordMod <- MC_WordMod
  NIfaces = 1
  MaxPhyFails = 0
  MckFreqs <- MC_Mck
  Reserved <- MC_NoReserved
SPECIFICATION Spec
\* The frames are finite: once all have arrived the driver idles.
CHECK_DEADLOCK FALSE
PROPERTY CompleteFrameLeavesRing
