\* Two interfaces (CONFIG_NET_VLAN) and one PHY failure; the pool holds
\* one ring and one buffer more.
CONSTANTS
  b1 = b1  b2 = b2  b3 = b3  b4 = b4  b5 = b5  b6 = b6  b7 = b7  f1 = f1  f2 = f2  f3 = f3
  NoBuf = NoBuf
  NRxDesc = 2
  MaxPktFails = 0
  MaxRxErrors = 0
  Bufs <- MC_Bufs4
  Frames <- MC_Frames3
  NFr <- MC_SingleFrags3
  BufSize = 2
  FrameLen <- MC_SingleLens3
  WordMod <- MC_WordMod
  NIfaces = 2
  MaxPhyFails = 1
  MckFreqs <- MC_Mck
  Reserved <- MC_Reserved1
SPECIFICATION Spec
\* The frames are finite: once all have arrived the driver idles.
CHECK_DEADLOCK FALSE
INVARIANT InitFailureReleasesBuffers
