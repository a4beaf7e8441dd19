------------------------------- MODULE GmacRx -------------------------------
(***************************************************************************)
(* Receive path of the Atmel SAM GMAC Ethernet driver, queue 0            *)
(* (src/drivers/ethernet/eth_sam_gmac.c).                                  *)
(*                                                                         *)
(* Actors:                                                                 *)
(*  - initialisation: eth0_iface_init(), called once per network         *)
(*    interface (more than one with CONFIG_NET_VLAN), runs gmac_init(),    *)
(*    queue_init() (whose rx_descriptors_init() reserves one data buffer   *)
(*    per slot and, when the pool runs dry, calls free_rx_bufs()), then    *)
(*    the PHY set-up, and enables reception in link_configure(); a static *)
(*    init_done makes later calls return early once all of it succeeded;  *)
(*  - the GMAC interrupt (queue0_isr, RX half): reads and clears the       *)
(*    status and runs rx_error_handler() or eth_rx(), which calls          *)
(*    frame_get() until it returns NULL. The interrupt handler is the only *)
(*    software on this path; it runs in parallel with the DMA only, so     *)
(*    frame_get() is split where the DMA can observe it: the scan, and per *)
(*    slot the status clear and the address write that returns the slot;  *)
(*  - the GMAC receive DMA, which fills hardware-owned slots in order,     *)
(*    following WRAP, and raises RCOMP, RXUBR or an overrun;               *)
(*  - the network stack, which keeps delivered frames and later releases  *)
(*    their buffers.                                                       *)
(* An __ASSERT that fails halts the driver (CONFIG_ASSERT): `panic`.       *)
(***************************************************************************)
EXTENDS Integers, Sequences, FiniteSets, SequencesExt

CONSTANTS
  NRxDesc,      \* MAIN_QUEUE_RX_DESC_COUNT
  Bufs,         \* the data buffers of the RX pool (CONFIG_NET_BUF_RX_COUNT)
  Frames,       \* the frames that arrive on the line
  NFr,          \* NFr[f]: number of receive buffers frame f fills
  NoBuf,        \* a model value: no buffer / NULL
  MaxPktFails,  \* bound on failures of net_pkt_get_reserve_rx()
  MaxRxErrors,  \* bound on receive overruns the line causes
  Reserved,     \* buffers other users of the pool hold at initialisation
  BufSize,      \* CONFIG_NET_BUF_DATA_SIZE, in length units
  FrameLen,     \* FrameLen[f]: the length GMAC reports in f's EOF descriptor
  WordMod,      \* modulus of u32_t arithmetic (2^32 in the build)
  NIfaces,      \* interfaces whose init calls eth0_iface_init()
  MaxPhyFails,  \* bound on failures of the PHY set-up
  MckFreqs      \* the values SOC_ATMEL_SAM_MCK_FREQ_HZ may be built with

ASSUME /\ NRxDesc \in Nat \ {0}
       /\ NFr \in [Frames -> Nat \ {0}]
       /\ NoBuf \notin Bufs
       /\ MaxPktFails \in Nat /\ MaxRxErrors \in Nat
       /\ Reserved \subseteq Bufs
       \* The build-time checks at the top of the driver: the ring holds a
       \* full frame, and so do the buffers left outside the ring.
       /\ \A f \in Frames : NFr[f] <= NRxDesc
       /\ \A f \in Frames : NFr[f] <= Cardinality(Bufs) - NRxDesc
       \* A frame of n buffers is longer than n-1 buffers and fits in n.
       /\ BufSize \in Nat \ {0}
       /\ \A f \in Frames : FrameLen[f] \in (NFr[f] - 1) * BufSize + 1 .. NFr[f] * BufSize
       \* The u32_t results the driver computes below all lie under WordMod.
       /\ WordMod > 2 * Cardinality(Bufs) * BufSize
       /\ NIfaces \in Nat \ {0} /\ MaxPhyFails \in Nat
       /\ MckFreqs \subseteq Nat \ {0} /\ MckFreqs # {}

Slots == 0 .. NRxDesc - 1
Stale == <<>>                           \* buffer contents nobody wrote
Desc  == [addr : Bufs \cup {NoBuf}, own : BOOLEAN, wrap : BOOLEAN,
          sof : BOOLEAN, eof : BOOLEAN, len : Nat]
EmptyDesc(b) == [addr |-> b, own |-> FALSE, wrap |-> FALSE, sof |-> FALSE,
                 eof |-> FALSE, len |-> 0]
IsrPcs == {"idle", "get", "take", "give"}

VARIABLES
  rxDesc,     \* rx_desc_list.buf: w0 (addr, OWNERSHIP, WRAP), w1 (SOF, EOF, LEN)
  rxTail,     \* rx_desc_list.tail
  fragList,   \* rx_frag_list.buf: the buffer posted at each slot
  pool,       \* free data buffers of the pool
  data,       \* data[b]: the fragment <<f, k>> last written into buffer b
  phase,      \* "idle" before eth0_iface_init(), "init" in rx_descriptors_init(),
              \* "phy" in the PHY set-up, "run" once init_done; "nobufs" or
              \* "phyfail" after a call that returned early on that error
  ifaceCalls, \* calls of eth0_iface_init() so far
  phyFails,   \* failures of the PHY set-up so far
  mck,        \* SOC_ATMEL_SAM_MCK_FREQ_HZ of this build
  mdcDiv,     \* the MCK divisor in the CLK field of GMAC_NCFGR (0: not written)
  initIdx,    \* loop index of rx_descriptors_init()
  isrPc,      \* where the interrupt handler is in eth_rx()/frame_get()
  fgTail,     \* frame_get(): local `tail`
  fgFrame,    \* frame_get(): rx_frame != NULL
  fgLinks,    \* frame_get(): fragments linked into rx_frame, in order
  fgComplete, \* frame_get(): frame_is_complete
  fgLen,      \* frame_get(): frame_len
  pktFails,   \* failures of net_pkt_get_reserve_rx() so far
  stack,      \* frames held by the network stack (sequences of buffers)
  hwPtr,      \* receive DMA queue pointer
  hwCur,      \* frame the DMA is writing, or NoFrame
  hwK,        \* index of the next fragment of hwCur
  pending,    \* frames that have not arrived yet
  rcomp,      \* GMAC_ISR.RCOMP pending
  rxErr,      \* one of GMAC_INT_RX_ERR_BITS pending
  rxErrs,     \* overruns raised so far
  panic       \* "none", or the failed assertion

NoFrame == "none"

sw   == <<isrPc, fgTail, fgFrame, fgLinks, fgComplete, fgLen>>
hw   == <<hwPtr, hwCur, hwK, pending, rcomp, rxErr, rxErrs>>
boot == <<ifaceCalls, phyFails, mck, mdcDiv>>
vars == <<rxDesc, rxTail, fragList, pool, data, phase, initIdx, boot, sw,
          pktFails, stack, hw, panic>>

(* Seeded fault: MODULO_INC without the wrap back to 0.                  *)
NextSlotNoWrap(i) == i + 1

NextSlot(i) == (i + 1) % NRxDesc

(* net_pkt_get_reserve_rx_data()/net_pkt_get_frag() with K_NO_WAIT take  *)
(* some free buffer; the allocator's choice does not matter here.         *)
Alloc == CHOOSE b \in pool : TRUE

-----------------------------------------------------------------------------
Init ==
  /\ rxDesc = [i \in Slots |-> EmptyDesc(NoBuf)]
  /\ rxTail = 0
  /\ fragList = [i \in Slots |-> NoBuf]
  /\ pool = Bufs \ Reserved
  /\ data = [b \in Bufs |-> Stale]
  /\ phase = "idle" /\ initIdx = 0
  /\ ifaceCalls = 0 /\ phyFails = 0
  /\ mck \in MckFreqs /\ mdcDiv = 0
  /\ isrPc = "idle" /\ fgTail = 0 /\ fgFrame = FALSE /\ fgLinks = <<>>
  /\ fgComplete = FALSE /\ fgLen = 0
  /\ pktFails = 0
  /\ stack = IF Reserved = {} THEN {} ELSE {SetToSeq(Reserved)}
  /\ hwPtr = 0 /\ hwCur = NoFrame /\ hwK = 1 /\ pending = Frames
  /\ rcomp = FALSE /\ rxErr = FALSE /\ rxErrs = 0
  /\ panic = "none"

(* get_mck_clock_divisor(): the MCK to MDC divisor the CLK field of      *)
(* GMAC_NCFGR selects, or -ENOTSUP when MCK is above 240 MHz. The field  *)
(* is represented by the divisor it selects.                              *)
NoMdcClock == -1
MdcDivisors == {8, 16, 32, 48, 64, 96}

(* Seeded fault: the 80 MHz boundary compared with < instead of <=.      *)
GetMckClockDivisorStrict(m) ==
  CASE m <= 20000000  -> 8
    [] m <= 40000000  -> 16
    [] m < 80000000   -> 32
    [] m <= 120000000 -> 48
    [] m <= 160000000 -> 64
    [] m <= 240000000 -> 96
    [] OTHER          -> NoMdcClock

GetMckClockDivisor(m) ==
  CASE m <= 20000000  -> 8
    [] m <= 40000000  -> 16
    [] m <= 80000000  -> 32
    [] m <= 120000000 -> 48
    [] m <= 160000000 -> 64
    [] m <= 240000000 -> 96
    [] OTHER          -> NoMdcClock

(* gmac_init() with a valid divisor: GMAC_NCFGR gets the divisor in its  *)
(* CLK field; interrupts are disabled and cleared and the other registers *)
(* set, none of which a property here reads.                              *)
GmacInit(div) == mdcDiv' = div

(* eth0_iface_init() while init_done is clear: gmac_init() (which returns *)
(* on an MCK no divisor fits), then queue_init(), whose                   *)
(* rx_descriptors_init() starts by resetting both tails. The MAC address, *)
(* the idle priority queues and the registers gmac_init() writes are not  *)
(* state any property here reads.                                         *)
IfaceInit ==
  /\ phase \in {"idle", "nobufs", "phyfail"}
  /\ ifaceCalls < NIfaces
  /\ ifaceCalls' = ifaceCalls + 1
  /\ LET div == GetMckClockDivisor(mck) IN
     IF div = NoMdcClock
     THEN UNCHANGED <<phase, initIdx, rxTail, mdcDiv>>
     ELSE GmacInit(div) /\ phase' = "init" /\ initIdx' = 0 /\ rxTail' = 0
  /\ UNCHANGED <<rxDesc, fragList, pool, data, phyFails, mck, sw, pktFails,
                 stack, hw, panic>>

(* eth0_iface_init() for a further interface once init_done is set: it    *)
(* records the interface and returns.                                     *)
IfaceInitAgain ==
  /\ phase = "run"
  /\ ifaceCalls < NIfaces
  /\ ifaceCalls' = ifaceCalls + 1
  /\ UNCHANGED <<rxDesc, rxTail, fragList, pool, data, phase, initIdx,
                 phyFails, mck, mdcDiv, sw, pktFails, stack, hw, panic>>

(* phy_sam_gmac_init() or phy_sam_gmac_auto_negotiate() fails and         *)
(* eth0_iface_init() returns with init_done clear; the ring keeps its     *)
(* buffers and reception stays disabled.                                  *)
PhyFail ==
  /\ phase = "phy" /\ phyFails < MaxPhyFails
  /\ phase' = "phyfail" /\ phyFails' = phyFails + 1
  /\ UNCHANGED <<rxDesc, rxTail, fragList, pool, data, initIdx, ifaceCalls,
                 mck, mdcDiv, sw, pktFails, stack, hw, panic>>

(* link_configure() sets RXEN in GMAC_NCR, and init_done is set.          *)
LinkUp ==
  /\ phase = "phy"
  /\ phase' = "run"
  /\ UNCHANGED <<rxDesc, rxTail, fragList, pool, data, initIdx, boot, sw,
                 pktFails, stack, hw, panic>>

(* free_rx_bufs() as written: it unrefs rx_frag_list->buf, the array      *)
(* itself, once per slot, never the buffers stored in it, so neither the  *)
(* pool nor the slots change (the bogus unrefs are not modelled).         *)
FreeRxBufs == UNCHANGED <<pool, fragList>>

(* The rest of queue_init() once rx_descriptors_init() returned 0: the TX *)
(* ring, the semaphore, the queue pointers and interrupt enables (state   *)
(* of GmacTx or of no property here) and the error counters (read by no  *)
(* property); eth0_iface_init() goes on to the PHY.                       *)
QueueInitDone == phase' = "phy"

(* Seeded fault: the wrap bit is never set on the last slot.            *)
RxDescInitStepNoWrap ==
  /\ phase = "init"
  /\ IF initIdx = NRxDesc
     THEN /\ UNCHANGED rxDesc
          /\ QueueInitDone
          /\ UNCHANGED <<initIdx, pool, fragList>>
     ELSE /\ IF pool = {}
             THEN /\ FreeRxBufs
                  /\ phase' = "nobufs"
                  /\ UNCHANGED <<rxDesc, initIdx>>
             ELSE LET b == Alloc IN
                  /\ pool' = pool \ {b}
                  /\ fragList' = [fragList EXCEPT ![initIdx] = b]
                  /\ rxDesc' = [rxDesc EXCEPT ![initIdx] = EmptyDesc(b)]
                  /\ initIdx' = initIdx + 1
                  /\ UNCHANGED <<phase>>
  /\ UNCHANGED <<rxTail, data, sw, pktFails, stack, hw, panic, boot>>

(* One iteration of rx_descriptors_init(); after the last one the wrap    *)
(* bit is set on the last slot and queue_init() goes on.                  *)
RxDescInitStep ==
  /\ phase = "init"
  /\ IF initIdx = NRxDesc
     THEN /\ rxDesc' = [rxDesc EXCEPT ![NRxDesc - 1].wrap = TRUE]
          /\ QueueInitDone
          /\ UNCHANGED <<initIdx, pool, fragList>>
     ELSE /\ IF pool = {}
             THEN /\ FreeRxBufs
                  /\ phase' = "nobufs"
                  /\ UNCHANGED <<rxDesc, initIdx>>
             ELSE LET b == Alloc IN
                  /\ pool' = pool \ {b}
                  /\ fragList' = [fragList EXCEPT ![initIdx] = b]
                  /\ rxDesc' = [rxDesc EXCEPT ![initIdx] = EmptyDesc(b)]
                  /\ initIdx' = initIdx + 1
                  /\ UNCHANGED <<phase>>
  /\ UNCHANGED <<rxTail, data, sw, pktFails, stack, hw, panic, boot>>

-----------------------------------------------------------------------------
(* frame_get(), first loop: from slot i, over at most n slots, is there a *)
(* run of software-owned slots ending in EOF? "spin" when every slot is   *)
(* software-owned and none has EOF: the loop never ends.                  *)
RECURSIVE ScanFrom(_, _)
ScanFrom(i, n) ==
  IF n = 0 THEN "spin"
  ELSE IF ~rxDesc[i].own THEN "incomplete"
  ELSE IF rxDesc[i].eof THEN "complete"
  ELSE ScanFrom(NextSlot(i), n - 1)

(* Seeded fault: a rejected frame is not unreffed.                       *)
DeliverRejectLeaks(s) ==
  \/ stack' = stack \cup {s} /\ UNCHANGED pool
  \/ UNCHANGED <<pool, stack>>

(* net_recv_data() accepts the frame (the stack keeps it) or rejects it   *)
(* (eth_rx() unrefs it and its buffers go back to the pool).              *)
Deliver(s) ==
  \/ stack' = stack \cup {s} /\ UNCHANGED pool
  \/ pool' = pool \cup Range(s) /\ UNCHANGED stack

(* The locals of frame_get() for the second loop: tail, last_frag,        *)
(* frame_is_complete and frame_len.                                       *)
FrameGetLocals ==
  fgTail' = rxTail /\ fgLinks' = <<>> /\ fgComplete' = FALSE /\ fgLen' = 0

(* eth_rx() calls frame_get(). First loop: no complete frame means NULL   *)
(* and eth_rx() returns. Otherwise reserve rx_frame and assert SOF on the *)
(* first slot.                                                            *)
FrameGetScan ==
  /\ isrPc = "get"
  /\ LET r == ScanFrom(rxTail, NRxDesc) IN
     \/ /\ r = "incomplete"
        /\ isrPc' = "idle"
        /\ UNCHANGED <<fgTail, fgFrame, fgLinks, fgComplete, fgLen, pktFails,
                       panic>>
     \/ /\ r = "spin"
        /\ panic' = "frame_get() loops forever"
        /\ UNCHANGED <<sw, pktFails>>
     \/ /\ r = "complete"
        /\ \E ok \in {TRUE} \cup (IF pktFails < MaxPktFails THEN {FALSE} ELSE {}) :
             /\ fgFrame' = ok
             /\ pktFails' = IF ok THEN pktFails ELSE pktFails + 1
        /\ FrameGetLocals
        /\ isrPc' = "take"
        /\ panic' = IF rxDesc[rxTail].sof THEN panic
                    ELSE "First RX fragment is missing SOF bit"
  /\ UNCHANGED <<rxDesc, rxTail, fragList, pool, data, phase, initIdx, boot,
                 stack, hw>>

(* frag_len: the rest of the reported frame length on the EOF slot, a    *)
(* full buffer on the others; u32_t arithmetic.                           *)
FragLen(i) ==
  IF rxDesc[i].eof THEN (rxDesc[i].len - fgLen) % WordMod ELSE BufSize

(* Second loop, first half, for slot fgTail: check the descriptor against *)
(* rx_frag_list, read EOF and add frag_len to frame_len, replace the     *)
(* buffer by a new one linked into rx_frame (or drop the frame when the   *)
(* pool is empty), clear w1.                                              *)
RxTakeSlot ==
  /\ isrPc = "take"
  /\ LET i    == fgTail
         frag == fragList[i]
     IN
     /\ rxDesc[i].own
     /\ panic' = IF frag = rxDesc[i].addr THEN panic
                 ELSE "RX descriptor and buffer list desynchronized"
     /\ fgComplete' = rxDesc[i].eof
     /\ fgLen' = (fgLen + FragLen(i)) % WordMod
     /\ rxDesc' = [rxDesc EXCEPT ![i].sof = FALSE, ![i].eof = FALSE, ![i].len = 0]
     /\ IF ~fgFrame
        THEN UNCHANGED <<fgFrame, fgLinks, fragList, pool>>
        ELSE IF pool = {}
        THEN /\ pool' = pool \cup Range(fgLinks)
             /\ fgFrame' = FALSE /\ fgLinks' = <<>>
             /\ UNCHANGED fragList
        ELSE LET new == Alloc IN
             /\ pool' = pool \ {new}
             /\ fgLinks' = Append(fgLinks, frag)
             /\ fragList' = [fragList EXCEPT ![i] = new]
             /\ UNCHANGED <<fgFrame>>
     /\ isrPc' = "give"
  /\ UNCHANGED <<rxTail, fgTail, data, phase, initIdx, boot, pktFails, stack,
                 hw>>

(* Seeded fault: w0 rewritten with the address it already holds.         *)
RxGiveSlotOldBuf ==
  /\ isrPc = "give"
  /\ LET i == fgTail IN
     /\ rxDesc' = [rxDesc EXCEPT ![i].own = FALSE, ![i].wrap = (i = NRxDesc - 1)]
     /\ fgTail' = NextSlot(i)
     /\ IF ~fgComplete
        THEN /\ isrPc' = IF rxDesc[NextSlot(i)].own THEN "take" ELSE "idle"
             /\ panic' = IF rxDesc[NextSlot(i)].own THEN panic
                         ELSE "frame_is_complete"
             /\ UNCHANGED <<rxTail, pool, stack, fgLinks>>
        ELSE /\ rxTail' = NextSlot(i)
             /\ IF fgFrame
                THEN /\ Deliver(fgLinks) /\ isrPc' = "get"
                ELSE /\ UNCHANGED <<pool, stack>>
                     /\ isrPc' = "idle"
             /\ fgLinks' = <<>>
             /\ UNCHANGED panic
  /\ UNCHANGED <<fragList, data, phase, initIdx, boot, fgFrame, fgComplete,
                 fgLen, pktFails, hw>>

(* Second half: after the barrier, write w0 with the slot's buffer and    *)
(* the wrap bit, returning the slot to the DMA, and step on. At EOF,      *)
(* store tail and return rx_frame: eth_rx() hands it to the stack and     *)
(* calls frame_get() again, or stops when it is NULL.                     *)
RxGiveSlot ==
  /\ isrPc = "give"
  /\ LET i == fgTail IN
     /\ rxDesc' = [rxDesc EXCEPT ![i].addr = fragList[i], ![i].own = FALSE,
                                 ![i].wrap = (i = NRxDesc - 1)]
     /\ fgTail' = NextSlot(i)
     /\ IF ~fgComplete
        THEN /\ isrPc' = IF rxDesc[NextSlot(i)].own THEN "take" ELSE "idle"
             /\ panic' = IF rxDesc[NextSlot(i)].own THEN panic
                         ELSE "frame_is_complete"
             /\ UNCHANGED <<rxTail, pool, stack, fgLinks>>
        ELSE /\ rxTail' = NextSlot(i)
             /\ IF fgFrame
                THEN /\ Deliver(fgLinks) /\ isrPc' = "get"
                ELSE /\ UNCHANGED <<pool, stack>>
                     /\ isrPc' = "idle"
             /\ fgLinks' = <<>>
             /\ UNCHANGED panic
  /\ UNCHANGED <<fragList, data, phase, initIdx, boot, fgFrame, fgComplete,
                 fgLen, pktFails, hw>>

(* rx_error_handler(): stop reception, reset both tails, clear w1 and     *)
(* OWNERSHIP on every slot (addresses and WRAP stay), point the DMA at    *)
(* the start of the ring and restart it. The flush count is not modelled. *)
RxErrorHandler ==
  /\ rxTail' = 0
  /\ rxDesc' = [i \in Slots |-> [rxDesc[i] EXCEPT !.own = FALSE,
                                   !.sof = FALSE, !.eof = FALSE, !.len = 0]]
  /\ hwPtr' = 0 /\ hwCur' = NoFrame /\ hwK' = 1
  /\ UNCHANGED <<fragList, pool, data, phase, initIdx, boot, sw, pktFails,
                 stack, pending, rxErrs, panic>>

(* queue0_isr(), RX half: GMAC_ISR is cleared on read; the error bits     *)
(* take precedence over RCOMP.                                            *)
IsrRx ==
  /\ phase = "run" /\ isrPc = "idle"
  /\ rcomp \/ rxErr
  /\ rcomp' = FALSE /\ rxErr' = FALSE
  /\ IF rxErr
     THEN RxErrorHandler
     ELSE /\ isrPc' = "get"
          /\ UNCHANGED <<rxDesc, rxTail, fragList, pool, data, phase, initIdx,
                         boot, fgTail, fgFrame, fgLinks, fgComplete, fgLen,
                         pktFails, stack, hwPtr, hwCur, hwK, pending, rxErrs,
                         panic>>

-----------------------------------------------------------------------------
(* The receive DMA (environment), enabled once queue_init() succeeded.    *)

(* The frame the DMA writes next: the one in progress, or a new arrival.  *)
NextFragments ==
  IF hwCur # NoFrame THEN {<<hwCur, hwK>>} ELSE {<<f, 1>> : f \in pending}

(* A hardware-owned slot: write fragment <<f, k>> into its buffer, set    *)
(* SOF, EOF and OWNERSHIP, follow WRAP; at the end of a frame, RCOMP.     *)
HwRxFragment ==
  /\ phase = "run" /\ hwPtr \in Slots
  /\ ~rxDesc[hwPtr].own
  /\ \E fk \in NextFragments :
       LET f == fk[1]  k == fk[2]  last == k = NFr[f] IN
       /\ data' = [data EXCEPT ![rxDesc[hwPtr].addr] = fk]
       /\ rxDesc' = [rxDesc EXCEPT ![hwPtr].own = TRUE,
                       ![hwPtr].sof = (k = 1), ![hwPtr].eof = last,
                       ![hwPtr].len = IF last THEN FrameLen[f] ELSE 0]
       /\ hwPtr' = IF rxDesc[hwPtr].wrap THEN 0 ELSE hwPtr + 1
       /\ pending' = pending \ {f}
       /\ hwCur' = IF last THEN NoFrame ELSE f
       /\ hwK' = IF last THEN 1 ELSE k + 1
       /\ rcomp' = (rcomp \/ last)
  /\ UNCHANGED <<rxTail, fragList, pool, phase, initIdx, boot, sw, pktFails,
                 stack, rxErr, rxErrs, panic>>

(* A software-owned slot (RXUBR): the frame is discarded; the slots it    *)
(* already filled stay software-owned without EOF; the DMA stays at the   *)
(* slot and reads it again for the next frame.                            *)
HwRxNoBuffer ==
  /\ phase = "run" /\ hwPtr \in Slots
  /\ rxDesc[hwPtr].own
  /\ \E fk \in NextFragments :
       /\ pending' = pending \ {fk[1]}
       /\ hwCur' = NoFrame /\ hwK' = 1
       /\ rxErr' = TRUE
  /\ UNCHANGED <<rxDesc, rxTail, fragList, pool, data, phase, initIdx, boot,
                 sw, pktFails, stack, hwPtr, rcomp, rxErrs, panic>>

(* A receive overrun in the middle of a frame: the frame is discarded.    *)
HwRxOverrun ==
  /\ phase = "run" /\ hwCur # NoFrame /\ rxErrs < MaxRxErrors
  /\ hwCur' = NoFrame /\ hwK' = 1
  /\ rxErr' = TRUE /\ rxErrs' = rxErrs + 1
  /\ UNCHANGED <<rxDesc, rxTail, fragList, pool, data, phase, initIdx, boot,
                 sw, pktFails, stack, hwPtr, pending, rcomp, panic>>

(* The network stack is done with a frame and unrefs it.                  *)
StackRelease ==
  /\ \E s \in stack :
       /\ stack' = stack \ {s}
       /\ pool' = pool \cup Range(s)
  /\ UNCHANGED <<rxDesc, rxTail, fragList, data, phase, initIdx, boot, sw,
                 pktFails, hw, panic>>

-----------------------------------------------------------------------------
Boot == IfaceInit \/ IfaceInitAgain \/ RxDescInitStep \/ PhyFail \/ LinkUp

Software == Boot \/ IsrRx \/ FrameGetScan \/ RxTakeSlot \/ RxGiveSlot

Hardware == HwRxFragment \/ HwRxNoBuffer \/ HwRxOverrun

Next == panic = "none" /\ (Software \/ Hardware \/ StackRelease)

(* Initialisation and the interrupt handler run whenever they can; a      *)
(* frame the DMA has begun is written to the end. New arrivals, errors    *)
(* and the stack's releases are not forced.                               *)
Fairness ==
  /\ WF_vars(panic = "none" /\ Software)
  /\ WF_vars(panic = "none" /\ hwCur # NoFrame /\ (HwRxFragment \/ HwRxNoBuffer))

Spec == Init /\ [][Next]_vars /\ Fairness

-----------------------------------------------------------------------------
(* Properties.                                                            *)

TypeOK ==
  /\ rxDesc \in [Slots -> Desc]
  /\ rxTail \in Slots /\ fgTail \in Slots /\ hwPtr \in Slots
  /\ fragList \in [Slots -> Bufs \cup {NoBuf}]
  /\ pool \subseteq Bufs
  /\ phase \in {"idle", "init", "phy", "run", "nobufs", "phyfail"}
  /\ ifaceCalls \in 0 .. NIfaces
  /\ mdcDiv \in MdcDivisors \cup {0}
  /\ isrPc \in IsrPcs
  /\ fgFrame \in BOOLEAN /\ fgLinks \in Seq(Bufs)
  /\ hwCur \in Frames \cup {NoFrame} /\ pending \subseteq Frames
  /\ rcomp \in BOOLEAN /\ rxErr \in BOOLEAN
  /\ fgLen \in 0 .. WordMod - 1

(* The places a data buffer can be: free in the pool, posted in a ring    *)
(* slot, linked into the frame being assembled, or held by the stack.     *)
Holders(b) ==
  (IF b \in pool THEN 1 ELSE 0)
  + Cardinality({i \in Slots : fragList[i] = b})
  + Cardinality({k \in DOMAIN fgLinks : fgLinks[k] = b})
  + Cardinality({s \in stack : b \in Range(s)})

(* Every buffer is in exactly one place: none is leaked by a dropped      *)
(* frame, a rejected delivery or an error flush, and none is posted twice *)
(* or handed to the stack while still in the ring.                        *)
BufferInOnePlace == phase = "run" => \A b \in Bufs : Holders(b) = 1

(* A hardware-owned slot points at the buffer rx_frag_list records for    *)
(* it, so the DMA writes only into a buffer the ring still owns.          *)
DescMatchesFragList ==
  phase = "run" => \A i \in Slots : ~rxDesc[i].own => rxDesc[i].addr = fragList[i]

(* frame_get() never adds more to a buffer than it holds: the frag_len   *)
(* net_buf_add() gets for a fragment linked into rx_frame lies in         *)
(* 1..CONFIG_NET_BUF_DATA_SIZE. On the EOF slot it is the reported frame  *)
(* length minus the frame_len counted so far, in u32_t.                   *)
LinkedLengthFitsBuffer ==
  isrPc = "take" /\ fgFrame /\ rxDesc[fgTail].own
    => FragLen(fgTail) \in 1 .. BufSize

(* 802.3 limits MDC to 2.5 MHz. Once gmac_init() has configured the MAC, *)
(* GMAC_NCFGR holds, for the master clock of the build, the smallest of   *)
(* the divisors GMAC offers that keeps MDC = MCK / divisor within that    *)
(* limit; with a clock no divisor fits, initialisation never gets past    *)
(* gmac_init(). Checked at each boundary of get_mck_clock_divisor().      *)
MdcMaxHz == 2500000
MdcRef(m) ==
  LET fit == {d \in MdcDivisors : m <= MdcMaxHz * d}
  IN IF fit = {} THEN NoMdcClock ELSE CHOOSE d \in fit : \A e \in fit : d <= e

MdcDivisorMinimal == phase # "idle" => mdcDiv = MdcRef(mck)

(* When rx_descriptors_init() fails, the buffers it reserved are returned *)
(* to the pool.                                                           *)
InitFailureReleasesBuffers == phase = "nobufs" => pool = Bufs \ Reserved

(* A complete frame that sits in the ring is eventually taken out of it   *)
(* (delivered, dropped or flushed), even if no other frame arrives.       *)
FrameInRing(f) ==
  \E i \in Slots : rxDesc[i].own /\ rxDesc[i].eof /\ data[rxDesc[i].addr] = <<f, NFr[f]>>

CompleteFrameLeavesRing == \A f \in Frames : FrameInRing(f) ~> ~FrameInRing(f)

====
