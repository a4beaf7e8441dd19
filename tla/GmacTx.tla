------------------------------- MODULE GmacTx -------------------------------
(***************************************************************************)
(* Transmit path of the Atmel SAM GMAC Ethernet driver, queue 0           *)
(* (src/drivers/ethernet/eth_sam_gmac.c).                                  *)
(*                                                                         *)
(* Actors:                                                                 *)
(*  - threads running eth_tx(): each samples err_tx_flushed_count, takes   *)
(*    one unit of tx_desc_sem per fragment, posts the fragment into the    *)
(*    TX descriptor ring under irq_lock, marks the slot after the frame    *)
(*    USED, records the frame in tx_frames and sets TSTART;                *)
(*  - the GMAC interrupt (queue0_isr, TX half): reads and clears the       *)
(*    interrupt status and runs tx_error_handler() or tx_completed();      *)
(*  - the GMAC transmit DMA, which walks the ring on its own, following    *)
(*    the USED and WRAP bits, and raises TCOMP or a TX error.              *)
(* The interrupt handler runs atomically; a thread is atomic with respect  *)
(* to it only inside its irq_lock() sections, which are single actions.   *)
(* An __ASSERT that fails halts the driver (CONFIG_ASSERT): `panic`.       *)
(***************************************************************************)
EXTENDS Integers, Sequences, FiniteSets, FiniteSetsExt

CONSTANTS
  NTxDesc,      \* ARRAY_SIZE(tx_desc_que0): length of the TX descriptor ring
  Pkts,         \* the net_pkt frames the network stack hands to eth_tx()
  NFrags,       \* NFrags[p]: number of data fragments (net_bufs) of frame p
  Threads,      \* the threads that call eth_tx()
  NoPkt,        \* a model value: no frame
  MaxTxErrors   \* bound on transmit errors the hardware raises by itself

ASSUME /\ NTxDesc \in Nat /\ NTxDesc >= 2
       /\ NFrags \in [Pkts -> Nat \ {0}]
       /\ NoPkt \notin Pkts
       /\ MaxTxErrors \in Nat

(* tx_frame_list_que0 has CONFIG_NET_PKT_TX_COUNT + 1 entries.            *)
TxFramesLen == Cardinality(Pkts) + 1
(* k_sem_init(&tx_desc_sem, len - 1, len - 1): initial count and limit.   *)
SemLimit == NTxDesc - 1

Slots   == 0 .. NTxDesc - 1
NoAddr  == <<>>                        \* descriptor word 0 cleared
Bufs    == UNION {{<<p, k>> : k \in 1 .. NFrags[p]} : p \in Pkts}
Desc    == [addr : Bufs \cup {NoAddr}, used : BOOLEAN,
            last : BOOLEAN, wrap : BOOLEAN]
PcVals  == {"idle", "take", "post", "finish", "tstart"}
NotHeld == -1

VARIABLES
  txDesc,     \* tx_desc_list.buf: per slot w0 (addr) and w1 (USED, LASTBUFFER, WRAP)
  txHead,     \* tx_desc_list.head
  txTail,     \* tx_desc_list.tail
  sem,        \* tx_desc_sem count
  semWaiters, \* threads blocked in k_sem_take(&tx_desc_sem, K_FOREVER)
  txFrames,   \* queue->tx_frames ring_buf: [buf, head, tail]
  flushed,    \* queue->err_tx_flushed_count
  pc,         \* per thread: where it is in eth_tx()
  cur,        \* per thread: the frame it is sending
  frag,       \* per thread: index of its current fragment
  atEntry,    \* per thread: err_tx_flushed_count_at_entry
  takenAt,    \* per thread: value of flushed when it obtained its unit, or NotHeld
  hwActive,   \* transmit DMA running (after TSTART, until it reads a USED slot)
  hwPtr,      \* transmit DMA queue pointer (slot index)
  hwStart,    \* slot of the first buffer of the frame the DMA is in
  hwFrame,    \* buffers of the frame read so far by the DMA (in progress)
  tcomp,      \* GMAC_ISR.TCOMP pending
  txErr,      \* one of GMAC_INT_TX_ERR_BITS pending
  pstate,     \* per frame: "new", "submitting", "ok" (eth_tx returned 0), "eio"
  relCount,   \* per frame: number of net_pkt_unref() calls made by the driver
  wire,       \* frames whose fragments were all put on the wire, in order
  panic       \* "none", or the failed assertion

hw   == <<hwActive, hwPtr, hwStart, hwFrame>>
thr  == <<pc, cur, frag, atEntry, takenAt>>
vars == <<txDesc, txHead, txTail, sem, semWaiters, txFrames, flushed,
          thr, hw, tcomp, txErr, pstate, relCount, wire, panic>>

(* Seeded fault: MODULO_INC without the wrap back to 0.                  *)
NextSlotNoWrap(i) == i + 1

NextSlot(i) == (i + 1) % NTxDesc

-----------------------------------------------------------------------------
(* The tx_frames ring buffer (ring_buf_reset/get/put).                    *)

(* Seeded fault: only the write index is reset.                          *)
RingBufResetTailKept(rb) == [rb EXCEPT !.head = 0]

RingBufReset(rb) == [rb EXCEPT !.head = 0, !.tail = 0]

(* The value ring_buf_get() returns.                                      *)
RingBufGetVal(rb) == rb.buf[rb.tail]

RingBufGet(rb) == [rb EXCEPT !.tail = (rb.tail + 1) % TxFramesLen]

RingBufPut(rb, v) ==
  [rb EXCEPT !.buf[rb.head] = v, !.head = (rb.head + 1) % TxFramesLen]

(* The positions between tail and head, i.e. the frames still recorded.   *)
RingPositions(rb) ==
  {(rb.tail + i) % TxFramesLen : i \in 0 .. ((rb.head - rb.tail) % TxFramesLen) - 1}

-----------------------------------------------------------------------------
(* k_sem_give() called n times on top of a count `base`: each unit is     *)
(* handed to a waiting thread if there is one, else the count grows up to *)
(* its limit. A woken thread returns from k_sem_take() holding the unit,  *)
(* obtained while the flush counter is `epoch`.                           *)
GiveUnits(base, n, epoch) ==
  LET w == Min({n, Cardinality(semWaiters)}) IN
  \E W \in kSubset(w, semWaiters) :
    /\ semWaiters' = semWaiters \ W
    /\ sem' = Min({SemLimit, base + n - w})
    /\ takenAt' = [t \in Threads |-> IF t \in W THEN epoch ELSE takenAt[t]]
    /\ pc' = [t \in Threads |-> IF t \in W THEN "post" ELSE pc[t]]

(* tx_descriptors_init(): every slot USED, address 0, WRAP on the last.   *)
TxDescInit == [i \in Slots |-> [addr |-> NoAddr, used |-> TRUE,
                                last |-> FALSE, wrap |-> i = NTxDesc - 1]]

(* The WRAP bit eth_tx() writes into the status word of slot `head`.      *)
WrapBit(head) == head = NTxDesc - 1

-----------------------------------------------------------------------------
(* Seeded fault: the semaphore seeded with len units, no sentinel slot.   *)
InitSemFull ==
  /\ txDesc = TxDescInit
  /\ txHead = 0 /\ txTail = 0
  /\ sem = NTxDesc /\ semWaiters = {}
  /\ txFrames = [buf |-> [i \in 0 .. TxFramesLen - 1 |-> NoPkt],
                 head |-> 0, tail |-> 0]
  /\ flushed = 0
  /\ pc = [t \in Threads |-> "idle"]
  /\ cur = [t \in Threads |-> NoPkt]
  /\ frag = [t \in Threads |-> 1]
  /\ atEntry = [t \in Threads |-> 0]
  /\ takenAt = [t \in Threads |-> NotHeld]
  /\ hwActive = FALSE /\ hwPtr = 0 /\ hwStart = 0 /\ hwFrame = <<>>
  /\ tcomp = FALSE /\ txErr = FALSE
  /\ pstate = [p \in Pkts |-> "new"]
  /\ relCount = [p \in Pkts |-> 0]
  /\ wire = {}
  /\ panic = "none"

Init ==
  /\ txDesc = TxDescInit
  /\ txHead = 0 /\ txTail = 0
  /\ sem = SemLimit /\ semWaiters = {}
  /\ txFrames = [buf |-> [i \in 0 .. TxFramesLen - 1 |-> NoPkt],
                 head |-> 0, tail |-> 0]
  /\ flushed = 0
  /\ pc = [t \in Threads |-> "idle"]
  /\ cur = [t \in Threads |-> NoPkt]
  /\ frag = [t \in Threads |-> 1]
  /\ atEntry = [t \in Threads |-> 0]
  /\ takenAt = [t \in Threads |-> NotHeld]
  /\ hwActive = FALSE /\ hwPtr = 0 /\ hwStart = 0 /\ hwFrame = <<>>
  /\ tcomp = FALSE /\ txErr = FALSE
  /\ pstate = [p \in Pkts |-> "new"]
  /\ relCount = [p \in Pkts |-> 0]
  /\ wire = {}
  /\ panic = "none"

-----------------------------------------------------------------------------
(* eth_tx() entry: the flush counter is sampled before anything else.     *)
Submit(t, p) ==
  /\ pc[t] = "idle" /\ pstate[p] = "new"
  /\ pstate' = [pstate EXCEPT ![p] = "submitting"]
  /\ pc' = [pc EXCEPT ![t] = "take"]
  /\ cur' = [cur EXCEPT ![t] = p]
  /\ frag' = [frag EXCEPT ![t] = 1]
  /\ atEntry' = [atEntry EXCEPT ![t] = flushed]
  /\ UNCHANGED <<txDesc, txHead, txTail, sem, semWaiters, txFrames, flushed,
                 takenAt, hw, tcomp, txErr, relCount, wire, panic>>

(* k_sem_take(&queue->tx_desc_sem, K_FOREVER): take a unit or block.      *)
TakeSem(t) ==
  /\ pc[t] = "take" /\ t \notin semWaiters
  /\ \/ /\ sem > 0
        /\ sem' = sem - 1
        /\ takenAt' = [takenAt EXCEPT ![t] = flushed]
        /\ pc' = [pc EXCEPT ![t] = "post"]
        /\ UNCHANGED semWaiters
     \/ /\ sem = 0
        /\ semWaiters' = semWaiters \cup {t}
        /\ UNCHANGED <<sem, takenAt, pc>>
  /\ UNCHANGED <<txDesc, txHead, txTail, txFrames, flushed, cur, frag, atEntry,
                 hw, tcomp, txErr, pstate, relCount, wire, panic>>

(* The flush check inside either irq_lock() section: return -EIO. The     *)
(* semaphore unit the thread may hold is not given back.                  *)
ReturnEio(t) ==
  /\ pstate' = [pstate EXCEPT ![cur[t]] = "eio"]
  /\ pc' = [pc EXCEPT ![t] = "idle"]
  /\ cur' = [cur EXCEPT ![t] = NoPkt]
  /\ takenAt' = [takenAt EXCEPT ![t] = NotHeld]
  /\ UNCHANGED <<txDesc, txHead, txTail, sem, semWaiters, txFrames, flushed,
                 frag, atEntry, hw, tcomp, txErr, relCount, wire, panic>>

(* First irq_lock() section: post one fragment at tx_desc_list.head.     *)
PostFragment(t) ==
  /\ pc[t] = "post"
  /\ IF flushed # atEntry[t]
     THEN ReturnEio(t)
     ELSE
       LET p == cur[t]
           k == frag[t]
           last == k = NFrags[p]
       IN
       /\ txDesc' = [txDesc EXCEPT ![txHead] =
                       [addr |-> <<p, k>>, used |-> FALSE,
                        last |-> last, wrap |-> WrapBit(txHead)]]
       /\ txHead' = NextSlot(txHead)
       /\ panic' = IF txHead' = txTail THEN "tx_desc_list overflow" ELSE panic
       /\ takenAt' = [takenAt EXCEPT ![t] = NotHeld]
       /\ IF last
          THEN pc' = [pc EXCEPT ![t] = "finish"] /\ UNCHANGED frag
          ELSE /\ pc' = [pc EXCEPT ![t] = "take"]
               /\ frag' = [frag EXCEPT ![t] = k + 1]
       /\ UNCHANGED <<txTail, sem, semWaiters, txFrames, flushed, cur, atEntry,
                      hw, tcomp, txErr, pstate, relCount, wire>>

(* Second irq_lock() section: mark the slot after the frame USED and      *)
(* record the frame in tx_frames (ring_buf_put asserts no overflow).      *)
FinishFrame(t) ==
  /\ pc[t] = "finish"
  /\ IF flushed # atEntry[t]
     THEN ReturnEio(t)
     ELSE
       /\ txDesc' = [txDesc EXCEPT ![txHead].used = TRUE]
       /\ txFrames' = RingBufPut(txFrames, cur[t])
       /\ panic' = IF txFrames'.head = txFrames'.tail
                   THEN "ring buffer overflow" ELSE panic
       /\ pc' = [pc EXCEPT ![t] = "tstart"]
       /\ UNCHANGED <<txHead, txTail, sem, semWaiters, flushed, cur, frag,
                      atEntry, takenAt, hw, tcomp, txErr, pstate, relCount, wire>>

(* Seeded fault: return 0 without setting TSTART.                         *)
StartTxNoTstart(t) ==
  /\ pc[t] = "tstart"
  /\ pstate' = [pstate EXCEPT ![cur[t]] = "ok"]
  /\ pc' = [pc EXCEPT ![t] = "idle"]
  /\ cur' = [cur EXCEPT ![t] = NoPkt]
  /\ UNCHANGED <<txDesc, txHead, txTail, sem, semWaiters, txFrames, flushed,
                 frag, atEntry, takenAt, hw, tcomp, txErr, relCount, wire, panic>>

(* gmac->GMAC_NCR |= GMAC_NCR_TSTART; return 0.                           *)
StartTx(t) ==
  /\ pc[t] = "tstart"
  /\ hwActive' = TRUE
  /\ pstate' = [pstate EXCEPT ![cur[t]] = "ok"]
  /\ pc' = [pc EXCEPT ![t] = "idle"]
  /\ cur' = [cur EXCEPT ![t] = NoPkt]
  /\ UNCHANGED <<txDesc, txHead, txTail, sem, semWaiters, txFrames, flushed,
                 frag, atEntry, takenAt, hwPtr, hwStart, hwFrame, tcomp, txErr,
                 relCount, wire, panic>>

-----------------------------------------------------------------------------
(* tx_completed(): from tail, reclaim descriptors up to and including the *)
(* first LASTBUFFER one (or up to head), one semaphore unit each; for the *)
(* LASTBUFFER one pop a frame from tx_frames and release it.              *)
RECURSIVE ScanLen(_)
ScanLen(i) ==
  IF i = txHead THEN 0
  ELSE IF txDesc[i].last THEN 1 ELSE 1 + ScanLen(NextSlot(i))

TxCompleted ==
  IF ~txDesc[txTail].used
  THEN /\ panic' = "first buffer of a frame is not marked as own by GMAC"
       /\ UNCHANGED <<txDesc, txHead, txTail, sem, semWaiters, txFrames,
                      flushed, thr, hw, pstate, relCount, wire>>
  ELSE
    LET n     == ScanLen(txTail)
        found == n > 0 /\ txDesc[(txTail + n - 1) % NTxDesc].last
        p     == RingBufGetVal(txFrames)
    IN
    /\ txTail' = (txTail + n) % NTxDesc
    /\ GiveUnits(sem, n, flushed)
    /\ IF found /\ txFrames.tail = txFrames.head
       THEN /\ panic' = "retrieving data from empty ring buffer"
            /\ UNCHANGED <<txFrames, relCount>>
       ELSE IF found
       THEN /\ txFrames' = RingBufGet(txFrames)
            /\ relCount' = [relCount EXCEPT ![p] = @ + 1]
            /\ UNCHANGED panic
       ELSE UNCHANGED <<txFrames, relCount, panic>>
    /\ UNCHANGED <<txDesc, txHead, flushed, cur, frag, atEntry, hw, pstate,
                   wire>>

(* Seeded faults in tx_error_handler(): frames released but left recorded *)
(* in tx_frames; frames dropped from tx_frames without being released;    *)
(* descriptors left as they were.                                         *)
TxErrorHandlerKeepsFrames ==
  LET drained == [q \in Pkts |->
                   Cardinality({i \in RingPositions(txFrames) :
                                  txFrames.buf[i] = q})]
  IN
  /\ flushed' = flushed + 1
  /\ hwActive' = FALSE /\ hwPtr' = 0 /\ hwFrame' = <<>>
  /\ relCount' = [q \in Pkts |-> relCount[q] + drained[q]]
  /\ txDesc' = TxDescInit
  /\ txHead' = 0 /\ txTail' = 0
  /\ GiveUnits(0, NTxDesc - 1, flushed + 1)
  /\ UNCHANGED <<txFrames, cur, frag, atEntry, hwStart, pstate, wire, panic>>

TxErrorHandlerNoDrain ==
  /\ flushed' = flushed + 1
  /\ hwActive' = FALSE /\ hwPtr' = 0 /\ hwFrame' = <<>>
  /\ txDesc' = TxDescInit
  /\ txHead' = 0 /\ txTail' = 0
  /\ txFrames' = RingBufReset(txFrames)
  /\ GiveUnits(0, NTxDesc - 1, flushed + 1)
  /\ UNCHANGED <<relCount, cur, frag, atEntry, hwStart, pstate, wire, panic>>

TxErrorHandlerNoDescInit ==
  LET drained == [q \in Pkts |->
                   Cardinality({i \in RingPositions(txFrames) :
                                  txFrames.buf[i] = q})]
  IN
  /\ flushed' = flushed + 1
  /\ hwActive' = FALSE /\ hwPtr' = 0 /\ hwFrame' = <<>>
  /\ relCount' = [q \in Pkts |-> relCount[q] + drained[q]]
  /\ txHead' = 0 /\ txTail' = 0
  /\ txFrames' = RingBufReset(txFrames)
  /\ GiveUnits(0, NTxDesc - 1, flushed + 1)
  /\ UNCHANGED <<txDesc, cur, frag, atEntry, hwStart, pstate, wire, panic>>

(* tx_error_handler(): count the flush, stop the DMA (clearing TXEN also  *)
(* resets its queue pointer), release every recorded frame, reset the     *)
(* semaphore, reinitialise the ring and tx_frames, give len - 1 units.    *)
TxErrorHandler ==
  LET drained == [q \in Pkts |->
                   Cardinality({i \in RingPositions(txFrames) :
                                  txFrames.buf[i] = q})]
  IN
  /\ flushed' = flushed + 1
  /\ hwActive' = FALSE /\ hwPtr' = 0 /\ hwFrame' = <<>>
  /\ relCount' = [q \in Pkts |-> relCount[q] + drained[q]]
  /\ txDesc' = TxDescInit
  /\ txHead' = 0 /\ txTail' = 0
  /\ txFrames' = RingBufReset(txFrames)
  /\ GiveUnits(0, NTxDesc - 1, flushed + 1)
  /\ UNCHANGED <<cur, frag, atEntry, hwStart, pstate, wire, panic>>

(* queue0_isr(), TX half: GMAC_ISR is cleared on read.                    *)
IsrTx ==
  /\ tcomp \/ txErr
  /\ tcomp' = FALSE /\ txErr' = FALSE
  /\ IF txErr THEN TxErrorHandler ELSE TxCompleted

-----------------------------------------------------------------------------
(* The transmit DMA (environment). It reads the slot at its pointer.     *)

(* A USED slot at a frame boundary: transmission stops (TXUBR).          *)
HwStopAtUsed ==
  /\ hwActive /\ hwPtr \in Slots
  /\ txDesc[hwPtr].used /\ hwFrame = <<>>
  /\ hwActive' = FALSE
  /\ UNCHANGED <<txDesc, txHead, txTail, sem, semWaiters, txFrames, flushed,
                 thr, hwPtr, hwStart, hwFrame, tcomp, txErr, pstate, relCount,
                 wire, panic>>

(* A USED slot in the middle of a frame: a transmit error.               *)
HwUsedMidFrame ==
  /\ hwActive /\ hwPtr \in Slots
  /\ txDesc[hwPtr].used /\ hwFrame # <<>>
  /\ hwActive' = FALSE /\ hwFrame' = <<>>
  /\ txErr' = TRUE
  /\ UNCHANGED <<txDesc, txHead, txTail, sem, semWaiters, txFrames, flushed,
                 thr, hwPtr, hwStart, tcomp, pstate, relCount, wire, panic>>

(* The frame of a single packet, fragments 1..NFrags[p] in order.         *)
WholeFrame(s) ==
  \E p \in Pkts : s = [k \in 1 .. NFrags[p] |-> <<p, k>>]

(* A slot handed to the DMA: send its buffer; after a LASTBUFFER slot set *)
(* USED on the first slot of the frame and raise TCOMP. Follow WRAP.      *)
HwSendBuffer ==
  /\ hwActive /\ hwPtr \in Slots
  /\ ~txDesc[hwPtr].used
  /\ LET d     == txDesc[hwPtr]
         start == IF hwFrame = <<>> THEN hwPtr ELSE hwStart
         sent  == Append(hwFrame, d.addr)
     IN
     /\ hwStart' = start
     /\ hwPtr' = IF d.wrap THEN 0 ELSE hwPtr + 1
     /\ IF d.last
        THEN /\ hwFrame' = <<>>
             /\ txDesc' = [txDesc EXCEPT ![start].used = TRUE]
             /\ tcomp' = TRUE
             /\ wire' = IF WholeFrame(sent) THEN wire \cup {sent[1][1]} ELSE wire
        ELSE /\ hwFrame' = sent
             /\ UNCHANGED <<txDesc, tcomp, wire>>
  /\ UNCHANGED <<txHead, txTail, sem, semWaiters, txFrames, flushed, thr,
                 hwActive, txErr, pstate, relCount, panic>>

(* A transmit error of the line (underrun, retry limit, ...).            *)
HwTxError ==
  /\ hwActive /\ flushed < MaxTxErrors
  /\ hwActive' = FALSE /\ hwFrame' = <<>>
  /\ txErr' = TRUE
  /\ UNCHANGED <<txDesc, txHead, txTail, sem, semWaiters, txFrames, flushed,
                 thr, hwPtr, hwStart, tcomp, pstate, relCount, wire, panic>>

-----------------------------------------------------------------------------
Thread(t) ==
  \/ \E p \in Pkts : Submit(t, p)
  \/ TakeSem(t) \/ PostFragment(t) \/ FinishFrame(t) \/ StartTx(t)

Hardware == HwStopAtUsed \/ HwUsedMidFrame \/ HwSendBuffer \/ HwTxError

Next ==
  /\ panic = "none"
  /\ \/ \E t \in Threads : Thread(t)
     \/ IsrTx
     \/ Hardware

(* A thread that can run eventually runs; a pending interrupt is          *)
(* eventually serviced; a running DMA eventually reads its next slot.     *)
(* Submitting a new frame and line errors are not forced.                 *)
Fairness ==
  /\ \A t \in Threads :
       WF_vars(panic = "none" /\ (TakeSem(t) \/ PostFragment(t)
                                  \/ FinishFrame(t) \/ StartTx(t)))
  /\ WF_vars(panic = "none" /\ IsrTx)
  /\ WF_vars(panic = "none" /\ (HwStopAtUsed \/ HwUsedMidFrame \/ HwSendBuffer))

Spec == Init /\ [][Next]_vars /\ Fairness


-----------------------------------------------------------------------------
(* Properties.                                                            *)

TypeOK ==
  /\ txDesc \in [Slots -> Desc]
  /\ txHead \in Slots /\ txTail \in Slots
  /\ sem \in 0 .. SemLimit /\ semWaiters \subseteq Threads
  /\ txFrames \in [buf : [0 .. TxFramesLen - 1 -> Pkts \cup {NoPkt}],
                   head : 0 .. TxFramesLen - 1, tail : 0 .. TxFramesLen - 1]
  /\ flushed \in Nat
  /\ pc \in [Threads -> PcVals]
  /\ cur \in [Threads -> Pkts \cup {NoPkt}]
  /\ atEntry \in [Threads -> Nat]
  /\ takenAt \in [Threads -> Nat \cup {NotHeld}]
  /\ hwActive \in BOOLEAN /\ hwPtr \in 0 .. NTxDesc /\ hwStart \in Slots
  /\ hwFrame \in Seq(Bufs \cup {NoAddr})
  /\ tcomp \in BOOLEAN /\ txErr \in BOOLEAN
  /\ pstate \in [Pkts -> {"new", "submitting", "ok", "eio"}]
  /\ relCount \in [Pkts -> Nat]
  /\ wire \subseteq Pkts

(* Descriptors posted and not yet reclaimed by tx_completed().            *)
Occupied == (txHead - txTail) % NTxDesc

(* Units of tx_desc_sem obtained since the last flush and not yet turned  *)
(* into a posted descriptor.                                              *)
HeldUnits == Cardinality({t \in Threads : takenAt[t] = flushed})

(* Flow control never creates a unit: free units, units held by threads   *)
(* of eth_tx() and descriptors in flight never exceed len - 1. Breaking   *)
(* it takes a reclaim or a reseed that gives back more than was taken.    *)
FlowControlBounded == sem + HeldUnits + Occupied <= SemLimit

(* Every frame is released by the driver (tx_completed or                 *)
(* tx_error_handler) at most once.                                        *)
ReleasedAtMostOnce == \A p \in Pkts : relCount[p] <= 1

(* A frame for which eth_tx() returned 0 and that the driver has not      *)
(* released is still recorded in tx_frames, so it will be released.      *)
QueuedFrameTracked ==
  \A p \in Pkts :
    pstate[p] = "ok" /\ relCount[p] = 0 =>
      \E i \in RingPositions(txFrames) : txFrames.buf[i] = p

(* tx_completed() only releases a frame the DMA has put on the wire; a    *)
(* release without a flush is never of a frame still waiting for DMA.    *)
ReleasedOnlyAfterSent ==
  [][\A p \in Pkts :
       relCount'[p] > relCount[p] /\ flushed' = flushed => p \in wire]_vars

(* The DMA only ever reads a buffer of a frame the driver still holds,    *)
(* and the buffers of one frame in order: it never reads a stale slot or  *)
(* another frame's fragment in the middle of a frame.                     *)
LiveContinuation(b) ==
  /\ b # NoAddr
  /\ relCount[b[1]] = 0 /\ pstate[b[1]] \in {"submitting", "ok"}
  /\ b[2] = Len(hwFrame) + 1
  /\ \A i \in 1 .. Len(hwFrame) : hwFrame[i] = <<b[1], i>>

DmaReadsLiveFrame ==
  [][HwSendBuffer => LiveContinuation(txDesc[hwPtr].addr)]_vars

(* tx_completed() never finds a LASTBUFFER slot whose frame eth_tx() has  *)
(* not yet recorded (the __ASSERT in ring_buf_get()).                     *)
NoEmptyRingGet == panic # "retrieving data from empty ring buffer"

(* A frame for which eth_tx() returned 0 is eventually put on the wire or *)
(* released by an error flush (unless the driver halted on an assert).    *)
QueuedFrameEventuallySent ==
  \A p \in Pkts :
    pstate[p] = "ok" ~> (p \in wire \/ relCount[p] > 0 \/ panic # "none")

(* The frames tx_frames holds, oldest first: the entries from tail up to  *)
(* head, wrapping at the end of the array.                                *)
InFlight ==
  [k \in 1 .. (txFrames.head - txFrames.tail) % TxFramesLen |->
     txFrames.buf[(txFrames.tail + k - 1) % TxFramesLen]]

(* tx_frames with the releases made by tx_completed() and                *)
(* tx_error_handler() refines a bounded FIFO queue of frames: eth_tx()   *)
(* appends, a completion releases the oldest frame, a flush releases each *)
(* recorded frame once and empties it.                                    *)
FrameQueue == INSTANCE TxFrameQueue WITH queue <- InFlight, released <- relCount,
                                         Cap <- TxFramesLen - 1

FramesRefineQueue == FrameQueue!Spec

(* Every call of eth_tx() eventually returns (0 or -EIO): a caller that *)
(* blocks in k_sem_take() for a descriptor is woken by the k_sem_give()   *)
(* of tx_completed() or tx_error_handler(), and no unit is lost between.  *)
EverySubmissionReturns ==
  \A p \in Pkts :
    pstate[p] = "submitting" ~> (pstate[p] \in {"ok", "eio"} \/ panic # "none")

=============================================================================
