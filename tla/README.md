# TLA+ models of the Atmel SAM GMAC Ethernet driver

This directory holds TLA+ models of `src/drivers/ethernet/eth_sam_gmac.c`, with
the TLC configurations that check them. The driver moves frames between the
Zephyr network stack and the GMAC controller's DMA through rings of descriptors
in shared memory. `spec.md` describes the same engine in general terms.

## The system and how its parts interact

| Part (spec.md name) | Code | Model |
|---|---|---|
| Descriptor ring (TX) | `tx_desc_que0`, `tx_descriptors_init`, `MODULO_INC`, `gmac_desc_*` | `GmacTx`: `txDesc`, `txHead`, `txTail`, `TxDescInit`, `NextSlot` |
| In-flight frame ring | `tx_frames`, `ring_buf_reset/get/put` | `GmacTx`: `txFrames`, `RingBuf*` |
| Submission flow controller | `tx_desc_sem` (`k_sem_init` in `queue_init`, `k_sem_take/give/reset`) | `GmacTx`: `sem`, `semWaiters`, `TakeSem`, `GiveUnits` |
| Frame submitter | `eth_tx` | `GmacTx`: `Submit`, `TakeSem`, `PostFragment`, `FinishFrame`, `StartTx`, `ReturnEio` |
| Completion and error handler (TX) | `queue0_isr` (TX half), `tx_completed`, `tx_error_handler` | `GmacTx`: `IsrTx`, `TxCompleted`, `TxErrorHandler` |
| Descriptor ring (RX), fragment tracking ring | `rx_descriptors_init`, `rx_frag_list_que0`, `free_rx_bufs` | `GmacRx`: `rxDesc`, `rxTail`, `fragList`, `RxDescInitStep`, `FreeRxBufs` |
| Frame assembler | `frame_get`, `eth_rx`, `rx_error_handler` | `GmacRx`: `FrameGetScan`, `RxTakeSlot`, `RxGiveSlot`, `Deliver`, `RxErrorHandler`, `IsrRx` |
| Memory coherency gate | `dcache_*`, `__DMB` | abstracted: memory is coherent and ordered |
| Controller init, PHY outcome | `eth0_iface_init`, `gmac_init`, `get_mck_clock_divisor`, `queue_init`, `link_configure` | `GmacRx`: `IfaceInit`, `IfaceInitAgain`, `GmacInit`, `GetMckClockDivisor`, `RxDescInitStep`, `QueueInitDone`, `PhyFail`, `LinkUp` |
| MAC address, PTP clock, priority queues 1–2 | `mac_addr_set`, `get_mac_addr_from_i2c_eeprom`, `ptp_clock_sam_gmac_*`, `priority_queue_init_as_idle` | not modelled (see below) |

Several actors run the transmit path at once:

- **Threads calling `eth_tx()`.** Each thread does the following, in order:
  - samples `err_tx_flushed_count`;
  - for each fragment, blocks in `k_sem_take` and then posts the fragment at `head` inside `irq_lock()`;
  - in a second `irq_lock()` section, marks the slot after the frame USED (the sentinel) and records the frame in `tx_frames`;
  - sets TSTART.
- **The GMAC interrupt (`queue0_isr`).** It reads `GMAC_ISR`, which is cleared on read. On a TX error it runs `tx_error_handler()`: the handler drains `tx_frames`, resets the ring and reseeds the semaphore. Otherwise, on TCOMP, it runs `tx_completed()`: this reclaims descriptors from `tail` up to the first LASTBUFFER one, gives one unit per descriptor, and pops and releases one frame.
- **The transmit DMA.** It walks the ring from its queue pointer, on its own and in parallel with the threads:
  - it stops at a USED slot at a frame boundary (TXUBR);
  - a USED slot met mid-frame is a TX error;
  - after the last buffer of a frame it sets USED on the frame's first descriptor and raises TCOMP;
  - it follows WRAP.

## The modules

`GmacTx.tla` is the TX path of queue 0. Its state is listed in the comments on
its `VARIABLES`:
- the descriptors, with address, USED, LASTBUFFER and WRAP;
- the ring indices, the semaphore and its waiters, and `tx_frames`;
- the flush counter;
- each thread's position in `eth_tx()`;
- the DMA's pointer and the frame it is in;
- the pending TCOMP and TX-error bits;
- bookkeeping for the properties: the state of each frame's `eth_tx()` call, the number of releases per frame, and the frames fully put on the wire.

The actions follow the code as follows:
- Each `irq_lock()` section of `eth_tx()` is one action: `PostFragment`, then `FinishFrame`. The -EIO checks inside both are `ReturnEio`.
- `k_sem_take` is `TakeSem`. It blocks, and `GiveUnits` wakes the thread with the unit, as `k_sem_give` does in this kernel.
- The interrupt handler runs as a single action, `IsrTx`, because it cannot be preempted by the threads.
- A failed `__ASSERT` sets `panic` and halts the model.

The DMA actions (`Hw*`) model the controller, not code.

`GmacRx.tla` is the RX path of queue 0. The interrupt handler is the only
software on it, so `eth_rx()` and `frame_get()` are cut only where the
DMA can tell:
- the completeness scan, together with the `net_pkt` reservation and the SOF assert (`FrameGetScan`);
- for each slot, the buffer swap and status clear (`RxTakeSlot`);
- for each slot, the address write that returns the slot to the DMA (`RxGiveSlot`). At EOF this action also delivers or rejects the frame (`Deliver`).

`RxErrorHandler` runs whole. Initialisation follows `eth0_iface_init()`:
- `IfaceInit` is a call while `init_done` is clear. It runs `gmac_init` (`GmacInit`, which writes the MDC divisor from `GetMckClockDivisor`) and starts `queue_init`. With an MCK no divisor fits, it returns at once.
- `RxDescInitStep` is one iteration of `rx_descriptors_init`, with `FreeRxBufs` on failure and `QueueInitDone` (the rest of `queue_init`) on success.
- `PhyFail` (bounded by `MaxPhyFails`) or `LinkUp` (`link_configure`, then `init_done`) follow.
- `IfaceInitAgain` is a later call once `init_done` is set. `NIfaces` bounds the calls: 1 without VLAN, more with `CONFIG_NET_VLAN`.
- The build's MCK is a variable `mck`, chosen in `Init` from `MckFreqs`, so that one run covers several builds. Other actions model the environment, not code:
- `HwRxFragment`, `HwRxNoBuffer` and `HwRxOverrun` model the DMA;
- `StackRelease` models the network stack;
- `Reserved` stands for buffers that other users hold when the driver starts.

Buffer contents are tracked as `<<frame, index>>`, so a delivered frame can
be checked for wholeness. Lengths are kept where the driver computes them:
- each frame has a reported length `FrameLen[f]`, which the DMA writes into the LEN field of its EOF descriptor;
- `frame_get()`'s `frame_len` is `fgLen`;
- `frag_len` is `FragLen`, computed in u32_t arithmetic. TLC's integers are 32-bit signed, so the configurations wrap at 2^16. With these bounds every value stays below 20, so a value wraps under 2^16 exactly when it wraps under 2^32.

The driver's error counters (`err_rx_frames_dropped`, `err_rx_flushed_count`) and `free_rx_bufs`'s unrefs of a non-buffer are not state of the model: no property reads them. `FreeRxBufs` therefore changes nothing, which is what it does to the pool and the ring.

## Abstract specifications and refinement

- The receive path has no abstract specification. The promise it would state (whole frames, at most once, in arrival order) is broken by the code with multi-buffer frames: `rx_merge` delivers two frames as one. With one-buffer frames merging cannot happen at all, so a passing refinement check there would say little.
- `TxFrameQueue.tla` states what `tx_frames` promises:
  - it is a bounded FIFO of recorded frames;
  - a completion releases the oldest frame;
  - a flush releases each recorded frame once and empties the queue.

  `GmacTx` refines it through the mapping `InFlight`. The mapping reads the ring buffer's entries from `tail` to `head`, modulo its length. `released` maps to the driver's per-frame `net_pkt_unref` count (`FramesRefineQueue`). This covers `ring_buf_put`, `ring_buf_get` and `ring_buf_reset`, together with the releases in `tx_completed` and `tx_error_handler`.

`MC_GmacTx.tla` and `MC_GmacRx.tla` give model values for the frames and
threads. They also define the fragment counts, the reported lengths and the
word modulus used by the configurations.

## Runs

| Run | Config | Expect | What it shows |
|---|---|---|---|
| tx_multi | `MC_GmacTx_multi.cfg` | pass | One submitter, frames of 2, 1 and 2 fragments, a 4-slot ring and one TX error, including the DMA meeting a USED slot mid-frame. Flow control never creates a unit (`FlowControlBounded`). Each frame is released at most once (`ReleasedAtMostOnce`). A frame accepted with 0 stays tracked until it is released (`QueuedFrameTracked`). `tx_frames` with the driver's releases refines `TxFrameQueue` (`FramesRefineQueue`). This run checks no property about what the DMA reads or sends: with multi-fragment frames the DMA can read a stale descriptor (tx_stale_desc), and this bound only keeps that case out of reach. |
| tx_threads | `MC_GmacTx_threads.cfg` | pass | Two concurrent callers, who block on the semaphore. The accounting properties hold, accepted frames are eventually sent, and `tx_frames` refines `TxFrameQueue` (`FramesRefineQueue`). With a fourth frame the same properties still hold (see below). |
| tx_eio_leak | `MC_GmacTx_eio_leak.cfg` | violation | `EverySubmissionReturns`, with two callers, four single-fragment frames and one TX error. Both callers sample the flush counter at line 887, and the flush runs before they reach `k_sem_take` at line 912. A caller blocked there on a full ring would be in the same position, woken by the flush's `k_sem_give`s. Each caller takes a unit of the reseeded semaphore and returns -EIO at line 923 still holding it. With both units gone and nothing in flight, no TCOMP or flush follows, and the next `eth_tx()` blocks forever. With no TX error, the same configuration passes. |
| tx_early_tcomp | `MC_GmacTx_early_tcomp.cfg` | violation | `NoEmptyRingGet`: the DMA, still running, sends a frame posted by the first `irq_lock` section. TCOMP is serviced before `ring_buf_put`, so `ring_buf_get`'s assert fires. |
| tx_stale_desc | `MC_GmacTx_stale_desc.cfg` | violation | `DmaReadsLiveFrame`: a frame's first descriptor is released to a running DMA before its later fragments are posted. The DMA reads stale descriptors of an earlier lap. |
| tx_order | `MC_GmacTx_order.cfg` | violation | `ReleasedOnlyAfterSent`: two callers record `tx_frames` in the opposite order to their descriptors. `tx_completed` releases an unsent frame. |
| tx_coalesce | `MC_GmacTx_coalesce.cfg` | violation | `EverySubmissionReturns`: two frames finish under one TCOMP and `tx_completed` reclaims one. No interrupt follows, and a 2-fragment submission blocks forever. This happens with no error at all. |
| rx_run | `MC_GmacRx_run.cfg` | pass | A 4-slot ring, 7 buffers, and frames of 1, 3 and 1 buffers (the long one spans the wrap), with one overrun, RXUBR, one failed `net_pkt` reservation, an empty pool, rejected deliveries and one PHY failure. Every buffer is in exactly one place (`BufferInOnePlace`). Every hardware-owned slot points at its `rx_frag_list` buffer (`DescMatchesFragList`). The build's MCK ranges over every boundary of `get_mck_clock_divisor`, and `GMAC_NCFGR` gets the smallest divisor that keeps MDC within 2.5 MHz (`MdcDivisorMinimal`, checked against a reference definition `MdcRef`). |
| rx_single | `MC_GmacRx_single.cfg` | pass | One-buffer frames in a 2-slot ring, with RXUBR, a failed reservation and rejected deliveries, and a second (VLAN) interface whose `eth0_iface_init` returns early on `init_done`. `BufferInOnePlace` and `DescMatchesFragList` hold. |
| rx_merge | `MC_GmacRx_merge.cfg` | violation | `LinkedLengthFitsBuffer`: a frame the DMA abandons at RXUBR while `eth_rx` loops leaves software-owned fragments without EOF. The next `frame_get` joins them to the following frame and counts them into `frame_len`. On the EOF slot, `frag_len = LEN - frame_len` then wraps around to almost 2^32. `net_buf_add` is called with that length, and the two frames are delivered as one. |
| rx_stranded | `MC_GmacRx_stranded.cfg` | violation | `CompleteFrameLeavesRing`: a frame dropped for want of a `net_pkt` ends `eth_rx` (`while (rx_frame)`). A complete frame received under the same RCOMP waits for another arrival. |
| rx_init_leak | `MC_GmacRx_init_leak.cfg` | violation | `InitFailureReleasesBuffers`: two interfaces (`CONFIG_NET_VLAN`) and one PHY failure. `init_done` is still clear, so the second `eth0_iface_init` reruns `queue_init`. `rx_descriptors_init` overwrites `rx_frag_list` without releasing the first ring's buffers and runs the pool dry. `free_rx_bufs` then unrefs `rx_frag_list->buf`, the array, not `buf[i]`. Neither the old ring's buffers nor the newly reserved one return to the pool; each bug alone breaks the property. |

The violations are recorded as findings in `PROJECT.json`. The safety
violations `tx_early_tcomp` and `tx_stale_desc` are races with the DMA or the
ISR that need a precise order of three actors. `tx_eio_leak` needs a TX error
while two callers are between lines 887 and 912. `tx_coalesce` needs two frames to finish
before the interrupt is taken.

A passing run checks no property that the code breaks in a larger instance
of the same configuration:
- With multi-fragment frames, `DmaReadsLiveFrame`, `ReleasedOnlyAfterSent` and `QueuedFrameEventuallySent` fail as a consequence of `tx_stale_desc`, given frames enough to lap the ring. `tx_multi` does not check them.
- With two threads, `ReleasedOnlyAfterSent` fails (`tx_order`).
- `EverySubmissionReturns` fails with a 2-fragment frame (`tx_coalesce`). It also fails with one TX error and a fourth frame (`tx_eio_leak`), so no passing run checks it. It holds at 3 frames only because too few frames remain after the leak.
- `tx_threads`'s own properties were also checked with a fourth frame (491,557 distinct states, about 4 minutes, all passing). The run uses 3 frames to keep each mutant run short.
- With one-buffer frames, merging cannot happen. So `rx_single` does not check `LinkedLengthFitsBuffer`, which `rx_merge` breaks with multi-buffer frames.

Every property of a passing run has a mutant in `PROJECT.json`: an operator
that seeds a plausible bug, which TLC must catch. The mutants are:
- no wrap in `MODULO_INC`;
- a semaphore seeded with `len` units;
- `tx_error_handler` keeping, dropping or not reinitialising state;
- `ring_buf_reset` keeping the tail;
- no TSTART;
- the RX wrap bit never set, a rejected frame not unreffed, the old buffer posted back, and an off-by-one MCK threshold.

### Bounds

- 3 frames and a ring of 3 slots (2 semaphore units) is the smallest setting in which:
  - the ring wraps;
  - the sentinel lands on a slot of the previous lap;
  - the semaphore runs out, so a caller blocks.
- The multi-fragment run uses 4 slots, so that a 2-fragment frame and the sentinel fit while another frame is in flight.
- `MaxTxErrors = 1` lets one hardware error flush hit every point of a submission. `tx_eio_leak` adds a fourth frame. One frame is in flight when the error hits, two callers leak, and the fourth caller is the one that blocks. `tx_coalesce` sets it to 0, to show that its deadlock needs no error.
- All frame and thread counts stay within `CONFIG_NET_PKT_TX_COUNT`: `tx_frames` has one entry more than there are frames.

RX bounds:
- 2 or 4 slots and at least as many buffers outside the ring as the largest frame needs. This matches the driver's build-time checks.
- Three frames, one of two or three buffers, so that a frame can span the wrap and be abandoned half-written; in `rx_run` a three-buffer frame can be abandoned after one or after two buffers.
- One overrun and one failed `net_pkt` reservation.
- Two interface calls and one PHY failure where the run is about initialisation; the MCK probes are each threshold of `get_mck_clock_divisor` and the value just above it.

### Fairness

- Weak fairness on each thread's steps after entry: a runnable thread is eventually scheduled.
- Weak fairness on `IsrTx`: a pending interrupt is eventually taken.
- Weak fairness on the DMA reading its next slot: a running DMA makes progress.
- Submitting a new frame and line errors are not fair. The stack may stop sending, and errors are not guaranteed.

- On RX, weak fairness on all driver software steps (initialisation and the interrupt handler), and on the DMA finishing a frame it has begun. New arrivals and the stack's releases are not fair.

`CHECK_DEADLOCK FALSE` is set because the frames are finite. Once all of them
are handled the system idles, which is not a fault. Liveness properties state
what must eventually happen.

## Assumptions about the controller

- TXUBR is not among the enabled TX interrupts, so stopping at the sentinel raises nothing.
- After stopping, the queue pointer stays on the USED slot, and TSTART resumes from it.
- Clearing TXEN (`tx_error_handler`) resets the queue pointer to the start of the ring.
- The DMA sets USED only on the first descriptor of a frame once the frame is sent.
- RX: the DMA sets OWNERSHIP, and SOF or EOF, on each buffer as it fills it.
- RX: on a software-owned slot (RXUBR) or an overrun, the DMA discards the frame. The buffers already filled stay software-owned, without EOF, which is the case the comment at line 712 anticipates. After RXUBR the DMA re-reads the same slot for the next frame.
- RX: `rx_error_handler`'s rewrite of RBQB with RXEN off puts the DMA back at slot 0.
- Memory is coherent, and the two descriptor words are written in program order. The `__DMB` and the cache maintenance are taken as correct.

## Not modelled

- The PTP clock and timestamping: register arithmetic that no property depends on.
- VLAN selection and logging.
- Of the bring-up, the register values other than the MDC divisor, the MAC address, `eth_initialize` (IRQ, clock, pins) and the PHY's MDIO exchanges. The PHY is reduced to its outcome: `PhyFail` or `LinkUp`.
- The composition of RX and TX under `queue0_isr`:
  - the two halves share no state: separate rings, semaphore, counters and buffers;
  - a status bit raised while `eth_rx` loops stays set in `GMAC_ISR` and raises the interrupt again;
  - a product of the two modules would multiply the state space without a new interaction to check.
- Priority queues 1 and 2: idle, with one USED descriptor. The TX descriptor is software-owned, as the comment says. The RX descriptor is written `GMAC_RXW0_WRAP` only, with OWNERSHIP clear, which leaves it owned by the GMAC at address 0, despite the comment "Take ownership from GMAC". It matters only if screening registers route frames to queues 1–2, and the driver sets none.
- The board Kconfig and DTS fragments under `src/unnamed/`.
- Byte counts on the TX side: `eth_tx` copies `frag->len` into the descriptor, and no property depends on it.
- VLAN tagging and RX timestamps in `eth_rx`.

## Plan

1. `GmacTx` and `GmacRx`: done.
2. Refinement of `TxFrameQueue`, and RX lengths: done. An RX channel refinement was dropped, because the code breaks it (`rx_merge`).
3. Two callers with multi-fragment frames: done as analysis, without a run of its own. The configuration is 4 slots, two threads, and frames of 2, 1 and 2 fragments. Under it, `QueuedFrameEventuallySent` fails, and so does `DmaReadsLiveFrame`, because the fragments of the two callers interleave in the ring:
   - each fragment is posted in its own `irq_lock()` section, with `k_sem_take` in between;
   - the DMA sends `<<p1,1>>, <<p2,1>>` as one frame;
   - `p1`'s second fragment goes out as a frame of its own;
   - `p1` is never sent whole.

   It is listed as a hazard.
4. `eth0_iface_init` retried after a failed PHY bring-up: modelled in `GmacRx`, shown by `rx_init_leak`.
5. A larger RX instance (4 slots, a frame of 3 buffers): done in `rx_run`.
6. Caller liveness: `EverySubmissionReturns` fails through TCOMP coalescing (`tx_coalesce`) and through the -EIO leak (`tx_eio_leak`).
7. Left out for good: the PTP clock registers and the idle priority queues (see Not modelled).
