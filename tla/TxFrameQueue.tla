----------------------------- MODULE TxFrameQueue -----------------------------
(***************************************************************************)
(* What the in-flight frame ring of the transmit path promises: a bounded *)
(* first-in first-out queue of the frames handed to the DMA. A completion *)
(* releases the oldest recorded frame; an error flush releases every      *)
(* recorded frame once and empties the queue. Nothing else releases one.  *)
(***************************************************************************)
EXTENDS Integers, Sequences, SequencesExt

CONSTANTS
  Pkts,   \* the frames
  Cap     \* how many frames the queue can hold

VARIABLES
  queue,     \* the recorded frames, oldest first
  released   \* released[p]: how often frame p has been released

Init == queue = <<>> /\ released = [p \in Pkts |-> 0]

Record ==
  /\ Len(queue) < Cap
  /\ \E p \in Pkts \ ToSet(queue) : queue' = Append(queue, p)
  /\ UNCHANGED released

Complete ==
  /\ queue # <<>>
  /\ queue' = Tail(queue)
  /\ released' = [released EXCEPT ![Head(queue)] = @ + 1]

Flush ==
  /\ queue' = <<>>
  /\ released' = [p \in Pkts |-> released[p] + (IF p \in ToSet(queue) THEN 1 ELSE 0)]

Next == Record \/ Complete \/ Flush

Spec == Init /\ [][Next]_<<queue, released>>

====
