------------------------------ MODULE MC_GmacTx ------------------------------
(* Model-checking instances of GmacTx.                                     *)
EXTENDS GmacTx, TLC

CONSTANTS p1, p2, p3, p4, t1, t2

(* Three single-fragment frames.                                           *)
MC_Pkts3 == {p1, p2, p3}
MC_SingleFrags == [p \in MC_Pkts3 |-> 1]

(* A two-fragment frame between single-fragment ones: the ring laps       *)
(* inside a frame and leaves non-first slots with USED clear.             *)
MC_MultiFrags == (p1 :> 2) @@ (p2 :> 1) @@ (p3 :> 2)
MC_CoalesceFrags == (p1 :> 1) @@ (p2 :> 1) @@ (p3 :> 2)

(* Two single-fragment frames, for two threads.                            *)
MC_Pkts2 == {p1, p2}
MC_SingleFrags2 == [p \in MC_Pkts2 |-> 1]

(* Four single-fragment frames: two callers can each leak a unit after   *)
(* the last flush and a later submission still finds the semaphore.     *)
MC_Pkts4 == {p1, p2, p3, p4}
MC_SingleFrags4 == [p \in MC_Pkts4 |-> 1]

MC_OneThread == {t1}
MC_TwoThreads == {t1, t2}
=============================================================================
