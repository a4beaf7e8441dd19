------------------------------ MODULE MC_GmacRx ------------------------------
(* Model values and small instances of GmacRx for TLC.                    *)
EXTENDS GmacRx, TLC

CONSTANTS b1, b2, b3, b4, b5, b6, b7, f1, f2, f3

MC_Bufs4 == {b1, b2, b3, b4}
MC_Bufs7 == {b1, b2, b3, b4, b5, b6, b7}
MC_Frames3 == {f1, f2, f3}
MC_Frames2 == {f1, f2}
\* A one-buffer frame, a two-buffer frame and another one-buffer frame.
MC_Frags3 == (f1 :> 1) @@ (f2 :> 2) @@ (f3 :> 1)
\* A three-buffer frame between one-buffer frames: in a 4-slot ring it
\* spans the wrap.
MC_Frags3Big == (f1 :> 1) @@ (f2 :> 3) @@ (f3 :> 1)
MC_SingleFrags3 == [f \in MC_Frames3 |-> 1]
MC_NoReserved == {}
\* Three buffers are in use elsewhere when the driver starts.
MC_Reserved3 == {b1, b2, b3}
\* One buffer is in use elsewhere: the pool holds one ring and one buffer.
MC_Reserved1 == {b1}
(* Reported frame lengths, with CONFIG_NET_BUF_DATA_SIZE = 2 units.      *)
MC_Lens3 == (f1 :> 2) @@ (f2 :> 3) @@ (f3 :> 1)
MC_Lens3Big == (f1 :> 2) @@ (f2 :> 5) @@ (f3 :> 1)
MC_SingleLens3 == (f1 :> 2) @@ (f2 :> 1) @@ (f3 :> 2)
(* u32_t arithmetic: TLC's integers are 32-bit signed, so the model wraps *)
(* at 2^16. Every length the driver computes here is below 20, so a value *)
(* wraps under this modulus exactly when it wraps under 2^32.             *)
MC_WordMod == 2^16
(* SOC_ATMEL_SAM_MCK_FREQ_HZ: a 150 MHz master clock (divisor 64).         *)
MC_Mck == {150000000}
(* Each boundary of get_mck_clock_divisor() and the frequency above it.   *)
MC_MckProbes == {1, 20000000, 20000001, 40000000, 40000001, 80000000,
                 80000001, 120000000, 120000001, 160000000, 160000001,
                 240000000, 240000001}
====
