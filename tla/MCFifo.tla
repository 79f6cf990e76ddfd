------------------------------- MODULE MCFifo --------------------------------
(* Instances of Fifo for TLC. *)
EXTENDS Fifo, TLC

CONSTANTS r1, w1, w2

\* A write that does not fit the buffer, and one that leaves space.
LongAndShort == (w1 :> {<<1, 2, 1>>}) @@ (w2 :> {<<2>>})
=============================================================================
