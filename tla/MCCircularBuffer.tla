--------------------------- MODULE MCCircularBuffer ---------------------------
(* The instances of CircularBuffer for TLC. *)
EXTENDS CircularBuffer

(* No action reads io: TLC compares states without it, and still checks    *)
(* every step with the io it leaves.                                       *)
WithoutIo == <<data, capacity, in, out, overrun, sent>>
==============================================================================
