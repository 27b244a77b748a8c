------------------------------- MODULE MCFifo -------------------------------
(* A ring of four bytes of two values, written up to five bytes at a time so
   that every write can be cut short and every position can wrap. *)
EXTENDS Fifo

MCInputs == UNION {[1..n -> Byte] : n \in 0..3} \cup {<<255, 0, 255, 0, 255>>}
=============================================================================
