------------------------------ MODULE QueueOps ------------------------------
(***************************************************************************)
(* A bounded byte queue as a sequence, oldest byte first: what the ring of *)
(* fifo.c stands for.                                                      *)
(***************************************************************************)
EXTENDS Integers, Sequences

CONSTANT Capacity       \* the most bytes a queue holds

Least(a, b) == IF a < b THEN a ELSE b

(* The part of s that still fits when so many bytes are free. *)
Fitting(s, free) == SubSeq(s, 1, Least(Len(s), free))

(* A write takes what fits and drops the rest of s. *)
Push(queue, s) == queue \o Fitting(s, Capacity - Len(queue))

(* What is left when the first n bytes have been taken. *)
Drop(queue, n) == SubSeq(queue, n + 1, Len(queue))
=============================================================================
