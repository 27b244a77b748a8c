-------------------------------- MODULE Fifo --------------------------------
(***************************************************************************)
(* One struct fifo and every call its users can make on it, in any order.  *)
(***************************************************************************)
EXTENDS FifoOps

CONSTANT Inputs     \* the buffers handed to fifo_write and fifo_read

ASSUME InputsAssumption == Inputs \subseteq Seq(Byte)

VARIABLES
    fifo,           \* the struct fifo
    ret             \* what the last call returned, and the bytes it gave out

vars == <<fifo, ret>>

-----------------------------------------------------------------------------

Init ==
    /\ fifo = fifo_init
    /\ ret = [n |-> 0, data |-> << >>]

Putc(c) ==
    /\ fifo' = fifo_putc(fifo, c)
    /\ ret' = [n |-> IF fifo.len >= FIFO_BUFSIZE THEN 0 ELSE 1, data |-> << >>]

Getc ==
    /\ fifo' = fifo_getc(fifo)
    /\ ret' = [n |-> Gotten(fifo), data |-> << >>]

Write(s) ==
    /\ fifo' = fifo_write(fifo, s)
    /\ ret' = [n |-> Taken(fifo, s), data |-> << >>]

Read(n) ==
    /\ fifo' = fifo_read(fifo, n)
    /\ ret' = [n |-> ReadCount(fifo, n), data |-> ReadData(fifo, n)]

Getbulk ==
    /\ fifo' = fifo_getbulk(fifo)
    /\ ret' = [n |-> BulkCount(fifo), data |-> BulkData(fifo)]

Next ==
    \/ \E c \in Byte : <<c>> \in Inputs /\ Putc(c)
    \/ \E s \in Inputs : Write(s) \/ Read(Len(s))
    \/ Getc
    \/ Getbulk

Spec == Init /\ [][Next]_vars

-----------------------------------------------------------------------------
(* Properties *)

(* The struct and the returned values stay in their ranges. *)
TypeOK ==
    /\ fifo \in Fifo
    /\ ret \in [n : Int, data : Seq(Byte)]

(* rd, wr and len are three encodings of two facts, and fifo_getbulk resets
   them one way when the contents wrap and another way when they do not: they
   never disagree about where the contents end. *)
Coherent == IsCoherent(fifo)

(* Refinement: the ring with its wrap-around and its two-part bulk reads is a
   bounded queue.  Every byte accepted comes out once and in order. *)
Q == INSTANCE BoundedQueue WITH
        Capacity <- FIFO_BUFSIZE, q <- Contents(fifo)

IsBoundedQueue == Q!Spec
=============================================================================
