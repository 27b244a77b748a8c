------------------------------ MODULE FifoOps ------------------------------
(***************************************************************************)
(* user/fifo.c and user/fifo.h as operators on the record that stands for  *)
(* a struct fifo.  A call is one operator for the struct it leaves behind  *)
(* and, where it returns something, one for that.  The loop of fifo_write  *)
(* is a fold of fifo_putc; that of fifo_read, which goes on calling        *)
(* fifo_getc when the bytes have run out, is written in closed form.       *)
(***************************************************************************)
EXTENDS Integers, SequencesExt

CONSTANTS
    FIFO_BUFSIZE,   \* "must be n^2" (fifo.h:5), that is, a power of two
    Byte            \* the values of a char that are told apart

(* A char read with & 0xff is in 0..255; memset leaves zeros, and storing
   fifo_getc's -1 leaves 0xff. *)
ASSUME BufsizeAssumption == FIFO_BUFSIZE \in Nat /\ FIFO_BUFSIZE > 0
ASSUME ByteAssumption == Byte \subseteq 0..255 /\ {0, 255} \subseteq Byte

Index == 0..(FIFO_BUFSIZE - 1)

Fifo == [rd : Index, wr : Index, len : 0..FIFO_BUFSIZE, buf : [Index -> Byte]]

(* & (FIFO_BUFSIZE - 1) on a sum of an index and at most FIFO_BUFSIZE. *)
Mask(n) == IF n < FIFO_BUFSIZE THEN n ELSE n - FIFO_BUFSIZE

Smaller(a, b) == IF a < b THEN a ELSE b

-----------------------------------------------------------------------------

fifo_init == [rd |-> 0, wr |-> 0, len |-> 0, buf |-> [i \in Index |-> 0]]

fifo_space(f) == FIFO_BUFSIZE - f.len
fifo_len(f) == f.len

(* Mutant of fifo_putc: no test for a full ring. *)
fifo_putc_unchecked(f, c) ==
    [f EXCEPT !.buf[f.wr] = c, !.wr = Mask(f.wr + 1), !.len = @ + 1]

fifo_putc(f, c) ==
    IF f.len >= FIFO_BUFSIZE
    THEN f
    ELSE [f EXCEPT !.buf[f.wr] = c, !.wr = Mask(f.wr + 1), !.len = @ + 1]

(* The number of bytes of s that fifo_write takes, and returns. *)
Taken(f, s) == Smaller(fifo_space(f), Len(s))

fifo_write(f, s) == FoldLeft(fifo_putc, f, SubSeq(s, 1, Taken(f, s)))

(* f after n calls of fifo_getc, n at most f.len. *)
Advance(f, n) == [f EXCEPT !.rd = Mask(f.rd + n), !.len = @ - n]

fifo_getc(f) == IF f.len = 0 THEN f ELSE Advance(f, 1)
Gotten(f) == IF f.len = 0 THEN -1 ELSE f.buf[f.rd]

(* The loop bound of fifo_read is the free space, not the length: it may stop
   early on a full queue, and stores fifo_getc's -1 when the bytes run out. *)
ReadCount(f, n) == Smaller(fifo_space(f), n)

fifo_read(f, n) == Advance(f, Smaller(ReadCount(f, n), f.len))
ReadData(f, n) ==
    [i \in 1..ReadCount(f, n) |->
        IF i <= f.len THEN f.buf[Mask(f.rd + i - 1)] ELSE 255]

(* The bytes up to the end of the buffer when the contents wrap, all of them
   when they do not: *lenp, the bytes at the returned address, what is left. *)
Wraps(f) == FIFO_BUFSIZE - f.rd < f.len
BulkCount(f) == IF Wraps(f) THEN FIFO_BUFSIZE - f.rd ELSE f.len
BulkData(f) == [i \in 1..BulkCount(f) |-> f.buf[f.rd + i - 1]]

(* Mutants of fifo_getbulk: one index left as it was. *)
fifo_getbulk_keeps_wr(f) ==
    IF f.len = 0 THEN f
    ELSE IF Wraps(f)
         THEN [f EXCEPT !.len = @ - BulkCount(f), !.rd = 0]
         ELSE [f EXCEPT !.rd = 0, !.len = 0]
fifo_getbulk_keeps_rd(f) ==
    IF f.len = 0 THEN f
    ELSE IF Wraps(f)
         THEN [f EXCEPT !.len = @ - BulkCount(f)]
         ELSE [f EXCEPT !.rd = 0, !.wr = 0, !.len = 0]

fifo_getbulk(f) ==
    IF f.len = 0 THEN f
    ELSE IF Wraps(f)
         THEN [f EXCEPT !.len = @ - BulkCount(f), !.rd = 0]
         ELSE [f EXCEPT !.rd = 0, !.wr = 0, !.len = 0]

-----------------------------------------------------------------------------

(* The bytes in the ring, oldest first: what a struct fifo stands for. *)
Contents(f) == [i \in 1..f.len |-> f.buf[Mask(f.rd + i - 1)]]

(* The write index is where the contents end. *)
IsCoherent(f) == f.wr = Mask(f.rd + f.len)
=============================================================================
