---------------------------- MODULE BoundedQueue ----------------------------
(***************************************************************************)
(* What a byte queue promises its callers: bytes come out in the order in  *)
(* which they went in, each one once, and a write that does not fit is cut *)
(* to the prefix that does.  How many bytes one bulk read lends is left    *)
(* open, so long as a queue that holds something lends something.          *)
(*                                                                         *)
(* Fifo.tla is shown to implement this specification.                      *)
(***************************************************************************)
EXTENDS QueueOps

CONSTANT
    Inputs      \* the byte strings callers write

VARIABLES
    q,          \* the bytes in the queue, oldest first
    ret         \* what the last call returned: a number and a byte string

qvars == <<q, ret>>

EOF == -1       \* fifo_getc's answer for an empty queue
Pad == 255      \* ... and what storing it in a char leaves

(* The first n bytes, padded when the queue has fewer. *)
Padded(queue, n) ==
    [i \in 1..n |-> IF i <= Len(queue) THEN queue[i] ELSE Pad]

-----------------------------------------------------------------------------

Init == q = << >> /\ ret = [n |-> 0, data |-> << >>]

Write(s) ==
    /\ q' = Push(q, s)
    /\ ret' = [n |-> Len(q') - Len(q), data |-> << >>]

Getc ==
    \/ /\ q = << >>
       /\ ret' = [n |-> EOF, data |-> << >>]
       /\ UNCHANGED q
    \/ /\ q # << >>
       /\ ret' = [n |-> q[1], data |-> << >>]
       /\ q' = Drop(q, 1)

Read(n) ==
    \E k \in 0..n :
        /\ ret' = [n |-> k, data |-> Padded(q, k)]
        /\ q' = Drop(q, Least(k, Len(q)))

Bulk ==
    \/ /\ q = << >>
       /\ ret' = [n |-> 0, data |-> << >>]
       /\ UNCHANGED q
    \/ \E k \in 1..Len(q) :
        /\ ret' = [n |-> k, data |-> SubSeq(q, 1, k)]
        /\ q' = Drop(q, k)

Next ==
    \/ \E s \in Inputs : Write(s) \/ Read(Len(s))
    \/ Getc
    \/ Bulk

Spec == Init /\ [][Next]_qvars
=============================================================================
