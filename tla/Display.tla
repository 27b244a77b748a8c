------------------------------ MODULE Display ------------------------------
(***************************************************************************)
(* What the LED matrix promises to whoever sends it patterns: rows are lit *)
(* in order, and a row shows a pattern no older than the newest one that   *)
(* was whole when the row before it was lit, and never an older one than   *)
(* it has already shown.                                                   *)
(*                                                                         *)
(* Patterns are numbered as they come; number 0 is the one built in.       *)
(***************************************************************************)
EXTENDS Integers

CONSTANT ROWS       \* rows of the matrix, a positive number

VARIABLES
    begun,      \* the newest pattern that has begun to come in
    whole,      \* the newest pattern that has come in as a whole
    lit,        \* the row that was lit last
    floor,      \* the newest whole pattern when that was
    shown       \* the pattern each row has shown last, or DARK

vars == <<begun, whole, lit, floor, shown>>

Rows == 0..(ROWS - 1)
DARK == -1

-----------------------------------------------------------------------------

Init ==
    /\ begun = 0 /\ whole = 0 /\ floor = 0
    /\ lit = 0
    /\ shown = [r \in Rows |-> DARK]

Begin ==
    /\ begun = whole
    /\ begun' = begun + 1
    /\ UNCHANGED <<whole, lit, floor, shown>>

Complete ==
    /\ whole' = begun
    /\ UNCHANGED <<begun, lit, floor, shown>>

(* The matrix is switched on, all dark. *)
Blank ==
    /\ shown = [r \in Rows |-> DARK]
    /\ floor' = whole
    /\ UNCHANGED <<begun, whole, lit, shown>>

(* The next row is lit. *)
Light ==
    /\ lit' = (lit + 1) % ROWS
    /\ floor' = whole
    /\ \E p \in floor..begun :
            /\ p >= shown[lit']
            /\ shown' = [shown EXCEPT ![lit'] = p]
    /\ UNCHANGED <<begun, whole>>

Next == Begin \/ Complete \/ Blank \/ Light

Spec == Init /\ [][Next]_vars
=============================================================================
