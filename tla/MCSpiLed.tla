------------------------------ MODULE MCSpiLed ------------------------------
(* Four rows, a counter that runs over after two rounds, and two patterns     *)
(* besides the built-in one: patterns come faster and slower than rows.       *)
EXTENDS SpiLed
=============================================================================
