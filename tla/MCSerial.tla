------------------------------ MODULE MCSerial ------------------------------
(* A hardware FIFO of four bytes that interrupts at two; the constants keep   *)
(* the relations of 128, 16, 256 and 256 (uart.c:66, user_main.c:72).         *)
EXTENDS Serial
=============================================================================
