------------------------------ MODULE MCTelnet ------------------------------
(* The state machine of telnet.c against the grammar, on every byte string up *)
(* to a length.                                                              *)
EXTENDS Telnet
=============================================================================
