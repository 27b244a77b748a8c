---------------------------- MODULE MCNetClient ----------------------------
(* Two slots and two addresses, the sessions of one of which may be reset: its *)
(* slot stays behind, its next session takes another, and then a client can be *)
(* turned away.  Queues of two items fill.                                     *)
EXTENDS NetClient
=============================================================================
