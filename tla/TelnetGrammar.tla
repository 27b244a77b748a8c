--------------------------- MODULE TelnetGrammar ---------------------------
(***************************************************************************)
(* The telnet stream as a grammar, to compare telnet.c's state machine     *)
(* with.  It cuts a whole byte string into units: a data byte, a line end, *)
(* an escaped 255, a two-byte command, a three-byte option command, or a   *)
(* subnegotiation up to the IAC SE that ends it.  A unit that is not       *)
(* complete yet means nothing.                                             *)
(***************************************************************************)
EXTENDS TelnetOps, FiniteSets

(* The bytes of 255 right before the n-th byte of a subnegotiation.  They go in
   pairs, so an odd number of them leaves one that the n-th byte completes. *)
IACsBefore(u, n) == {i \in 3..(n - 1) : \A j \in i..(n - 1) : u[j] = IAC}
IsSecondOfPair(u, n) == Cardinality(IACsBefore(u, n)) % 2 = 1

(* The bytes since the last unit are a unit, given that no fewer were. *)
IsUnit(u) ==
    \/ u[1] # IAC
    \/ Len(u) = 2 /\ u[2] \notin {WILL, WONT, DO, DONT, SB}
    \/ Len(u) = 3 /\ u[2] \in {WILL, WONT, DO, DONT}
    \/ Len(u) > 3 /\ u[2] = SB /\ u[Len(u)] = SE /\ IsSecondOfPair(u, Len(u))

(* The bytes of text a unit stands for, as the serial line gets it. *)
Text(u) ==
    CASE u[1] = LF -> <<CR, LF>>
      [] u[1] = IAC -> IF u[2] = IAC THEN <<IAC>> ELSE << >>
      [] u[1] \notin {LF, IAC} -> <<u[1]>>

(* A unit that is an option command. *)
IsOption(u) == Len(u) = 3 /\ u[1] = IAC /\ u[2] \in {WILL, WONT, DO, DONT}

(* What a unit obliges this end to say: WILL is met by DO or DONT, DO by WILL
   or WONT, and an inquiry by "[Yes]". *)
Owed(u) ==
    CASE IsOption(u) /\ u[2] = WILL ->
            <<IAC, IF u[3] \in Accepted THEN DO ELSE DONT, u[3]>>
      [] IsOption(u) /\ u[2] = DO ->
            <<IAC, IF u[3] \in Accepted THEN WILL ELSE WONT, u[3]>>
      [] u = <<IAC, AYT>> -> recv_ayt
      [] OTHER -> << >>

(* The first option command also brings out this end's own offers, once in a
   session. *)
OffersWith(u, offered) ==
    IF IsOption(u) /\ ~offered
    THEN <<IAC, WILL, TELOPT_BINARY, IAC, WILL, TELOPT_ECHO>>
    ELSE << >>

(* A reading: where the next unit begins, the text and the replies of the units
   before it, whether the offers are among them. *)
NothingRead == [from |-> 1, text |-> << >>, replies |-> << >>, offered |-> FALSE]

WithUnit(r, u) ==
    [from |-> r.from + Len(u),
     text |-> r.text \o Text(u),
     replies |-> r.replies \o (Owed(u) \o OffersWith(u, r.offered)),
     offered |-> r.offered \/ IsOption(u)]

(* A carriage return takes the NUL or the line feed behind it into its unit. *)
GoesOn(s, u, n) == u = <<CR>> /\ n < Len(s) /\ s[n + 1] \in {NUL, LF}

ReadOn(s, r, n) ==
    LET u == SubSeq(s, r.from, n)
    IN  IF IsUnit(u) /\ ~GoesOn(s, u, n) THEN WithUnit(r, u) ELSE r

(* The reading of the first n bytes of s, for each n. *)
Reading(s) ==
    LET reading[n \in 0..Len(s)] ==
            IF n = 0 THEN NothingRead ELSE ReadOn(s, reading[n - 1], n)
    IN  reading

Decoded(s) == Reading(s)[Len(s)]
=============================================================================
