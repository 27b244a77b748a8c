------------------------------- MODULE Telnet -------------------------------
(***************************************************************************)
(* One telnet session seen byte by byte: what came from the client so far, *)
(* what went to the serial line, what was queued for the client.           *)
(***************************************************************************)
EXTENDS TelnetGrammar

CONSTANTS
    Alphabet,   \* the bytes the client sends
    MaxBytes    \* bound: how many of them

ASSUME AlphabetAssumption == Alphabet \subseteq 0..255
ASSUME MaxBytesAssumption == MaxBytes \in Nat

VARIABLES
    telnet,     \* the struct telnet
    received,   \* everything the client sent
    serial,     \* everything written to the serial line
    queued      \* everything netout was given, had it all been accepted

vars == <<telnet, received, serial, queued>>

-----------------------------------------------------------------------------

Init ==
    /\ telnet = telnet_init
    /\ received = << >>
    /\ serial = << >>
    /\ queued = << >>

Recv(c) ==
    /\ Len(received) < MaxBytes
    /\ received' = Append(received, c)
    /\ telnet' = telnet_recv(telnet, c)
    /\ serial' = serial \o ToSerial(telnet, c)
    /\ queued' = queued \o ToClient(telnet, c)

Next == \E c \in Alphabet : Recv(c)

Spec == Init /\ [][Next]_vars

-----------------------------------------------------------------------------
(* Properties *)

(* The struct telnet stays in its ranges, and only bytes go out. *)
TypeOK ==
    /\ telnet \in Telnet
    /\ serial \in Seq(0..255)
    /\ queued \in Seq(0..255)

(* However commands, line ends and subnegotiations are interleaved, the serial
   line gets the text of the stream and nothing else: no byte of a command or
   of a subnegotiation leaks, no byte of text is swallowed, the second half of
   a line end is dropped only right after its first half (telnet_recv). *)
SerialIsDecodedText == serial = Decoded(received).text

(* Each WILL and DO is answered once, with the verb that answers it, in the
   order they came; WONT and DONT never are, so two ends cannot answer each
   other's refusals for ever; the offers go out once (telnet_recv,
   telnet_init_once). *)
RepliesAreOwed == queued = Decoded(received).replies
=============================================================================
