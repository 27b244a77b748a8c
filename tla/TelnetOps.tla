----------------------------- MODULE TelnetOps -----------------------------
(***************************************************************************)
(* user/telnet.c: what telnet_recv does with one byte from the client.     *)
(* A struct telnet is [telnet_state, telopt_sent].  The operators give the *)
(* struct left behind, the bytes put on the serial line and the bytes      *)
(* queued for the client.                                                  *)
(***************************************************************************)
EXTENDS Integers, Sequences

(* telnet.h *)
IAC == 255
DONT == 254
DO == 253
WONT == 252
WILL == 251
SB == 250
AYT == 246
SE == 240

TELOPT_BINARY == 0
TELOPT_ECHO == 1
TELOPT_SGA == 3

NUL == 0
LF == 10
CR == 13

TelnetState == {"DATA", "IAC", "CR", "SB", "SE", "WILL", "WONT", "DO", "DONT"}

Telnet == [telnet_state : TelnetState, telopt_sent : BOOLEAN]

telnet_init == [telnet_state |-> "DATA", telopt_sent |-> FALSE]

-----------------------------------------------------------------------------

(* Mutant of putchar: a char without the & 0xff, sign extended. *)
putchar_signed(c) ==
    IF c = LF THEN <<CR, LF>> ELSE <<IF c > 127 THEN c - 256 ELSE c>>

(* putchar on the serial line: a newline goes out as two bytes. *)
putchar(c) == IF c = LF THEN <<CR, LF>> ELSE <<c>>

(* The options this end agrees to, asked for or offered. *)
Accepted == {TELOPT_ECHO, TELOPT_BINARY, TELOPT_SGA}

send_do(option) == <<IAC, DO, option>>
send_dont(option) == <<IAC, DONT, option>>
send_will(option) == <<IAC, WILL, option>>
send_wont(option) == <<IAC, WONT, option>>

(* "\r\n[Yes]\r\n" *)
recv_ayt == <<13, 10, 91, 89, 101, 115, 93, 13, 10>>

(* Mutant of Offers: they go out with every option command. *)
Offers_always(t) == send_will(TELOPT_BINARY) \o send_will(TELOPT_ECHO)

(* What telnet_init_once queues: this end's own two offers, the first time. *)
Offers(t) ==
    IF t.telopt_sent THEN << >>
    ELSE send_will(TELOPT_BINARY) \o send_will(TELOPT_ECHO)

(* The four option verbs, with the state that waits for the option. *)
Verb == [c \in {WILL, WONT, DO, DONT} |->
            CASE c = WILL -> "WILL" [] c = WONT -> "WONT"
              [] c = DO -> "DO"     [] c = DONT -> "DONT"]

OptionState == {"WILL", "WONT", "DO", "DONT"}

(* The answer to an option: refusals and retractions get none. *)
Answer(state, option) ==
    CASE state = "WILL" /\ option \in Accepted -> send_do(option)
      [] state = "WILL" /\ option \notin Accepted -> send_dont(option)
      [] state = "DO" /\ option \in Accepted -> send_will(option)
      [] state = "DO" /\ option \notin Accepted -> send_wont(option)
      [] state \in {"WONT", "DONT"} -> << >>

(* A byte that is data: not the start of a command, not the second half of a
   line end. *)
IsText(t, c) ==
    \/ t.telnet_state = "DATA" /\ c # IAC
    \/ t.telnet_state = "CR" /\ c \notin {IAC, NUL, LF}
    \/ t.telnet_state = "IAC" /\ c = IAC

(* Mutant of NextState: any IAC pair ends a subnegotiation. *)
NextState_leaves_sub(state, c) ==
    CASE state \in {"DATA", "CR"} ->
            IF c = IAC THEN "IAC" ELSE IF c = CR THEN "CR" ELSE "DATA"
      [] state = "IAC" ->
            IF c = SB THEN "SB" ELSE IF c \in DOMAIN Verb THEN Verb[c] ELSE "DATA"
      [] state = "SB" -> IF c = IAC THEN "SE" ELSE "SB"
      [] state = "SE" -> "DATA"
      [] state \in OptionState -> "DATA"

(* The state after byte c. *)
NextState(state, c) ==
    CASE state \in {"DATA", "CR"} ->
            IF c = IAC THEN "IAC" ELSE IF c = CR THEN "CR" ELSE "DATA"
      [] state = "IAC" ->
            IF c = SB THEN "SB" ELSE IF c \in DOMAIN Verb THEN Verb[c] ELSE "DATA"
      [] state = "SB" -> IF c = IAC THEN "SE" ELSE "SB"
      [] state = "SE" -> IF c = SE THEN "DATA" ELSE "SB"
      [] state \in OptionState -> "DATA"

telnet_recv(t, c) ==
    [telnet_state |-> NextState(t.telnet_state, c),
     telopt_sent |-> t.telopt_sent \/ t.telnet_state \in OptionState]

(* The bytes telnet_recv writes to the serial line ... *)
ToSerial(t, c) == IF IsText(t, c) THEN putchar(c) ELSE << >>

(* ... the bytes it queues for the client ... *)
ToClient(t, c) ==
    IF t.telnet_state \in OptionState
    THEN Answer(t.telnet_state, c) \o Offers(t)
    ELSE IF t.telnet_state = "IAC" /\ c = AYT THEN recv_ayt ELSE << >>

(* ... and whether it calls netout_flush: only along with the offers. *)
Flushes(t, c) == t.telnet_state \in OptionState /\ ~t.telopt_sent
=============================================================================
