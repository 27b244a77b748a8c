------------------------------- MODULE SpiLed -------------------------------
(***************************************************************************)
(* user/spi_led8x8.c, led8x8_setpattern and udp_recvcb: the LED matrix.    *)
(* Each SPI transfer sends one row; the interrupt at its end latches the   *)
(* row and starts the next one, while udp_recvcb copies a new pattern over *)
(* the old one.                                                            *)
(*                                                                         *)
(* The interrupt handler may come between any two steps of the program,    *)
(* and the end of a transfer between any two steps of either.  Row r of    *)
(* the n-th pattern that was received is the number n; the pattern in the  *)
(* initialiser is number 0.                                                *)
(***************************************************************************)
EXTENDS Integers

CONSTANTS
    ROWS,           \* rows of the matrix
    INT_RANGE,      \* values of the int that counts interrupts
    Lengths,        \* lengths of the datagrams that come
    MaxPatterns     \* bound: patterns received

ASSUME RowsAssumption == ROWS \in Nat /\ ROWS > 0
(* The counter runs over, and the rows go on in order. *)
ASSUME RangeAssumption == INT_RANGE \in Nat /\ INT_RANGE > 0 /\ INT_RANGE % ROWS = 0
ASSUME LengthAssumption == Lengths \subseteq Nat
ASSUME BoundAssumption == MaxPatterns \in Nat

VARIABLES
    pc,             \* what runs below interrupt level
    isr,            \* how far spi_intr has got, "none" when it does not run
    led_matrix,     \* the pattern that each row is of
    todo,           \* the rows that memcpy has still to copy
    begun, whole,   \* the newest pattern begun, and copied as a whole
    spi_intr_continuous,
    nintr,
    word,           \* what SPI_USER2 holds: a row and the pattern it is of
    usr,            \* SPI_USR: a transfer is under way
    trans_done,     \* SPI_TRANS_DONE, which raises the interrupt
    spi0,           \* the other SPI's interrupt: "idle", "raised", or "off"
    latch,          \* GPIO_RCLK
    lit, floor, shown   \* the row lit last, the newest whole pattern then, and
                        \* the pattern each row has shown last

pattern == <<led_matrix, todo, begun, whole>>
device == <<word, usr, trans_done, latch, lit, floor, shown>>
vars == <<pc, isr, pattern, spi_intr_continuous, nintr, spi0, device>>

Rows == 0..(ROWS - 1)
DARK == -1

(* The word 0 selects no row. *)
BLANK == [row |-> DARK, pattern |-> DARK]

-----------------------------------------------------------------------------

Init ==
    /\ pc = "spi_init" /\ isr = "none"
    /\ led_matrix = [r \in Rows |-> 0] /\ todo = {}
    /\ begun = 0 /\ whole = 0
    /\ spi_intr_continuous = FALSE /\ nintr = 0
    /\ word = BLANK
    /\ usr = FALSE /\ trans_done = FALSE /\ spi0 \in {"idle", "off"}
    /\ latch = FALSE
    /\ lit = 0 /\ floor = 0 /\ shown = [r \in Rows |-> DARK]

(* The hardware ends a transfer; the other SPI may raise its interrupt too. *)
TransferEnds ==
    /\ usr
    /\ usr' = FALSE /\ trans_done' = TRUE
    /\ UNCHANGED <<pc, isr, pattern, spi_intr_continuous, nintr, spi0,
                   word, latch, lit, floor, shown>>

FlashInterrupt ==
    /\ spi0 = "idle" /\ spi0' = "raised"
    /\ UNCHANGED <<pc, isr, pattern, spi_intr_continuous, nintr, device>>

(* Mutant of spi_write: the latch stays up. *)
spi_write_latched(w) ==
    /\ ~usr
    /\ word' = w /\ usr' = TRUE
    /\ UNCHANGED <<trans_done, latch, lit, floor, shown>>

(* Waits for the SPI, and starts a transfer. *)
spi_write(w) ==
    /\ ~usr
    /\ word' = w /\ latch' = FALSE /\ usr' = TRUE
    /\ UNCHANGED <<trans_done, lit, floor, shown>>

-----------------------------------------------------------------------------
(* spi_intr *)

(* The rising latch lights the row that the word selects. *)
Light ==
    /\ latch' = TRUE
    /\ floor' = IF latch THEN floor ELSE whole
    /\ IF latch \/ word = BLANK
       THEN UNCHANGED <<lit, shown>>
       ELSE lit' = word.row /\ shown' = [shown EXCEPT ![word.row] = word.pattern]

(* One of its interrupts is handled in a call, the other SPI's first: that one
   is turned off for good. *)
spi_intr ==
    /\ isr = "none" /\ pc # "spi_init"
    /\ \/ /\ spi0 = "raised"
          /\ spi0' = "off"
          /\ UNCHANGED <<isr, device>>
       \/ /\ spi0 # "raised" /\ trans_done
          /\ isr' = "clear"
          /\ Light
          /\ UNCHANGED <<spi0, word, usr, trans_done>>
    /\ UNCHANGED <<pc, pattern, spi_intr_continuous, nintr>>

(* Mutant of ClearDone: the flag stays. *)
ClearDone_not ==
    /\ isr = "clear"
    /\ isr' = IF spi_intr_continuous THEN "next" ELSE "none"
    /\ UNCHANGED <<pc, pattern, spi_intr_continuous, nintr, spi0,
                   word, usr, trans_done, latch, lit, floor, shown>>

ClearDone ==
    /\ isr = "clear"
    /\ trans_done' = FALSE
    /\ isr' = IF spi_intr_continuous THEN "next" ELSE "none"
    /\ UNCHANGED <<pc, pattern, spi_intr_continuous, nintr, spi0,
                   word, usr, latch, lit, floor, shown>>

(* Mutant of NextRow: one row too few. *)
NextRow_one_short ==
    /\ isr = "next"
    /\ nintr' = (nintr + 1) % INT_RANGE
    /\ LET row == nintr' % (ROWS - 1)
       IN  spi_write([row |-> row, pattern |-> led_matrix[row]])
    /\ isr' = "none"
    /\ UNCHANGED <<pc, pattern, spi_intr_continuous, spi0>>

NextRow ==
    /\ isr = "next"
    /\ nintr' = (nintr + 1) % INT_RANGE
    /\ LET row == nintr' % ROWS
       IN  spi_write([row |-> row, pattern |-> led_matrix[row]])
    /\ isr' = "none"
    /\ UNCHANGED <<pc, pattern, spi_intr_continuous, spi0>>

-----------------------------------------------------------------------------
(* The program, when no interrupt is handled. *)

spi_init ==
    /\ isr = "none" /\ pc = "spi_init"
    /\ pc' = "spi_start"
    /\ UNCHANGED <<isr, pattern, spi_intr_continuous, nintr, spi0, device>>

(* Mutant of spi_start: the first word selects a row that there is not. *)
spi_start_past_rows ==
    /\ isr = "none"
    /\ \/ /\ pc = "spi_start" /\ pc' = "spi_write"
          /\ spi_intr_continuous' = TRUE
          /\ UNCHANGED device
       \/ /\ pc = "spi_write" /\ pc' = "idle"
          /\ spi_write([row |-> ROWS, pattern |-> 0])
          /\ UNCHANGED spi_intr_continuous
    /\ UNCHANGED <<isr, pattern, nintr, spi0>>

spi_start ==
    /\ isr = "none"
    /\ \/ /\ pc = "spi_start" /\ pc' = "spi_write"
          /\ spi_intr_continuous' = TRUE
          /\ UNCHANGED device
       \/ /\ pc = "spi_write" /\ pc' = "idle"
          /\ spi_write(BLANK)
          /\ UNCHANGED spi_intr_continuous
    /\ UNCHANGED <<isr, pattern, nintr, spi0>>

(* A datagram for UDPPORT_LED, the only port that is served. *)
udp_recvcb(len) ==
    /\ isr = "none" /\ pc = "idle"
    /\ IF len = ROWS
       THEN /\ begun < MaxPatterns
            /\ begun' = begun + 1 /\ todo' = Rows
            /\ pc' = "memcpy"
       ELSE UNCHANGED <<pc, begun, todo>>
    /\ UNCHANGED <<isr, led_matrix, whole, spi_intr_continuous, nintr, spi0, device>>

(* Mutant of led8x8_setpattern: the last row is not copied. *)
led8x8_setpattern_one_short ==
    /\ isr = "none" /\ pc = "memcpy"
    /\ \E rows \in SUBSET todo \ {{}} :
            /\ led_matrix' = [r \in Rows |->
                    IF r \in rows /\ r # ROWS - 1 THEN begun ELSE led_matrix[r]]
            /\ todo' = todo \ rows
    /\ IF todo' = {} THEN pc' = "idle" /\ whole' = begun ELSE UNCHANGED <<pc, whole>>
    /\ UNCHANGED <<isr, begun, spi_intr_continuous, nintr, spi0, device>>

(* memcpy copies some of the rows at a time, in an order of its own. *)
led8x8_setpattern ==
    /\ isr = "none" /\ pc = "memcpy"
    /\ \E rows \in SUBSET todo \ {{}} :
            /\ led_matrix' = [r \in Rows |-> IF r \in rows THEN begun ELSE led_matrix[r]]
            /\ todo' = todo \ rows
    /\ IF todo' = {} THEN pc' = "idle" /\ whole' = begun ELSE UNCHANGED <<pc, whole>>
    /\ UNCHANGED <<isr, begun, spi_intr_continuous, nintr, spi0, device>>

-----------------------------------------------------------------------------

Interrupt == spi_intr \/ ClearDone \/ NextRow
Program == spi_init \/ spi_start \/ led8x8_setpattern

Next ==
    \/ TransferEnds \/ FlashInterrupt
    \/ spi_intr \/ ClearDone \/ NextRow
    \/ spi_init \/ spi_start
    \/ \E len \in Lengths : udp_recvcb(len)
    \/ led8x8_setpattern

(* Transfers end, interrupts are taken, and the program runs on between them. *)
Fairness ==
    /\ WF_vars(TransferEnds)
    /\ WF_vars(Interrupt)
    /\ SF_vars(Program)

Spec == Init /\ [][Next]_vars
FairSpec == Spec /\ Fairness

-----------------------------------------------------------------------------
(* Properties *)

(* Registers and progress stay in their ranges. *)
TypeOK ==
    /\ pc \in {"spi_init", "spi_start", "spi_write", "idle", "memcpy"}
    /\ isr \in {"none", "clear", "next"}
    /\ led_matrix \in [Rows -> 0..MaxPatterns]
    /\ todo \subseteq Rows
    /\ begun \in 0..MaxPatterns /\ whole \in 0..MaxPatterns
    /\ spi_intr_continuous \in BOOLEAN
    /\ nintr \in 0..(INT_RANGE - 1)
    /\ word \in [row : Rows, pattern : 0..MaxPatterns] \cup {BLANK}
    /\ usr \in BOOLEAN /\ trans_done \in BOOLEAN /\ latch \in BOOLEAN
    /\ spi0 \in {"idle", "raised", "off"}
    /\ lit \in Rows /\ floor \in 0..MaxPatterns
    /\ shown \in [Rows -> -1..MaxPatterns]

Started == pc \in {"idle", "memcpy"}

(* The chain has one link at a time: a transfer, the flag it leaves, or the
   handler that has taken the flag and not yet started the next transfer.  So
   the flag of a new transfer is never cleared with that of the last one, which
   would end the chain for good, and the wait for the SPI never spins inside
   the interrupt handler (spi_intr, spi_write). *)
OneLink ==
    IF ~Started THEN ~usr /\ ~trans_done /\ isr = "none"
    ELSE CASE isr = "none" -> usr # trans_done
           [] isr = "clear" -> trans_done /\ ~usr
           [] isr = "next" -> ~trans_done /\ ~usr

(* The latch is down while bits are shifted: it rises over a whole word, and
   every word gets a rise of its own (spi_intr, spi_write). *)
LatchedWordIsWhole == (usr \/ trans_done) /\ isr = "none" => ~latch

(* The matrix keeps the promise of Display while patterns are written over each
   other row by row under the interrupt: rows in order, across the running over
   of the counter, none older than the newest pattern that was
   whole when the row before was lit, none going back to an older pattern. *)
D == INSTANCE Display
IsDisplay == D!Spec

(* No row stays dark: the chain of transfer, interrupt and next transfer never
   ends, whatever the other SPI and the program do in between (spi_intr). *)
RowsAreLit == \A r \in Rows : []<>(latch /\ lit = r)

(* A pattern that has come in is on all rows in the end, or a newer one is,
   however many interrupts come between the steps of the copying. *)
PatternIsShown ==
    \A n \in 1..MaxPatterns : (begun >= n) ~> (\A r \in Rows : shown[r] >= n)
=============================================================================
