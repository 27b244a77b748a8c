---------------------------- MODULE SpiLedProofs ----------------------------
(***************************************************************************)
(* The LED matrix keeps the promise of Display for any number of rows, any *)
(* range of the interrupt counter that is a multiple of it, and any        *)
(* interleaving of transfers, interrupts and copying.                      *)
(***************************************************************************)
EXTENDS SpiLed, TLAPS

-----------------------------------------------------------------------------
(* Arithmetic of the counter *)

(* Remainder and quotient are the only ones. *)
LEMMA UniqueRemainder ==
    ASSUME NEW d \in Nat, d > 0, NEW q \in Int, NEW r \in Int, 0 <= r, r < d
    PROVE  (d * q + r) % d = r
<1> DEFINE x == d * q + r
<1> DEFINE p == x \div d
<1>1. x \in Int /\ p \in Int /\ x % d \in Int
    OBVIOUS
<1>2. x = d * p + (x % d) /\ 0 <= x % d /\ x % d < d
    BY <1>1
<1>3. d * (p - q) = r - (x % d)
    BY <1>1, <1>2
<1>4. p = q
    BY <1>1, <1>2, <1>3
<1> QED BY <1>1, <1>2, <1>4

(* Remainders of the counter go round with it, also where it runs over. *)
LEMMA NextRemainder ==
    ASSUME NEW n \in 0..(INT_RANGE - 1)
    PROVE  ((n + 1) % INT_RANGE) % ROWS = ((n % ROWS) + 1) % ROWS
<1> USE RowsAssumption, RangeAssumption
<1> DEFINE q == n \div ROWS
           r == n % ROWS
           k == INT_RANGE \div ROWS
<1>1. q \in Int /\ r \in Int /\ 0 <= r /\ r < ROWS /\ n = ROWS * q + r
    OBVIOUS
<1>2. k \in Int /\ INT_RANGE = ROWS * k
    OBVIOUS
<1> HIDE DEF q, r, k
<1>3. CASE n + 1 = INT_RANGE
  <2>1. (n + 1) % INT_RANGE = 0
    BY <1>3
  <2>2. ROWS * (k - q) = r + 1
    BY <1>1, <1>2, <1>3
  <2>3. k - q = 1
    BY <1>1, <1>2, <2>2
  <2>4. r + 1 = ROWS
    BY <1>1, <1>2, <2>2, <2>3
  <2>5. 0 % ROWS = 0 /\ ROWS % ROWS = 0
    OBVIOUS
  <2> QED BY <2>1, <2>4, <2>5 DEF r
<1>4. CASE n + 1 # INT_RANGE
  <2>1. (n + 1) % INT_RANGE = n + 1
    BY <1>4
  <2>2. CASE r + 1 < ROWS
    <3>1. n + 1 = ROWS * q + (r + 1)
      BY <1>1
    <3>2. (ROWS * q + (r + 1)) % ROWS = r + 1
      BY <1>1, <2>2, UniqueRemainder
    <3>3. (r + 1) % ROWS = r + 1
      BY <1>1, <2>2
    <3> QED BY <2>1, <3>1, <3>2, <3>3 DEF r
  <2>3. CASE r + 1 = ROWS
    <3>1. n + 1 = ROWS * (q + 1) + 0
      BY <1>1, <2>3
    <3>2. (ROWS * (q + 1) + 0) % ROWS = 0
      BY <1>1, UniqueRemainder
    <3>3. (r + 1) % ROWS = 0
      BY <1>1, <2>3
    <3> QED BY <2>1, <3>1, <3>2, <3>3 DEF r
  <2> QED BY <1>1, <2>2, <2>3
<1> QED BY <1>3, <1>4

-----------------------------------------------------------------------------
(* The inductive invariant *)

(* Nothing moves before user_init has started the chain; from then on the
   handler goes on with it. *)
Boots ==
    /\ ~Started => word = BLANK /\ ~latch /\ nintr = 0
    /\ spi_intr_continuous <=> pc \notin {"spi_init", "spi_start"}
    /\ isr # "none" => latch

(* What memcpy has got to: the rows copied are of the new pattern, those to be
   copied of the one before. *)
Copying ==
    /\ pc = "memcpy" => begun = whole + 1
    /\ pc # "memcpy" => begun = whole /\ todo = {}
    /\ \A r \in Rows : led_matrix[r] = IF r \in todo THEN whole ELSE begun

(* The word is on its way to the matrix. *)
OnItsWay == isr = "none" /\ Started

(* The word on its way is for the next row, the word that has arrived was for
   the row that is lit; the word 0 is for none, and then all rows are dark. *)
InOrder ==
    /\ word = BLANK => nintr = 0 /\ lit = 0 /\ shown = [r \in Rows |-> DARK]
    /\ word # BLANK =>
        /\ word.row = nintr % ROWS
        /\ word.row = IF OnItsWay THEN (lit + 1) % ROWS ELSE lit

(* How old a row and the word for it may be. *)
Ages ==
    /\ floor <= whole
    /\ \A r \in Rows : shown[r] <= led_matrix[r]
    /\ word # BLANK /\ OnItsWay =>
        /\ floor <= word.pattern
        /\ shown[word.row] <= word.pattern
        /\ word.pattern <= led_matrix[word.row]

IInv == TypeOK /\ OneLink /\ LatchedWordIsWhole /\ Boots /\ Copying /\ InOrder /\ Ages

LEMMA InitEstablishes == Init => IInv
<1> USE RowsAssumption, RangeAssumption, BoundAssumption
<1> SUFFICES ASSUME Init
             PROVE  IInv
  OBVIOUS
<1>1. TypeOK
  <2>1. 0 \in Rows /\ 0 \in 0..MaxPatterns /\ 0 \in 0..(INT_RANGE - 1)
    BY DEF Rows
  <2>2. DARK \in -1..MaxPatterns
    BY DEF DARK
  <2>3. led_matrix \in [Rows -> 0..MaxPatterns] /\ shown \in [Rows -> -1..MaxPatterns]
    BY <2>1, <2>2 DEF Init
  <2> QED BY <2>1, <2>3 DEF Init, TypeOK
<1>2. OneLink /\ LatchedWordIsWhole /\ Boots
  BY DEF Init, OneLink, LatchedWordIsWhole, Boots, Started
<1>3. Copying /\ InOrder /\ Ages
  BY DEF Init, Copying, InOrder, Ages, BLANK, DARK, Rows
<1> QED BY <1>1, <1>2, <1>3 DEF IInv

-----------------------------------------------------------------------------
(* The steps *)

(* What IInv says of an action that leaves the pattern, the display and the
   word alone: only the chain's links move. *)
LEMMA TransferEndsStep ==
    IInv /\ TransferEnds => IInv' /\ UNCHANGED D!vars
<1> SUFFICES ASSUME IInv, TransferEnds
             PROVE  IInv' /\ UNCHANGED D!vars
  OBVIOUS
<1> USE DEF IInv, TransferEnds, pattern
<1>1. TypeOK'
  BY DEF TypeOK
<1>2. OneLink' /\ LatchedWordIsWhole' /\ Boots'
  BY DEF TypeOK, OneLink, LatchedWordIsWhole, Boots, Started
<1>3. Copying' /\ InOrder' /\ Ages'
  BY DEF Copying, InOrder, Ages, OnItsWay, Started
<1>4. UNCHANGED D!vars
  BY DEF D!vars
<1> QED BY <1>1, <1>2, <1>3, <1>4

LEMMA FlashInterruptStep ==
    IInv /\ FlashInterrupt => IInv' /\ UNCHANGED D!vars
<1> SUFFICES ASSUME IInv, FlashInterrupt
             PROVE  IInv' /\ UNCHANGED D!vars
  OBVIOUS
<1> USE DEF IInv, FlashInterrupt, pattern, device
<1>1. TypeOK'
  BY DEF TypeOK
<1>2. OneLink' /\ LatchedWordIsWhole' /\ Boots'
  BY DEF OneLink, LatchedWordIsWhole, Boots, Started
<1>3. Copying' /\ InOrder' /\ Ages'
  BY DEF Copying, InOrder, Ages, OnItsWay, Started
<1>4. UNCHANGED D!vars
  BY DEF D!vars
<1> QED BY <1>1, <1>2, <1>3, <1>4

(* The handler lights the row that the word is for: a Light of the display, or
   its Blank when the word is for none. *)
LEMMA InterruptStep ==
    IInv /\ spi_intr => IInv' /\ [D!Next]_D!vars
<1> USE RowsAssumption, RangeAssumption, BoundAssumption
<1> SUFFICES ASSUME IInv, spi_intr
             PROVE  IInv' /\ [D!Next]_D!vars
  OBVIOUS
<1> USE DEF IInv, pattern
<1>1. CASE spi0 = "raised"
  <2> USE <1>1 DEF spi_intr, device
  <2>1. TypeOK'
    BY DEF TypeOK
  <2>2. OneLink' /\ LatchedWordIsWhole' /\ Boots'
    BY DEF OneLink, LatchedWordIsWhole, Boots, Started
  <2>3. Copying' /\ InOrder' /\ Ages'
    BY DEF Copying, InOrder, Ages, OnItsWay, Started
  <2>4. UNCHANGED D!vars
    BY DEF D!vars
  <2> QED BY <2>1, <2>2, <2>3, <2>4
<1>2. CASE spi0 # "raised"
  <2>1. /\ isr = "none" /\ isr' = "clear" /\ trans_done /\ pc # "spi_init"
        /\ Light
        /\ UNCHANGED <<spi0, word, usr, trans_done, pc, led_matrix, todo, begun, whole,
                       spi_intr_continuous, nintr>>
    BY <1>2 DEF spi_intr
  <2>2. Started /\ ~usr /\ ~latch /\ OnItsWay /\ ~OnItsWay' /\ Started'
    BY <2>1 DEF TypeOK, OneLink, LatchedWordIsWhole, OnItsWay, Started
  <2>3. OneLink' /\ LatchedWordIsWhole' /\ Boots'
    BY <2>1, <2>2 DEF OneLink, LatchedWordIsWhole, Boots, Started, Light
  <2>4. Copying'
    BY <2>1 DEF Copying
  <2>5. CASE word = BLANK
    <3>1. UNCHANGED <<lit, shown>> /\ floor' = whole /\ latch' = TRUE
      BY <2>1, <2>2, <2>5 DEF Light
    <3>2. TypeOK'
      BY <2>1, <3>1 DEF TypeOK
    <3>3. InOrder' /\ Ages'
      BY <2>1, <2>2, <3>1, <2>5 DEF InOrder, Ages, TypeOK
    <3>4. D!Blank
      BY <2>1, <3>1, <2>5 DEF D!Blank, InOrder, D!Rows, D!DARK, Rows, DARK
    <3> QED BY <2>3, <2>4, <3>2, <3>3, <3>4 DEF D!Next
  <2>6. CASE word # BLANK
    <3>1. /\ lit' = word.row /\ floor' = whole /\ latch' = TRUE
          /\ shown' = [shown EXCEPT ![word.row] = word.pattern]
      BY <2>1, <2>2, <2>6 DEF Light
    <3>2. word.row \in Rows /\ word.pattern \in 0..MaxPatterns
      BY <2>6 DEF TypeOK
    <3>3. TypeOK'
      BY <2>1, <3>1, <3>2 DEF TypeOK
    <3>4. /\ word.row = (lit + 1) % ROWS /\ word.row = nintr % ROWS
          /\ floor <= word.pattern /\ shown[word.row] <= word.pattern
          /\ word.pattern <= led_matrix[word.row]
      BY <2>2, <2>6 DEF InOrder, Ages
    <3>5. InOrder'
      BY <2>1, <2>2, <2>6, <3>1, <3>4 DEF InOrder
    <3>6. Ages'
      BY <2>1, <2>2, <3>1, <3>2, <3>4 DEF Ages, TypeOK
    <3>7. word.pattern \in floor..begun
      <4>1. led_matrix[word.row] <= begun
        BY <3>2 DEF Copying, TypeOK
      <4> QED BY <3>2, <3>4, <4>1 DEF TypeOK
    <3>8. D!Light
      BY <2>1, <3>1, <3>4, <3>7 DEF D!Light
    <3> QED BY <2>3, <2>4, <3>3, <3>5, <3>6, <3>8 DEF D!Next
  <2> QED BY <2>5, <2>6
<1> QED BY <1>1, <1>2

LEMMA ClearDoneStep ==
    IInv /\ ClearDone => IInv' /\ UNCHANGED D!vars
<1> SUFFICES ASSUME IInv, ClearDone
             PROVE  IInv' /\ UNCHANGED D!vars
  OBVIOUS
<1> USE DEF IInv, ClearDone, pattern
<1>1. TypeOK'
  BY DEF TypeOK
<1>2. Started /\ spi_intr_continuous /\ isr' = "next"
  BY DEF TypeOK, OneLink, Boots, Started
<1>3. OneLink' /\ LatchedWordIsWhole' /\ Boots'
  BY <1>2 DEF OneLink, LatchedWordIsWhole, Boots, Started
<1>4. Copying' /\ InOrder' /\ Ages'
  BY <1>2 DEF Copying, InOrder, Ages, OnItsWay, Started
<1>5. UNCHANGED D!vars
  BY DEF D!vars
<1> QED BY <1>1, <1>3, <1>4, <1>5

(* The next row is fetched: it is of the new pattern or the one before. *)
LEMMA NextRowStep ==
    IInv /\ NextRow => IInv' /\ UNCHANGED D!vars
<1> USE RowsAssumption, RangeAssumption, BoundAssumption
<1> SUFFICES ASSUME IInv, NextRow
             PROVE  IInv' /\ UNCHANGED D!vars
  OBVIOUS
<1> DEFINE row == nintr' % ROWS
<1> USE DEF IInv, pattern
<1>1. /\ isr = "next" /\ isr' = "none" /\ usr' = TRUE /\ latch' = FALSE
      /\ nintr' = (nintr + 1) % INT_RANGE
      /\ word' = [row |-> row, pattern |-> led_matrix[row]]
      /\ UNCHANGED <<pc, led_matrix, todo, begun, whole, spi_intr_continuous, spi0,
                     trans_done, lit, floor, shown>>
  BY DEF NextRow, spi_write
<1>2. nintr \in 0..(INT_RANGE - 1) /\ nintr' \in 0..(INT_RANGE - 1) /\ row \in Rows
  BY <1>1 DEF TypeOK, Rows
<1>3. row = ((nintr % ROWS) + 1) % ROWS
  BY <1>1, <1>2, NextRemainder
<1> HIDE DEF row
<1>4. word' # BLANK /\ word'.row = row /\ word'.pattern = led_matrix[row]
  BY <1>1, <1>2 DEF BLANK, DARK, Rows
<1>5. TypeOK'
  <2>1. led_matrix[row] \in 0..MaxPatterns
    BY <1>2 DEF TypeOK
  <2>2. word' \in [row : Rows, pattern : 0..MaxPatterns]
    BY <1>1, <1>2, <2>1
  <2> QED BY <1>1, <1>2, <2>2 DEF TypeOK
<1>6. Started /\ OnItsWay' /\ ~OnItsWay
  BY <1>1 DEF OneLink, Started, OnItsWay, TypeOK
<1>7. OneLink' /\ LatchedWordIsWhole' /\ Boots'
  BY <1>1, <1>6 DEF OneLink, LatchedWordIsWhole, Boots, Started, TypeOK
<1>8. Copying'
  BY <1>1 DEF Copying
<1>9. InOrder'
  <2>1. nintr % ROWS = lit
    <3>1. CASE word = BLANK
      BY <3>1 DEF InOrder
    <3>2. CASE word # BLANK
      BY <3>2, <1>6 DEF InOrder
    <3> QED BY <3>1, <3>2
  <2> QED BY <1>1, <1>3, <1>4, <1>6, <2>1 DEF InOrder, row
<1>10. Ages'
  <2>1. whole <= led_matrix[row] /\ floor <= led_matrix[row]
    BY <1>2 DEF Copying, TypeOK, Ages
  <2>2. led_matrix[row] \in Nat /\ shown[row] <= led_matrix[row]
    BY <1>2 DEF TypeOK, Ages
  <2> QED BY <1>1, <1>2, <1>4, <2>1, <2>2 DEF Ages
<1>11. UNCHANGED D!vars
  BY <1>1 DEF D!vars
<1> QED BY <1>5, <1>7, <1>8, <1>9, <1>10, <1>11

LEMMA BootStep ==
    IInv /\ (spi_init \/ spi_start) => IInv' /\ UNCHANGED D!vars
<1> SUFFICES ASSUME IInv, spi_init \/ spi_start
             PROVE  IInv' /\ UNCHANGED D!vars
  OBVIOUS
<1> USE DEF IInv, pattern
<1>1. /\ isr = "none" /\ ~Started /\ ~usr /\ ~trans_done /\ word = BLANK
      /\ latch = FALSE /\ nintr = 0
  BY DEF spi_init, spi_start, OneLink, Boots, Started, TypeOK
<1>2. /\ UNCHANGED <<isr, led_matrix, todo, begun, whole, nintr, spi0, trans_done,
                    lit, floor, shown>>
      /\ word' = BLANK /\ latch' = FALSE
  BY <1>1 DEF spi_init, spi_start, spi_write, device, TypeOK
<1>3. /\ pc' \in {"spi_start", "spi_write", "idle"}
      /\ spi_intr_continuous' = (pc' # "spi_start")
      /\ usr' = (pc' = "idle")
  BY <1>1 DEF spi_init, spi_start, spi_write, device, Boots, Started, TypeOK
<1>4. TypeOK'
  BY <1>2, <1>3 DEF TypeOK
<1>5. OneLink' /\ LatchedWordIsWhole' /\ Boots'
  <2>1. CASE pc' = "idle"
    BY <1>1, <1>2, <1>3, <2>1 DEF OneLink, LatchedWordIsWhole, Boots, Started
  <2>2. CASE pc' # "idle"
    BY <1>1, <1>2, <1>3, <2>2 DEF OneLink, LatchedWordIsWhole, Boots, Started
  <2> QED BY <2>1, <2>2
<1>6. pc # "memcpy" /\ pc' # "memcpy"
  BY <1>1, <1>3 DEF Started
<1>7. Copying' /\ InOrder' /\ Ages'
  BY <1>1, <1>2, <1>6 DEF Copying, InOrder, Ages
<1>8. UNCHANGED D!vars
  BY <1>2 DEF D!vars
<1> QED BY <1>4, <1>5, <1>7, <1>8

(* A pattern begins to come in. *)
LEMMA DatagramStep ==
    ASSUME NEW len, IInv, udp_recvcb(len)
    PROVE  IInv' /\ [D!Next]_D!vars
<1> USE BoundAssumption DEF IInv, udp_recvcb, pattern, device
<1>1. TypeOK'
  BY DEF TypeOK
<1>2. Started /\ Started' /\ isr = "none" /\ pc = "idle" /\ pc' \in {"idle", "memcpy"}
  BY DEF Started
<1>3. OneLink' /\ LatchedWordIsWhole' /\ Boots'
  BY <1>2 DEF OneLink, LatchedWordIsWhole, Boots
<1>4. Copying' /\ InOrder' /\ Ages'
  BY <1>2 DEF Copying, InOrder, Ages, OnItsWay, TypeOK
<1>5. [D!Next]_D!vars
  <2>1. CASE len = ROWS
    BY <2>1, <1>2 DEF D!Next, D!Begin, Copying
  <2>2. CASE len # ROWS
    BY <2>2 DEF D!vars
  <2> QED BY <2>1, <2>2
<1> QED BY <1>1, <1>3, <1>4, <1>5

(* Some rows are copied; with the last of them the pattern is whole. *)
LEMMA CopyStep ==
    IInv /\ led8x8_setpattern => IInv' /\ [D!Next]_D!vars
<1> USE RowsAssumption, BoundAssumption
<1> SUFFICES ASSUME IInv, led8x8_setpattern
             PROVE  IInv' /\ [D!Next]_D!vars
  OBVIOUS
<1> USE DEF IInv
<1>1. PICK rows \in SUBSET todo \ {{}} :
        /\ led_matrix' = [r \in Rows |-> IF r \in rows THEN begun ELSE led_matrix[r]]
        /\ todo' = todo \ rows
  BY DEF led8x8_setpattern
<1>2. /\ isr = "none" /\ pc = "memcpy"
      /\ IF todo' = {} THEN pc' = "idle" /\ whole' = begun ELSE UNCHANGED <<pc, whole>>
      /\ UNCHANGED <<isr, begun, spi_intr_continuous, nintr, spi0, word, usr, trans_done,
                     latch, lit, floor, shown>>
  BY DEF led8x8_setpattern, device
<1>3. begun = whole + 1 /\ whole' \in {whole, begun} /\ Started /\ Started'
  BY <1>2 DEF Copying, Started
<1>4. TypeOK'
  BY <1>1, <1>2 DEF TypeOK
<1>5. OneLink' /\ LatchedWordIsWhole' /\ Boots'
  BY <1>2, <1>3 DEF OneLink, LatchedWordIsWhole, Boots, Started
<1>6. Copying'
  BY <1>1, <1>2, <1>3 DEF Copying, TypeOK
<1>7. InOrder'
  BY <1>2, <1>3 DEF InOrder, OnItsWay
<1>8. Ages'
  <2>1. \A r \in Rows : led_matrix[r] <= led_matrix'[r]
    BY <1>1, <1>3 DEF Copying, TypeOK
  <2>2. \A r \in Rows : shown[r] \in Int /\ led_matrix[r] \in Int /\ led_matrix'[r] \in Int
    BY <1>1 DEF TypeOK
  <2>3. \A r \in Rows : shown'[r] <= led_matrix'[r]
    BY <1>2, <2>1, <2>2 DEF Ages
  <2>4. floor' <= whole'
    BY <1>2, <1>3 DEF Ages, TypeOK
  <2>5. ASSUME word # BLANK, OnItsWay
        PROVE  word.pattern <= led_matrix'[word.row]
    BY <2>1, <2>2, <2>5 DEF Ages, TypeOK
  <2> QED BY <1>2, <1>3, <2>3, <2>4, <2>5 DEF Ages, OnItsWay
<1>9. [D!Next]_D!vars
  <2>1. CASE todo' = {}
    BY <1>2, <2>1 DEF D!Next, D!Complete
  <2>2. CASE todo' # {}
    BY <1>2, <2>2 DEF D!vars
  <2> QED BY <2>1, <2>2
<1> QED BY <1>4, <1>5, <1>6, <1>7, <1>8, <1>9

LEMMA StutterStep ==
    IInv /\ UNCHANGED vars => IInv' /\ UNCHANGED D!vars
<1> SUFFICES ASSUME IInv, UNCHANGED vars
             PROVE  IInv' /\ UNCHANGED D!vars
  OBVIOUS
<1> USE DEF IInv, vars, pattern, device
<1>1. TypeOK'
  BY DEF TypeOK
<1>2. OneLink' /\ LatchedWordIsWhole' /\ Boots'
  BY DEF OneLink, LatchedWordIsWhole, Boots, Started
<1>3. Copying' /\ InOrder' /\ Ages'
  BY DEF Copying, InOrder, Ages, OnItsWay, Started
<1>4. UNCHANGED D!vars
  BY DEF D!vars
<1> QED BY <1>1, <1>2, <1>3, <1>4

LEMMA NextStep == IInv /\ [Next]_vars => IInv' /\ [D!Next]_D!vars
<1> SUFFICES ASSUME IInv, [Next]_vars
             PROVE  IInv' /\ [D!Next]_D!vars
  OBVIOUS
<1>1. CASE TransferEnds
  BY <1>1, TransferEndsStep
<1>2. CASE FlashInterrupt
  BY <1>2, FlashInterruptStep
<1>3. CASE spi_intr
  BY <1>3, InterruptStep
<1>4. CASE ClearDone
  BY <1>4, ClearDoneStep
<1>5. CASE NextRow
  BY <1>5, NextRowStep
<1>6. CASE spi_init \/ spi_start
  BY <1>6, BootStep
<1>7. CASE \E len \in Lengths : udp_recvcb(len)
  BY <1>7, DatagramStep
<1>8. CASE led8x8_setpattern
  BY <1>8, CopyStep
<1>9. CASE UNCHANGED vars
  BY <1>9, StutterStep
<1> QED BY <1>1, <1>2, <1>3, <1>4, <1>5, <1>6, <1>7, <1>8, <1>9 DEF Next

-----------------------------------------------------------------------------
(* Theorems *)

(* Registers and progress stay in their ranges, whatever the interrupts. *)
THEOREM LedTypes == Spec => []TypeOK
<1>1. IInv => TypeOK
  BY DEF IInv
<1> QED BY <1>1, InitEstablishes, NextStep, PTL DEF Spec

(* The chain of transfers always has exactly one link, so that the handler
   neither waits for the SPI nor clears the flag of a later transfer. *)
THEOREM LedChain == Spec => []OneLink
<1>1. IInv => OneLink
  BY DEF IInv
<1> QED BY <1>1, InitEstablishes, NextStep, PTL DEF Spec

(* The latch never rises over a word that is still being shifted. *)
THEOREM LedLatch == Spec => []LatchedWordIsWhole
<1>1. IInv => LatchedWordIsWhole
  BY DEF IInv
<1> QED BY <1>1, InitEstablishes, NextStep, PTL DEF Spec

(* The matrix implements Display: every step of the handler and of the copying
   is a step of it or a stutter. *)
THEOREM SpiLedRefinesDisplay == Spec => IsDisplay
<1>1. Init => D!Init
  BY DEF Init, D!Init, D!Rows, D!DARK, Rows, DARK
<1> QED BY <1>1, InitEstablishes, NextStep, PTL DEF Spec, IsDisplay, D!Spec
=============================================================================
