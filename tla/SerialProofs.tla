---------------------------- MODULE SerialProofs ----------------------------
(* The hand-over from the interrupt to recvTask is sound for any size of the *)
(* FIFO, the buffer and the event queue, and any number of bytes.            *)
EXTENDS Serial, TLAPS

(* Before and while user_init runs the task is not registered, nothing is
   posted, and if the line is silent nothing has happened at all. *)
AtBoot ==
    /\ registered <=> pc \notin Booting
    /\ pc \in Booting => queue = 0
    /\ pc = "boot" => rxfifo = 0
    /\ QuietBoot /\ pc \in Booting => rxfifo = 0 /\ int_st = {}
    /\ QuietBoot /\ pc = "user_init" => intr_enabled

(* A round collects what the FIFO held at its start and what came in since. *)
RoundIsBounded ==
    /\ pc = "fill" => length + rxfifo <= RXFIFO + late
    /\ pc \in {"dispatch", "line"} => length < UINT8_RANGE
    /\ pc = "line" => i <= length

(* The inductive invariant.  OneOnDuty needs what user_init leaves behind, and
   the bound on the counter needs the bound on a round while it is collected. *)
IInv == TypeOK /\ AtBoot /\ OneOnDuty /\ RoundIsBounded /\ EachByteOnce

(* Before boot nothing is enabled, posted or read. *)
LEMMA InitEstablishes == Init => IInv
<1> USE SizeAssumption, SpeedAssumption
<1> SUFFICES ASSUME Init
             PROVE  IInv
  OBVIOUS
<1>1. TypeOK
  <2>1. {} \in SUBSET {"FULL", "TOUT", "FRM_ERR"}
    OBVIOUS
  <2>2. "boot" \in Booting
    BY DEF Booting
  <2> QED
    <3>1. \A m \in Nat : 0 \in 0..m
      OBVIOUS
    <3>2. 0 \in 0..(UINT8_RANGE - 1)
      OBVIOUS
    <3>3. FALSE \in BOOLEAN /\ 0 \in Nat
      OBVIOUS
    <3> QED
      BY <2>1, <2>2, <3>1, <3>2, <3>3, Zenon DEF Init, TypeOK
<1>2. AtBoot /\ OneOnDuty /\ RoundIsBounded
  BY DEF Init, AtBoot, OneOnDuty, RoundIsBounded, Booting
<1>3. EachByteOnce
  BY DEF Init, EachByteOnce, InBuffer
<1> QED
  BY <1>1, <1>2, <1>3 DEF IInv

(* The steps of hardware, handler, boot and task, one by one. *)
LEMMA StepPreserves ==
    ASSUME IInv, [Next]_vars
    PROVE  IInv'
<1> USE SizeAssumption, SpeedAssumption
<1> USE DEF IInv, Booting, Running
<1>1. CASE Arrive
  <2>1. TypeOK'
    BY <1>1 DEF Arrive, TypeOK, task, Latch
  <2>2. AtBoot'
    BY <1>1 DEF Arrive, AtBoot, TypeOK, task
  <2>3. OneOnDuty'
    BY <1>1 DEF Arrive, OneOnDuty, task
  <2>4. RoundIsBounded'
    BY <1>1 DEF Arrive, RoundIsBounded, TypeOK, task
  <2>5. EachByteOnce'
    BY <1>1 DEF Arrive, EachByteOnce, InBuffer, TypeOK, task
  <2> QED
    BY <2>1, <2>2, <2>3, <2>4, <2>5
<1>2. CASE Timeout \/ FrameError
  <2>1. /\ int_st' \in SUBSET {"FULL", "TOUT", "FRM_ERR"}
        /\ rxfifo' = rxfifo /\ arrived' = arrived /\ late' = late
        /\ UNCHANGED <<intr_enabled, registered, queue, pc, length, i, handled, wifi_connected>>
    BY <1>2 DEF Timeout, FrameError, TypeOK, task
  <2>2. TypeOK'
    BY <2>1 DEF TypeOK
  <2>3. AtBoot'
    BY <1>2, <2>1 DEF Timeout, FrameError, AtBoot, TypeOK
  <2>4. OneOnDuty' /\ RoundIsBounded'
    BY <2>1 DEF OneOnDuty, RoundIsBounded
  <2>5. EachByteOnce'
    BY <2>1 DEF EachByteOnce, InBuffer
  <2> QED
    BY <2>2, <2>3, <2>4, <2>5
<1>3. CASE uart0_rx_intr_handler
  <2>1. /\ rxfifo' = rxfifo /\ arrived' = arrived /\ late' = late
        /\ UNCHANGED <<registered, pc, length, i, handled, wifi_connected>>
    BY <1>3 DEF uart0_rx_intr_handler, task
  <2> DEFINE data == {"FULL", "TOUT"} \cap int_st # {}
  <2>2. ASSUME data
        PROVE  TypeOK' /\ AtBoot' /\ OneOnDuty'
    <3>1. /\ intr_enabled /\ ~intr_enabled' /\ int_st # {}
          /\ queue' = IF registered /\ queue < recvTaskQueueLen THEN queue + 1 ELSE queue
      BY <1>3, <2>2 DEF uart0_rx_intr_handler, system_os_post
    <3>2. int_st' \in SUBSET {"FULL", "TOUT", "FRM_ERR"} /\ intr_enabled' \in BOOLEAN
      BY <1>3, <2>2 DEF uart0_rx_intr_handler, TypeOK
    <3>3. TypeOK'
      BY <2>1, <3>1, <3>2 DEF TypeOK
    <3>4. AtBoot'
      BY <2>1, <3>1 DEF AtBoot
    <3>5. OneOnDuty'
      BY <2>1, <3>1 DEF OneOnDuty, AtBoot, TypeOK
    <3> QED
      BY <3>3, <3>4, <3>5
  <2>3. ASSUME ~data
        PROVE  TypeOK' /\ AtBoot' /\ OneOnDuty'
    <3>1. intr_enabled' = intr_enabled /\ queue' = queue /\ int_st # {}
      BY <1>3, <2>3 DEF uart0_rx_intr_handler
    <3>2. int_st' \in SUBSET {"FULL", "TOUT", "FRM_ERR"}
      BY <1>3 DEF uart0_rx_intr_handler, TypeOK
    <3>3. TypeOK'
      BY <2>1, <3>1, <3>2 DEF TypeOK
    <3>4. AtBoot' /\ OneOnDuty'
      BY <2>1, <3>1 DEF AtBoot, OneOnDuty
    <3> QED
      BY <3>3, <3>4
  <2>4. TypeOK' /\ AtBoot' /\ OneOnDuty'
    BY <2>2, <2>3
  <2>5. RoundIsBounded'
    BY <2>1 DEF RoundIsBounded
  <2>6. EachByteOnce'
    BY <2>1 DEF EachByteOnce, InBuffer
  <2> QED
    BY <2>4, <2>5, <2>6
<1>4. CASE uart_init
  <2>1. TypeOK'
    BY <1>4 DEF uart_init, TypeOK, task
  <2>2. AtBoot' /\ OneOnDuty' /\ RoundIsBounded'
    BY <1>4 DEF uart_init, AtBoot, OneOnDuty, RoundIsBounded, task
  <2>3. EachByteOnce'
    BY <1>4 DEF uart_init, EachByteOnce, InBuffer, AtBoot, task
  <2> QED
    BY <2>1, <2>2, <2>3
<1>5. CASE system_os_task
  <2>1. TypeOK'
    BY <1>5 DEF system_os_task, TypeOK, task, uart
  <2>2. AtBoot' /\ OneOnDuty' /\ RoundIsBounded'
    BY <1>5 DEF system_os_task, AtBoot, OneOnDuty, RoundIsBounded, task, uart
  <2>3. EachByteOnce'
    BY <1>5 DEF system_os_task, EachByteOnce, InBuffer, task, uart
  <2> QED
    BY <2>1, <2>2, <2>3
<1>6. CASE wifi_callback
  <2>1. TypeOK'
    BY <1>6 DEF wifi_callback, TypeOK, task, uart
  <2>2. AtBoot' /\ OneOnDuty' /\ RoundIsBounded'
    BY <1>6 DEF wifi_callback, AtBoot, OneOnDuty, RoundIsBounded, task, uart
  <2>3. EachByteOnce'
    BY <1>6 DEF wifi_callback, EachByteOnce, InBuffer, task, uart
  <2> QED
    BY <2>1, <2>2, <2>3
<1>7. CASE recvTask
  <2>1. TypeOK'
    BY <1>7 DEF recvTask, TypeOK, task, uart
  <2>2. AtBoot' /\ RoundIsBounded'
    BY <1>7 DEF recvTask, AtBoot, RoundIsBounded, task, uart
  <2>3. OneOnDuty'
    BY <1>7 DEF recvTask, OneOnDuty, TypeOK, task, uart
  <2>4. EachByteOnce'
    BY <1>7 DEF recvTask, EachByteOnce, InBuffer, task, uart
  <2> QED
    BY <2>1, <2>2, <2>3, <2>4
<1>8. CASE While
  <2>1. TypeOK'
    BY <1>8 DEF While, TypeOK
  <2>2. AtBoot' /\ OneOnDuty'
    BY <1>8 DEF While, AtBoot, OneOnDuty
  <2>3. RoundIsBounded'
    BY <1>8 DEF While, RoundIsBounded, TypeOK
  <2>4. EachByteOnce'
    BY <1>8 DEF While, EachByteOnce, InBuffer, TypeOK
  <2> QED
    BY <2>1, <2>2, <2>3, <2>4
<1>9. CASE Fill
  <2>1. TypeOK'
    BY <1>9 DEF Fill, TypeOK
  <2>2. AtBoot' /\ OneOnDuty'
    BY <1>9 DEF Fill, AtBoot, OneOnDuty
  <2>3. RoundIsBounded'
    BY <1>9 DEF Fill, RoundIsBounded, TypeOK
  <2>4. EachByteOnce'
    BY <1>9 DEF Fill, EachByteOnce, InBuffer, TypeOK
  <2> QED
    BY <2>1, <2>2, <2>3, <2>4
<1>10. CASE Dispatch
  <2>1. TypeOK'
    BY <1>10 DEF Dispatch, TypeOK, uart
  <2>2. AtBoot' /\ OneOnDuty'
    BY <1>10 DEF Dispatch, AtBoot, OneOnDuty, uart
  <2>3. RoundIsBounded'
    BY <1>10 DEF Dispatch, RoundIsBounded, TypeOK
  <2>4. EachByteOnce'
    BY <1>10 DEF Dispatch, EachByteOnce, InBuffer, TypeOK, uart
  <2> QED
    BY <2>1, <2>2, <2>3, <2>4
<1>11. CASE commandline
  <2>1. i < length => (i + 1) % UINT8_RANGE = i + 1
    BY <1>11 DEF commandline, RoundIsBounded, TypeOK
  <2>2. TypeOK'
    BY <1>11, <2>1 DEF commandline, TypeOK, RoundIsBounded, uart
  <2>3. AtBoot' /\ OneOnDuty'
    BY <1>11 DEF commandline, AtBoot, OneOnDuty, uart
  <2>4. RoundIsBounded'
    BY <1>11, <2>1 DEF commandline, RoundIsBounded, TypeOK
  <2>5. EachByteOnce'
    BY <1>11, <2>1 DEF commandline, EachByteOnce, InBuffer, RoundIsBounded, TypeOK, uart
  <2> QED
    BY <2>2, <2>3, <2>4, <2>5
<1>12. CASE TestFull \/ TestTout
  <2>1. pc \in {"full", "tout"} /\ pc' \in {"clear_full", "clear_tout", "tout", "enable"}
    BY <1>12 DEF TestFull, TestTout
  <2>2. UNCHANGED <<rxfifo, int_st, arrived, late, intr_enabled, registered, queue,
                    length, i, handled, wifi_connected>>
    BY <1>12 DEF TestFull, TestTout, uart, task
  <2>3. TypeOK'
    BY <2>1, <2>2 DEF TypeOK
  <2>4. AtBoot' /\ OneOnDuty' /\ RoundIsBounded'
    BY <2>1, <2>2 DEF AtBoot, OneOnDuty, RoundIsBounded
  <2>5. EachByteOnce'
    BY <2>1, <2>2 DEF EachByteOnce, InBuffer
  <2> QED
    BY <2>3, <2>4, <2>5
<1>13. CASE Clear
  <2>1. TypeOK'
    BY <1>13 DEF Clear, TypeOK, Latch, task
  <2>2. AtBoot' /\ OneOnDuty' /\ RoundIsBounded'
    BY <1>13 DEF Clear, AtBoot, OneOnDuty, RoundIsBounded, task
  <2>3. EachByteOnce'
    BY <1>13 DEF Clear, EachByteOnce, InBuffer, task
  <2> QED
    BY <2>1, <2>2, <2>3
<1>14. CASE Enable
  <2>1. TypeOK'
    BY <1>14 DEF Enable, TypeOK, uart, task
  <2>2. AtBoot' /\ RoundIsBounded'
    BY <1>14 DEF Enable, AtBoot, RoundIsBounded, uart, task
  <2>3. OneOnDuty'
    BY <1>14 DEF Enable, OneOnDuty, TypeOK, uart, task
  <2>4. EachByteOnce'
    BY <1>14 DEF Enable, EachByteOnce, InBuffer, uart, task
  <2> QED
    BY <2>1, <2>2, <2>3, <2>4
<1>15. CASE UNCHANGED vars
  BY <1>15 DEF vars, uart, task, TypeOK, AtBoot, OneOnDuty, RoundIsBounded, EachByteOnce,
               InBuffer
<1> QED
  BY <1>1, <1>2, <1>3, <1>4, <1>5, <1>6, <1>7, <1>8, <1>9, <1>10, <1>11, <1>12, <1>13,
     <1>14, <1>15
  DEF Next

(* For any sizes that keep a round below the range of the counter: once the
   device has booted on a silent line, exactly one of interrupt, event and task
   is on duty; every byte is handled once; and the loop over the buffer ends. *)
THEOREM SerialInvariant ==
    Spec => [](TypeOK /\ OneOnDuty /\ EachByteOnce /\ CounterReachesLength)
<1>1. IInv => TypeOK /\ OneOnDuty /\ EachByteOnce /\ CounterReachesLength
  BY DEF IInv, RoundIsBounded, CounterReachesLength
<1>2. IInv /\ [Next]_vars => IInv'
  BY StepPreserves
<1> QED
  BY InitEstablishes, <1>1, <1>2, PTL DEF Spec

(* The duty to empty the FIFO is never lost and never in two places, between the
   handler, the event queue and the task (uart0_rx_intr_handler, recvTask). *)
THEOREM DutyIsInOnePlace == Spec => []OneOnDuty
BY SerialInvariant, PTL

(* The uint8_t that counts through the buffer reaches the length of every round:
   MAX_UARTBUFFER bytes are never there at once (recvTask). *)
THEOREM RoundsEnd == Spec => []CounterReachesLength
BY SerialInvariant, PTL
=============================================================================
