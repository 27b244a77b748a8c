------------------------------- MODULE Serial -------------------------------
(***************************************************************************)
(* driver/uart.c and recvTask of user/user_main.c: bytes arrive in the     *)
(* hardware FIFO of UART0, the interrupt handler turns itself off and      *)
(* posts an event, and recvTask drains the FIFO, hands the bytes on,       *)
(* clears the interrupt and turns it on again.                             *)
(*                                                                         *)
(* The UART and system_os_post are modelled from how the code uses them:   *)
(* arrivals, interrupts and the task interleave at every step, and a       *)
(* cleared status bit comes back as long as its cause is there.            *)
(***************************************************************************)
EXTENDS Integers

CONSTANTS
    RXFIFO,             \* bytes the hardware FIFO holds
    RXFIFO_FULL_THRHD,  \* bytes that raise the FULL interrupt
    MAX_UARTBUFFER,     \* bytes recvTask takes out at a time
    UINT8_RANGE,        \* values of the uint8_t that counts them off again
    recvTaskQueueLen,   \* events the task's queue holds
    LateArrivals,       \* bytes that arrive while recvTask drains the FIFO
    MaxBytes,           \* bound: bytes that arrive at all
    QuietBoot           \* whether the line is silent until user_init is done

ASSUME SizeAssumption ==
    /\ RXFIFO \in Nat /\ RXFIFO > 0
    /\ RXFIFO_FULL_THRHD \in 1..RXFIFO
    /\ MAX_UARTBUFFER \in Nat /\ MAX_UARTBUFFER > 0
    /\ UINT8_RANGE \in Nat /\ UINT8_RANGE > 0
    /\ recvTaskQueueLen \in Nat /\ recvTaskQueueLen > 0
    /\ MaxBytes \in Nat
    /\ QuietBoot \in BOOLEAN

(* The loop reads a byte in far less time than the line takes to bring one:
   what it collects stays below the range of its uint8_t counter. *)
ASSUME SpeedAssumption ==
    /\ LateArrivals \in Nat
    /\ RXFIFO + LateArrivals < UINT8_RANGE

VARIABLES
    rxfifo,         \* bytes in the hardware FIFO
    int_st,         \* the interrupt status bits that are set
    intr_enabled,   \* ETS_UART_INTR_ENABLE, _DISABLE
    registered,     \* system_os_task has been called
    queue,          \* events in recvTaskQueue
    pc,             \* what the CPU is doing below interrupt level
    length, i,      \* recvTask's locals
    late,           \* bytes that arrived since this round of draining began
    wifi_connected,
    arrived,        \* bytes received so far
    handled         \* bytes given to commandline or to netout_broadcast_byport

uart == <<rxfifo, int_st, arrived, late>>
task == <<length, i, handled>>
vars == <<uart, intr_enabled, registered, queue, pc, task, wifi_connected>>

Running == {"while", "fill", "dispatch", "line",
            "full", "tout", "clear_full", "clear_tout", "enable"}
Booting == {"boot", "user_init"}

-----------------------------------------------------------------------------

Init ==
    /\ rxfifo = 0 /\ int_st = {} /\ intr_enabled = FALSE
    /\ registered = FALSE /\ queue = 0
    /\ pc = "boot"
    /\ length = 0 /\ i = 0 /\ late = 0
    /\ wifi_connected = FALSE
    /\ arrived = 0 /\ handled = 0

(* FULL is set as long as the FIFO holds so many bytes. *)
Latch(bits, n) == IF n >= RXFIFO_FULL_THRHD THEN bits \cup {"FULL"} ELSE bits

(* A byte comes in.  One that finds the FIFO full is lost before the program sees
   it; it does not count. *)
Arrive ==
    /\ pc # "boot" /\ (QuietBoot => pc \notin Booting)
    /\ rxfifo < RXFIFO
    /\ arrived < MaxBytes
    /\ pc = "fill" => late < LateArrivals
    /\ rxfifo' = rxfifo + 1
    /\ int_st' = Latch(int_st, rxfifo + 1)
    /\ arrived' = arrived + 1
    /\ late' = IF pc = "fill" THEN late + 1 ELSE late
    /\ UNCHANGED <<intr_enabled, registered, queue, pc, task, wifi_connected>>

(* The line has been idle with bytes waiting. *)
Timeout ==
    /\ rxfifo > 0
    /\ int_st' = int_st \cup {"TOUT"}
    /\ UNCHANGED <<rxfifo, arrived, late, intr_enabled, registered, queue, pc, task,
                   wifi_connected>>

(* A byte was garbled. *)
FrameError ==
    /\ pc # "boot" /\ (QuietBoot => pc \notin Booting)
    /\ arrived < MaxBytes
    /\ int_st' = int_st \cup {"FRM_ERR"}
    /\ UNCHANGED <<rxfifo, arrived, late, intr_enabled, registered, queue, pc, task,
                   wifi_connected>>

(* An event is lost when nobody has registered for it or the queue is full;
   the handler does not look at the result. *)
system_os_post ==
    queue' = IF registered /\ queue < recvTaskQueueLen THEN queue + 1 ELSE queue

(* Mutant of uart0_rx_intr_handler: it does not turn itself off. *)
uart0_rx_intr_handler_stays_on ==
    /\ intr_enabled /\ int_st # {}
    /\ int_st' = int_st \ {"FRM_ERR"}
    /\ IF {"FULL", "TOUT"} \cap int_st # {}
       THEN system_os_post
       ELSE UNCHANGED queue
    /\ UNCHANGED <<rxfifo, arrived, late, intr_enabled, registered, pc, task, wifi_connected>>

uart0_rx_intr_handler ==
    /\ intr_enabled /\ int_st # {}
    /\ int_st' = int_st \ {"FRM_ERR"}
    /\ IF {"FULL", "TOUT"} \cap int_st # {}
       THEN intr_enabled' = FALSE /\ system_os_post
       ELSE UNCHANGED <<intr_enabled, queue>>
    /\ UNCHANGED <<rxfifo, arrived, late, registered, pc, task, wifi_connected>>

-----------------------------------------------------------------------------

(* uart_init, early in user_init, empties the FIFO and enables the interrupt;
   system_os_task, the last thing in user_init, registers recvTask. *)
uart_init ==
    /\ pc = "boot"
    /\ rxfifo' = 0 /\ int_st' = {} /\ intr_enabled' = TRUE
    /\ pc' = "user_init"
    /\ UNCHANGED <<arrived, late, registered, queue, task, wifi_connected>>

system_os_task ==
    /\ pc = "user_init"
    /\ registered' = TRUE
    /\ pc' = "idle"
    /\ UNCHANGED <<uart, intr_enabled, queue, task, wifi_connected>>

(* Callbacks and tasks do not interrupt each other. *)
wifi_callback ==
    /\ pc = "idle"
    /\ wifi_connected' \in BOOLEAN
    /\ UNCHANGED <<uart, intr_enabled, registered, queue, pc, task>>

recvTask ==
    /\ pc = "idle" /\ queue > 0
    /\ queue' = queue - 1
    /\ pc' = "while"
    /\ UNCHANGED <<uart, intr_enabled, registered, task, wifi_connected>>

(* Mutant of While: length is not set back to zero. *)
While_keeps_length ==
    /\ pc = "while"
    /\ IF rxfifo > 0
       THEN pc' = "fill" /\ late' = 0
       ELSE pc' = "full" /\ UNCHANGED late
    /\ UNCHANGED <<rxfifo, int_st, arrived, intr_enabled, registered, queue, task,
                   wifi_connected>>

(* The outer loop: another round as long as there is anything to read. *)
While ==
    /\ pc = "while"
    /\ IF rxfifo > 0
       THEN pc' = "fill" /\ length' = 0 /\ late' = 0
       ELSE pc' = "full" /\ UNCHANGED <<length, late>>
    /\ UNCHANGED <<rxfifo, int_st, arrived, intr_enabled, registered, queue, i, handled,
                   wifi_connected>>

(* Mutant of Fill: it does not look whether there is a byte. *)
Fill_unchecked ==
    /\ pc = "fill"
    /\ IF length < MAX_UARTBUFFER
       THEN rxfifo' = rxfifo - 1 /\ length' = length + 1 /\ UNCHANGED pc
       ELSE pc' = "dispatch" /\ UNCHANGED <<rxfifo, length>>
    /\ UNCHANGED <<int_st, arrived, late, intr_enabled, registered, queue, i, handled,
                   wifi_connected>>

(* The inner loop takes bytes out as long as there are any and they fit. *)
Fill ==
    /\ pc = "fill"
    /\ IF rxfifo > 0 /\ length < MAX_UARTBUFFER
       THEN rxfifo' = rxfifo - 1 /\ length' = length + 1 /\ UNCHANGED pc
       ELSE pc' = "dispatch" /\ UNCHANGED <<rxfifo, length>>
    /\ UNCHANGED <<int_st, arrived, late, intr_enabled, registered, queue, i, handled,
                   wifi_connected>>

(* The bytes go to the network clients at once, or one by one to commandline. *)
Dispatch ==
    /\ pc = "dispatch"
    /\ IF wifi_connected
       THEN pc' = "while" /\ handled' = handled + length /\ UNCHANGED i
       ELSE pc' = "line" /\ i' = 0 /\ UNCHANGED handled
    /\ UNCHANGED <<uart, intr_enabled, registered, queue, length, wifi_connected>>

commandline ==
    /\ pc = "line"
    /\ IF i < length
       THEN i' = (i + 1) % UINT8_RANGE /\ handled' = handled + 1 /\ UNCHANGED pc
       ELSE pc' = "while" /\ UNCHANGED <<i, handled>>
    /\ UNCHANGED <<uart, intr_enabled, registered, queue, length, wifi_connected>>

(* FULL is looked for, or else TOUT, and the one that is found is cleared. *)
TestFull ==
    /\ pc = "full"
    /\ pc' = IF "FULL" \in int_st THEN "clear_full" ELSE "tout"
    /\ UNCHANGED <<uart, intr_enabled, registered, queue, task, wifi_connected>>

(* Mutant of TestTout: TOUT is never cleared. *)
TestTout_unlooked ==
    /\ pc = "tout"
    /\ pc' = "enable"
    /\ UNCHANGED <<uart, intr_enabled, registered, queue, task, wifi_connected>>

TestTout ==
    /\ pc = "tout"
    /\ pc' = IF "TOUT" \in int_st THEN "clear_tout" ELSE "enable"
    /\ UNCHANGED <<uart, intr_enabled, registered, queue, task, wifi_connected>>

Clear ==
    /\ pc \in {"clear_full", "clear_tout"}
    /\ int_st' = Latch(int_st \ {IF pc = "clear_full" THEN "FULL" ELSE "TOUT"}, rxfifo)
    /\ pc' = "enable"
    /\ UNCHANGED <<rxfifo, arrived, late, intr_enabled, registered, queue, task,
                   wifi_connected>>

(* Mutant of Enable: the interrupt stays off. *)
Enable_left_out ==
    /\ pc = "enable"
    /\ pc' = "idle"
    /\ UNCHANGED <<uart, intr_enabled, registered, queue, task, wifi_connected>>

(* ETS_UART_INTR_ENABLE, the last thing in recvTask. *)
Enable ==
    /\ pc = "enable"
    /\ intr_enabled' = TRUE
    /\ pc' = "idle"
    /\ UNCHANGED <<uart, registered, queue, task, wifi_connected>>

-----------------------------------------------------------------------------

Boot == uart_init \/ system_os_task
Task ==
    \/ recvTask \/ While \/ Fill \/ Dispatch \/ commandline
    \/ TestFull \/ TestTout \/ Clear \/ Enable

Next ==
    \/ Arrive \/ Timeout \/ FrameError
    \/ uart0_rx_intr_handler
    \/ uart_init \/ system_os_task
    \/ wifi_callback
    \/ recvTask \/ While \/ Fill \/ Dispatch \/ commandline
    \/ TestFull \/ TestTout \/ Clear \/ Enable

(* The CPU takes its interrupts, boots, and runs a task that has an event; the
   UART notices an idle line. *)
Fairness ==
    /\ WF_vars(uart0_rx_intr_handler)
    /\ WF_vars(Boot)
    /\ WF_vars(Task)
    /\ WF_vars(Timeout)

Spec == Init /\ [][Next]_vars
FairSpec == Spec /\ Fairness

-----------------------------------------------------------------------------
(* Properties *)

(* Every counter, bit and state stays in its range. *)
TypeOK ==
    /\ rxfifo \in 0..RXFIFO
    /\ int_st \in SUBSET {"FULL", "TOUT", "FRM_ERR"}
    /\ intr_enabled \in BOOLEAN
    /\ registered \in BOOLEAN
    /\ queue \in 0..recvTaskQueueLen
    /\ pc \in Booting \cup {"idle"} \cup Running
    /\ length \in 0..MAX_UARTBUFFER
    /\ i \in 0..(UINT8_RANGE - 1)
    /\ late \in 0..LateArrivals
    /\ wifi_connected \in BOOLEAN
    /\ arrived \in 0..MaxBytes
    /\ handled \in Nat

(* Once user_init is done the duty to read is always in one place: with the
   enabled interrupt, with one posted event, or with the running task.  So a
   post never finds the queue full, which its caller would not notice, and the
   handler never runs while recvTask drains (uart0_rx_intr_handler, recvTask);
   provided the line is silent until recvTask is registered. *)
OneOnDuty ==
    QuietBoot /\ pc \notin Booting =>
        /\ queue <= 1
        /\ intr_enabled <=> queue = 0 /\ pc \notin Running
        /\ queue = 1 => pc = "idle"

(* The bytes in recvTask's buffer that nobody has had yet. *)
InBuffer ==
    CASE pc \in {"fill", "dispatch"} -> length
      [] pc = "line" -> length - i
      [] pc \notin {"fill", "dispatch", "line"} -> 0

(* A byte that came in is in the FIFO, in the buffer, or has been handled once:
   rounds of draining, the full buffer, and the two ways out neither lose a
   byte nor hand one on twice (recvTask). *)
EachByteOnce == arrived = rxfifo + InBuffer + handled

(* The loop over the buffer ends: its uint8_t counter can reach the length,
   which the size of the buffer alone, 256, does not ensure (recvTask). *)
CounterReachesLength == pc = "line" => length < UINT8_RANGE /\ i <= length

(* Each byte that comes in is handled, whatever arrives between the last look
   into the FIFO and the clearing of the interrupt that announced it. *)
BytesAreHandled == \A n \in 1..MaxBytes : (arrived >= n) ~> (handled >= n)

(* When the line falls silent the interrupt falls silent: no status bit is left
   to raise it again and again over an empty FIFO (recvTask clears one bit). *)
AtRest == pc = "idle" /\ queue = 0 /\ intr_enabled /\ int_st = {} /\ rxfifo = 0
InterruptSettles == (arrived = MaxBytes) ~> []AtRest
=============================================================================
