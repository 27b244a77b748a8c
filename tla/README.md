# Verification of the ESP8266 telnet-to-serial bridge

The firmware under `src/` turns an ESP8266 into a telnet server in front of a
serial line. While WiFi is up, bytes from UART0 are broadcast to the telnet
clients and text from the clients is written to UART0; while WiFi is down the
serial line talks to a command line, whose settings live in a flash sector. This
directory holds TLA+ models of its parts, TLC runs on small instances and proofs
for all instances. `PROJECT.json` maps every definition to the lines it models.

    tlc -workers 2 -config MCNetClient.cfg MCNetClient     # a run
    tlapm NetClientProofs.tla                              # a proof

## 1. Inventory

| Component | State it keeps | Operations | What makes it hard | Correct when |
|---|---|---|---|---|
| Byte ring, `user/fifo.c` | `fifo_buf`, `rd`, `wr`, `len` | putc, getc, write, read, getbulk | wrap-round, two resets of the indices in getbulk, cut-off writes | it is a bounded queue |
| Client table, `user/netclient.c`, TCP callbacks of `user/user_main.c` | `netclients[]` (espconn, port, sending flag, fifo, telopt_sent) | connect, recv, sent, disconnect, reconnect callbacks; netout, flush, broadcast, reaper | callbacks of several sessions in any order, reused addresses, refused sends, resets | a session has one slot, one chunk is under way, nothing strands or leaves a hole, slots come back |
| Telnet, `user/telnet.c` | state, `telopt_sent` | telnet_recv a byte at a time | commands split and nested anyhow | text is decoded, each command gets the reply it is owed |
| Serial receive, `driver/uart.c`, `recvTask` | UART FIFO and status, interrupt enable, task queue, `length`, `i` | interrupt, post, drain, clear | interrupt against task at every step, boot order, `uint8_t` counter | no byte lost or doubled, each is handled, the interrupt settles |
| Command line, `user/cmdline.c` | line, cursor, mark, kill buffer, history ring, prefix | one key at a time; execute on ENTER | the screen is drawn by differences, a ring without index, pending lines; a line cut in place | the screen shows the line, kills can be yanked, history keeps the newest lines, arguments are the words of the line |
| Settings, `user/flashenv.c`, `user/command.c` | `__environ` and a flash sector | setenv, getenv, load, save | restart inside a save, space accounting | one value per name, others untouched, restart keeps what was set |
| WiFi callback, SNTP, listeners (`user_main.c`) | `wifi_connected` | event callback; set up once | the flag changes under the serial path | bytes go where the flag says when they are handed on (in `Serial`) |
| UDP LED port, SPI LED matrix (`user_main.c`, `spi_led8x8.c`, `led8x8_setpattern`) | `led_matrix`, `nintr`, `spi_intr_continuous`, the SPI's registers, the latch | SPI interrupt, udp_recvcb, spi_init, spi_start | a pattern rewritten while it is sent; a chain of interrupts that must not break | rows in order, none torn back to an older pattern, every pattern shown |
| Numbers, `printf.c`, `stdlib.c` | none | strtol, kprintn, kdoprnt | limits of a long, a buffer of fixed size, flags and width | numerals are read for what they stand for, numbers printed as what they are |
| Commands, `user/command.c` | none of their own | d, setenv, printenv, reboot, help | | their effects are those of the settings and of numbers |
| Syslog, `user/syslog.c` | a UDP connection, pointers to the hostname | one datagram for an event | a fixed buffer, a pointer that goes stale | not modelled |
| rest of `user/led8x8.c` | | no caller in this build | | not modelled |

They interact through calls and shared state: the UART interrupt posts to
`recvTask`; `recvTask` calls `commandline` or `netout_broadcast_byport`
according to `wifi_connected`; broadcast and telnet replies fill a slot's fifo,
`netout_flush` starts a chunk and `tcp_sentcb` goes on; `tcp_recvcb` gives a
client's bytes to `telnet_recv`, which writes to UART0 and queues replies;
`commandline` cuts a line into arguments and calls a command;
`command_setenv` calls `flashenv_setenv`, which saves; `user_init` loads.
`udp_recvcb` writes the pattern that the SPI interrupt reads.
`PROJECT.json` lists the hazards line by line.

## 2. Modules

| Module | Models | State and actions against the code |
|---|---|---|
| `FifoOps`, `Fifo` | fifo.c, fifo.h | `fifo` is the struct; each C function is an operator, called by the action of its name. `& (SIZE - 1)` is a conditional subtraction, the same for the indices that occur and `FIFO_BUFSIZE` a power of two. |
| `QueueOps`, `BoundedQueue` | what a client of the ring relies on | the abstract specification `Fifo` implements |
| `TelnetOps`, `Telnet` | telnet.c, `putchar` | `telnet_recv` on one byte: next state, bytes to the serial line, bytes queued; `Telnet` compares both with what the grammar makes of all the bytes so far |
| `TelnetGrammar` | an independent reading of the stream, whole strings at a time | reference definition, in recursive functions over the prefixes of a string |
| `NetClient` | netclient.c and the TCP callbacks | `netclients` is the table, `session` the SDK's side of every `struct espconn`; one action per callback, `Close` for what the SDK does by itself. A slot's fifo is the queue that `FifoProofs` shows fifo.c to be; how much one getbulk lends is left open. |
| `Serial` | uart0_rx_intr_handler, uart_init, recvTask | `pc` steps through recvTask's loops, one access to shared state per step; interrupt and arrivals fit in between any two |
| `CmdlineOps`, `Cmdline` | cmdline.c | `cmdline` is the struct and the terminal it draws on (`term`); one operator per C function, one action per key; `kept` is a history variable: the lines entered |
| `Execute` | `execute` of cmdline.c | `execute` folds `Read` over the positions of p; the state is the buffer, q, the open quote and what p is in. `Words` is the reference: what parts, what is text, what only quotes |
| `Numbers` | strtol, kprintn, number conversions of kdoprnt | one operator per function or loop, for ints of `BITS` bits. The reference (`Magnitude`) adds up what each digit of a numeral stands for |
| `SpiLed` | spi_led8x8.c, `led8x8_setpattern`, `udp_recvcb` | `isr` and `pc` step through the handler and the program. A row's content is the number of the pattern it is of; a copy takes any rows at a time. `word`, `usr`, `trans_done`, `latch` are registers and a pin |
| `Display` | what a sender of patterns may rely on | the abstract specification `SpiLed` implements |
| `FlashEnv` | flashenv.c, setenv and reboot of command.c | `environ`, the sector, and how far a save has got; `Restart` at any moment |
| `Induction` | | induction over numbers, recursive functions, the greatest number of a set, and what a fold does step by step, for the proofs |
| `FifoProofs`, `NetClientProofs`, `SerialProofs`, `FlashEnvProofs`, `TelnetProofs`, `SpiLedProofs`, `CmdlineProofs` | | theorems (those about numbers are in `CmdlineProofs`) |
| `MCCmdline` | | `Cmdline` with keys for editing or for recalling, or instead of it a text for `Execute` or `Numbers`: `doing` says which |
| other `MC...` | | constants for TLC |

What is external - the SDK, the UART, the flash, the terminal - is modelled
from how the code uses it:

- The non-OS SDK runs one callback or task at a time to its end; only interrupts
  preempt. A callback is therefore one action, except `recvTask`, whose every
  step an interrupt may follow.
- `espconn_sent` copies its data. The sent callback comes only while the session
  is in state CONNECT. A session that ends gets its disconnect callback, after
  which its address may be given out again; one that is reset gets the reconnect
  callback and no other.
- `system_os_post` to an unregistered task or a full queue is lost.
- A cleared UART status bit comes back as long as its cause is there. Bytes that
  find the hardware FIFO full are lost unseen: `arrived` counts those that got in
  (RTS, set up at uart.c:48, loses its pin at spi_led8x8.c:92). Reading a byte
  takes far less time than receiving one, so a round of draining collects fewer
  than 256 (`SpeedAssumption`).
- The end of an SPI transfer sets a flag that raises the interrupt until it is
  cleared. The matrix takes over a row when the latch rises. The flash's SPI shares
  the handler; its interrupt is looked at first and, once handled, is off. An
  interrupt handler is not interrupted; SDK callbacks are.
- `int` wraps round where the code lets it overflow: `nintr`, the operands of
  strtol's tests, the negation of the smallest int. A range of the counter is a
  multiple of the rows (`RangeAssumption`), as 2^32 is of 8.
- A sector is erased, then written whole; a write cut off halfway is left out.

Abstractions of data: an item of a client's queue is what one `netout` queues; a
packet of the client brings one telnet command; the client's address kept for
the log, names with `=` in them, prompt and beeps are left out. The command
line's word motions are drawn by their net effect. A variable that runs behind
the end of the array leaves a memory that nothing can be said about: `Next` of
`FlashEnv` takes no step from there, neither a save, which would write only
`sizeof(__environ)` bytes of it, nor a restart.

## 3. Runs

| Run | Module, cfg | Shows |
|---|---|---|
| `fifo` | MCFifo | The ring's counters cohere under every sequence of calls (`Coherent`), and the ring implements `BoundedQueue` (`IsBoundedQueue`). 4 bytes of 2 values, writes of 0 to 5 bytes: every position wraps, every write can be cut off. |
| `telnet` | MCTelnet | All strings of up to 6 bytes over 11 (NUL, LF, CR, IAC, SB, SE, AYT and the four option verbs, which also serve as options and data) decode as the grammar says (`SerialIsDecodedText`) and get the replies they are owed (`RepliesAreOwed`). Six bytes hold a subnegotiation with an escape inside, or two option commands. |
| `client` | MCNetClient | Two slots, two addresses, queues of two items; the sessions of `c2` may be reset. A reset slot stays, its next session takes the other one, and the next client is turned away; sends are refused at any point. All safety properties, `ReaperIsExact`, and under fairness `BroadcastIsDelivered` and `ClosedSlotsAreReaped`. |
| `client_leak` | MCNetClientLeak | **Violated**: a reset session's slot is not given back. |
| `client_inquiry` | MCNetClientInquiry | **Violated**: the answer to Are You There is queued and not flushed. |
| `serial` | MCSerial | A FIFO of 4, interrupt at 2, buffer of 8 and a counter of range 8: the relations of 128, 16, 256 and 256. With 9 bytes several rounds and late arrivals occur. A round collects at most the FIFO and the late arrivals, 6 bytes here, so the buffer never fills, as in the source: the test for a full one never ends the loop. Safety, and under fairness `BytesAreHandled`, `InterruptSettles`. |
| `serial_boot` | MCSerialBoot | **Violated**: a byte during user_init switches the serial line off for good. |
| `cmdline` | MCCmdline | Lines of 3, a ring of 8: room for two whole lines with their NULs, as the source's has (256 for lines of 127). A behaviour does one of four things (`doing`). *Editing*: 15 keys and 6 prefixed ones: `ScreenShowsLine`, `MarkInLine`, `KillIsYankable`. *Recalling*: lines are entered, recalled by `^P` and `^N`, changed and entered again; the ring wraps, cuts lines off and takes back pending ones: `RingIsHistory`, `RecallsTheLine`, `ScreenShowsLine`. Lines are told apart by their lengths here. *Words*: every line of up to 6 of a letter, blank, both quotes and backslash, with room for 3 pointers, and every line of the editor: `ArgumentsAreWords`. *Numbers*: every numeral of up to 4 of the digits 0, 1, 2, 7, 8, f, with and without a blank, a sign, 0x and letters behind it, read in base 10 and 16 into 8 bits: `NumbersAreRead`; the numbers that base 16 makes of them, and their negatives, printed in four conversions with all sets of flags, in a field and without: `NumbersArePrinted`. |
| `cmdline_recall` | MCCmdlineRecall | **Violated**: a line across the last element of the ring comes back wrong. |
| `flashenv` | MCFlashEnv | Four names, three values of two lengths, room for all: `OneValuePerName`, `OthersAreKept`, `RestartKeepsSettings`. |
| `flashenv_size` | MCFlashEnvSize | **Violated**: 16 bytes of array are overrun. |
| `spiled` | MCSpiLed | Four rows, a counter that runs over after two rounds, two patterns: `OneLink`, `LatchedWordIsWhole`, the refinement `IsDisplay`, and under fairness `RowsAreLit` and `PatternIsShown`. A copy is cut up anyhow, a second pattern may come before the first has been shown, and datagrams of a wrong length come too. |

Bounds, each a constant or a definition: `MaxBytes` (bytes on the serial line;
bytes of a telnet client), `Once` (a followed item is queued once, so that
"it is delivered" has a meaning), `MaxKept` (the history variable keeps as many
lines as the ring can hold), `MaxPatterns` (patterns received). A pattern's
content does not matter, only which one a row is of, so three of them make every
mixture of old, newer and newest. Deadlock is checked in all runs but `telnet`, where a
client that has sent its bytes has nothing left to do.

Fairness. `NetClient`: the SDK calls the sent and disconnect callbacks it owes and
carries out an `espconn_disconnect`; nobody has to connect, send or close.
`Serial`: the CPU takes a pending enabled interrupt, boots, and runs a task that
has an event; the UART notices a line that is idle with bytes waiting. These are
what the SDK and the hardware exist to do; nothing fair is asked of clients or
senders. `SpiLed`: transfers end and the handler is run to its end (weak); the
program goes on infinitely often between interrupts (strong), because a whole
transfer, 400 microseconds, lies between two of them and the handler is short;
nobody has to send patterns. The other modules state no fairness.

Each property has a mutant (`..._suffix` beside the definition it replaces): a
plausible mistake in the code under which TLC finds that property violated.

### Resets

`tcp_reconnectcb` reaps nothing. A slot whose session was reset stays pointing at
an address that the SDK gives out again, and then two slots name one session.
Therefore `OneSlotPerSession`, `SendingMeansUnderWay`, `NothingAfterALoss`, `SerialBytesMove`
and the two liveness properties speak of sessions at addresses not in `Resets`
(`Spared`): whatever is left behind by others, these are served correctly.
`SentcbFindsSlot` and `ReaperIsExact` hold for all. `SerialBytesMove` also
excepts a session that is being closed: after a refused send nothing is with the
SDK, and the flag stays set to keep it so. With
`Resets = {}` the restricted ones become the unrestricted statements.

## 4. Findings

- `DeadSlotsAreReaped` (user_main.c:417): a reset session's slot is taken for
  good unless some other session closes; a few resets and nobody can connect.
- `InquiryIsAnswered` (telnet.c:168): `recv_ayt` does not flush.
- `BytesAreHandled` (uart.c:179, user_main.c:707/767): the interrupt is enabled
  before the task is registered; the first event is lost and the handler has
  disabled the interrupt.
- `RecallsALine` (cmdline.c:493): `fetch_from_history` wraps one element early.
- `EnvironFits` (flashenv.c:178): bytes in use are taken for bytes left, so a full
  array is overrun. For the same reason a long value is refused on a short array,
  after `flashenv_setenv` has deleted the old value.

Observed, and covered by no promise of the repository: `insert` and `delete` treat a
mark next to the cursor differently (cmdline.c:262); `nexthist` after a `^P` on an
empty history can lose the typed line; `fifo_read`, which has no caller, is
bounded by the free space and pads with end-of-file; a byte 255 from the serial
line is not doubled for telnet clients.

Numbers: `islower` and `isupper` are written with "or" and hold of every
character (stdlib.c:15, 22), so a capital, a blank or a sign in a number counts
for less than nothing and makes it the largest or smallest long: `d 40FF 10`
dumps from 0x7fffffff. `DigitOf` is written the same way; the repository does not
say that digits may be capitals, so `NumbersAreRead` is about numerals in small
letters, followed by nothing or by letters that are no digits of the base. `0x%p`
(command.c:52) prints `0x0x`, as `%p` brings its own. The smallest int is
printed by `%d` with a magnitude of twice the width (printf.c:206: its negation, a
long, wraps round to itself and is then extended to an unsigned long long). The
text fits the buffer, which `NumbersArePrinted` says of every number; that the
digits are those of the number it says of all but this one.

While a pattern is copied, the matrix may show rows of two patterns together;
`Display` allows that and no more: no row goes back to an older one, and once a
pattern is whole the row after the next is of it or a newer one.

## 5. Proofs

All for every value of the constants, from the named assumptions of the modules.
Of what passing runs check, every safety property and refinement is proved but
two: `NumbersAreRead` and `NumbersArePrinted`.

- `FifoInvariant`, `FifoRefinesQueue`. The inductive invariant says that the
  counters are in range and that `wr` is `rd + len` round the ring; `Contents`
  maps the ring to the queue. Each operation's effect on `Contents` is a lemma,
  the wrapped bulk read the hard one; `fifo_write`, a loop of `fifo_putc`, needs an
  induction on the bytes put so far (`WriteFills`). A step of `Fifo` then is a step
  of `BoundedQueue`.
- `ClientTableInvariant`, `ReapingIsExact`. The properties speak of live sessions
  only. What makes them inductive is that no slot of a spared address points at a
  session that the SDK is done with (`Owned`) and that none is held twice, dead or
  alive (`Unique`): thus a new session never inherits an old slot. `FlushPreserves`
  then counts: at most one chunk of a session is started, because at most one slot
  names it. `SerialBytesMove` joins two conjuncts: what lies in a queue has the
  slot's flag set (`Moving`), and a set flag is a chunk with the SDK or a close
  under way (`Pumping`). `SentcbFindsSlot` and `Moving` hold in spite of resets.
- `SerialInvariant`. `OneOnDuty` needs what boot leaves behind; the bound on the
  `uint8_t` counter needs the bound on a round while it is being collected
  (`RoundIsBounded`), which is where `SpeedAssumption` enters.
- `SettingsInvariant`, `OthersKeepTheirValues`, `RestartIsSafe`. Memory and sector
  are well formed: VERSION first and no name twice. Deleting and adding keep that
  (lemmas), and outside a save the sector equals the memory. The theorems hold
  as long as no string has run over the end of the array.

- `SentcbNeedsNoTest`, `AddressNamesSlot`, `LossEndsTheStream`,
  `SerialBytesAreOnTheirWay`, `DutyIsInOnePlace`, `RoundsEnd`: parts of the
  invariants above, each stated for itself.
- `LedTypes`, `LedChain`, `LedLatch`, `SpiLedRefinesDisplay`. The invariant joins
  `TypeOK`, `OneLink` and `LatchedWordIsWhole` with four facts: before the driver
  is started nothing is under way (`Boots`); between copies the matrix is of one
  pattern, and within one each row is of the one that is being copied or, while it
  is still to do, of the one before (`Copying`); the word under way is for the
  row that the counter names, which follows the row that is lit (`InOrder`); and
  what is read for a row is no older than what was whole when the row before was
  lit, nor than what the row has shown (`Ages`). Without `Ages` a step of the
  latch could not be shown to be a `Light` of `Display`: the pattern was read one
  transfer earlier.
- `TelnetTypes`, `SerialIsText`, `RepliesAreRight`: states, options and bytes stay
  in range, and after any string of bytes, however long and however cut, the
  serial line has got the text and the client the replies that the grammar finds
  in it. The machine has a state for each place in a unit; the grammar has only
  the string. The invariant (`InvAlways`) therefore says where the grammar stands:
  which bytes follow the last complete unit, in each state of the machine, the
  parity of the run of 255s in a subnegotiation and the option remembered
  included. Lemmas say what one more byte does to a reading (the unit goes on, or
  ends and adds its text and reply); the step follows telnet_recv state by state.
- `TypesAlways`, `ScreenAlways`, `MarkAlways`, `YankAlways`, `RecallAlways`: the line
  editor, for lines, rings and alphabets of any size, the word motions, both
  directions of kill, yank and the history keys included. The invariant, `Good`:
  line and kill buffer fit and the positions are within the line; the terminal
  shows the line (`Shows`), of which the screen property is a part, but without
  which the next difference would be drawn over something else; and the ring is
  cut up by NULs (`RingOK`): one lies before `histptr`, and from any index
  the next is at most `LINESIZE` steps away. Nothing in the code says the latter;
  without it the searches for a NUL need not end and a recalled line might not
  fit. It survives `addhist` because what it overwrites is cleared as far as the
  next NUL. `FitsAssumption` is what the source's sizes satisfy: room for two whole
  lines with their NULs.
  - The screen: each of insert, delete and backspace sends the text behind the
    cursor, a blank if that got shorter, and backspaces; lemmas about these three
    echoes give `Shows` again, cell by cell.
  - The yank: deletions by the character are loops. Carried through them is that
    the old line is the new one with the kill buffer put in at the cursor
    (`CutOut`, `Kills`), for loops forward and backward, which build the kill buffer
    from opposite ends. `yank` is a loop of `insert` that puts it back.
  - The history: recalling deletes the old line, again in a loop, and inserts
    the line at `histcur` up to its NUL. Away from the last element of the ring
    `fetch_from_history` steps as the ring does, which is why the theorem has
    that premise and the run `cmdline_recall` shows what happens without it.
- `RingAlways`: the ring holds the newest lines, whole and in order. `RingOK` says
  only that lines stay apart; this invariant, `RingInv`, follows every line from
  entering to being overwritten. Read from `histptr` on, the ring holds lines at
  increasing offsets, each up to its NUL, with NULs between them and the last one
  ending at `histptr` (`Laid`); they are the last of the lines that ought to be
  kept (`Ends`), and not all of them only if there is at least one. While a line
  is pending there are two, unless all are there, since taking one back must
  leave one; and a line is pending only while a line of the history is shown,
  which is what decides when `recall` enters or takes back (`RingKeeps`).
  - Writing a line (`WriteLays`) shifts the offsets, and drops the lines that it
    runs into up to the next NUL. The last line survives because
    the ring holds two whole ones (`FitsAssumption`).
  - Taking back (`TakeBackLays`) steps back over NULs and then over what is not
    NUL. `LineBeforeIsLast`: what it finds is the pending line and no more.
  - The property lists the lines by sorting the places where lines begin.
    `InOrderIs` says that this gives any sequence of these places that is in
    order, by counting, for each of them, those before it.
- `LineIsCut`, `ArgumentsAlways`: a line of any characters and any length is cut
  into its words, for any number of pointers (`MaxArgvAssumption`: at least one);
  and the editor's line is such a line, whatever keys have made it
  (`EditorSteps`).
  `execute` writes into the line it reads, so what has to be shown is that q, where
  it writes, never passes p, where it reads. The invariant of its loop (`ReadTo`):
  behind p the buffer is as it was typed (`Unread`); the pointers are to the words
  that begin up to p, in order, as far as there is room (`Pointed`); from each pointer but
  the last on stands the text of its argument, and a NUL behind it (`AllEnded`);
  the one under way has its text so far from its pointer up to q (`Going`,
  `Gathered`); the quote and the escape are what `Open` and `Escaped`
  say of that place, both functions of the places before (`OpenIs`, `KindIs`).
  There is a lemma for each kind of character that may come next (`ReadsBlanks`,
  `ReadsBeginning`, `ReadsArgument`, `ReadsRest`).
  `LineIsRead` takes it to the end of the line; what remains is that the texts in the
  buffer are the words that the reference picks out of the line as typed.
- `DigitIsAddedExactly`: the test before a digit compares with a quotient; for a
  long of any width and any base it is exact, on both sides (`BeyondQuotient`).
  TLC reads numbers of 8 bits.
- How induction is done (`Induction`): the library's induction theorems have a
  predicate as a parameter, which the provers cannot instantiate. Its fact that
  the order of the natural numbers is well-founded has none; from it follows that
  a set of numbers that has one has a least (`LeastNumber`), and from that
  `Induction`, about a set of numbers instead of a predicate. The same serves for
  recursive functions (`PrefixRecursion`) and folds: a fold of n steps is the last
  value of a chain in which each step leads to the next value (`FoldExists`,
  `FoldSteps`). Every loop above is reasoned about as such a chain.

Only model-checked:

- all liveness (`BroadcastIsDelivered`, `ClosedSlotsAreReaped`, `BytesAreHandled`,
  `InterruptSettles`, `RowsAreLit`, `PatternIsShown`): fairness and ENABLED are
  beyond the prover;
- `NumbersAreRead`, `NumbersArePrinted`: what the loops of strtol and kprintn make of
  a whole number. They are stated with powers of the base, of which the provers
  know nothing but the name, and with a sum over a set. The step that could
  overflow is proved (`DigitIsAddedExactly`);
- the violations, which are about one counterexample each.

## 6. Not modelled, and what could follow

- `Wifi`: the event callback's only state is `wifi_connected`, which `Serial` has;
  the rest of it writes log lines. SNTP and the listeners are set up once and read
  by the SDK only.
- A bridge of serial path, command line and client table in one module: what it
  would add are a half typed line that survives a connection, bytes beyond a full
  queue and the byte 255. The repository promises nothing about them, so that a
  property could only repeat the code; each is listed as a hazard.
- Syslog: formatted text that nobody reads back; its fixed buffer and kept
  pointer are listed as hazards.
- Register layouts, busy-waiting transmit, pins and clocks, the font and the
  functions of `led8x8.c` without a caller, `%s`, `%c` and the walk over a format,
  printenv, help, and what `d` finds in memory.

What could follow: the two remaining safety properties as theorems, by `Induction` on
the text of `Numbers`, with powers as a recursive function; a telnet client that keeps the protocol,
composed with `Telnet`, to show that negotiation comes to rest; the composition
of recvTask with several slots of `NetClient`.
