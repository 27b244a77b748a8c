----------------------------- MODULE NetClient -----------------------------
(***************************************************************************)
(* user/netclient.c and the TCP callbacks of user/user_main.c: the table   *)
(* of client slots, the sessions of the SDK that the slots point to, and   *)
(* the hand-over of queued bytes to espconn_sent, one chunk at a time,     *)
(* each sent callback starting the next.                                   *)
(*                                                                         *)
(* The SDK runs one callback at a time to its end, so a callback is one    *)
(* action.  A session, struct espconn, belongs to the SDK and is modelled  *)
(* from how the callbacks use it.  A slot's fifo is the queue that fifo.c  *)
(* is proved to implement; how much one fifo_getbulk lends is left open.   *)
(* An item of it is what one netout call queues.                           *)
(***************************************************************************)
EXTENDS Integers, Sequences, FiniteSets

CONSTANTS
    MAXCLIENT,      \* slots in the table
    Conn,           \* the addresses the SDK may give a struct espconn
    NULL,           \* no address
    FIFO_BUFSIZE,   \* items a slot's queue holds
    Serial,         \* what the serial line sends to all telnet clients
    Yes,            \* the answer to an inquiry, or "reply" if nobody follows it
    Once,           \* bound: items queued at most once, to follow one of them
    Resets          \* the addresses whose sessions may end in a reset

ASSUME SlotAssumption == MAXCLIENT \in Nat
ASSUME ConnAssumption == NULL \notin Conn
ASSUME BufsizeAssumption == FIFO_BUFSIZE \in Nat /\ FIFO_BUFSIZE > 0
ASSUME SerialAssumption == Serial \cap {"reply", Yes, "hello"} = {}
ASSUME ResetsAssumption == Resets \subseteq Conn

VARIABLES
    netclients,     \* the table of slots
    session,        \* the SDK's side of every struct espconn
    used            \* the items of Once that have been queued

vars == <<netclients, session, used>>

INSTANCE QueueOps WITH Capacity <- FIFO_BUFSIZE

Slots == 1..MAXCLIENT
TELNET == 23
HTTP == 80

Item == Serial \cup {"reply", Yes, "hello"}

Netclient ==
    [espconn : Conn \cup {NULL}, local_port : {TELNET, HTTP},
     sending : BOOLEAN, telopt_sent : BOOLEAN, fifo : Seq(Item)]

(* state: espconn->state, NONE when the SDK is done with the session.
   registered: the callbacks are ours.  pending: sent callbacks still owed.
   closing: espconn_disconnect was called.  lost: espconn_sent refused a
   chunk that had already left the queue. *)
Session ==
    [state : {"NONE", "CONNECT", "CLOSE"}, registered : BOOLEAN,
     pending : Nat, closing : BOOLEAN, lost : BOOLEAN]

NoSession == [state |-> "NONE", registered |-> FALSE, pending |-> 0,
              closing |-> FALSE, lost |-> FALSE]

-----------------------------------------------------------------------------

(* The slot with no session, and the one a new session gets. *)
FreeSlot == [espconn |-> NULL, local_port |-> TELNET, sending |-> FALSE,
             telopt_sent |-> FALSE, fifo |-> << >>]

netclient_init_espconn(c, port) ==
    [FreeSlot EXCEPT !.espconn = c, !.local_port = port]

(* Both searches of the table return the first slot with the address. *)
IsFirst(s, c) ==
    /\ netclients[s].espconn = c
    /\ \A t \in Slots : t < s => netclients[t].espconn # c

(* netclient_lookup_by_espconn finds s. *)
Lookup(c, s) == IsFirst(s, c)

(* netclient_alloc_instance finds s. *)
Alloc(s) == IsFirst(s, NULL)

IsOpen(sn) == sn.state = "CONNECT"
Open(c) == IsOpen(session[c])

(* Mutant of espconn_sent: the callers leave out espconn_disconnect. *)
espconn_sent_unanswered(sn, n, refused) ==
    [sn EXCEPT !.pending = @ + n, !.lost = @ \/ (IsOpen(sn) /\ refused)]

(* The session after espconn_sent took n chunks, and refused one or none.  A
   refusal is answered with espconn_disconnect; on a session that is over both
   calls do nothing. *)
espconn_sent(sn, n, refused) ==
    [sn EXCEPT !.pending = @ + n,
               !.closing = @ \/ (IsOpen(sn) /\ refused),
               !.lost = @ \/ (IsOpen(sn) /\ refused)]

-----------------------------------------------------------------------------

Init ==
    /\ netclients = [s \in Slots |-> FreeSlot]
    /\ session = [c \in Conn |-> NoSession]
    /\ used = {}

(* A client connects: it gets the first free slot, or is turned away. *)
tcp_connectcb(c, port) ==
    /\ session[c].state = "NONE"
    /\ \/ \E s \in Slots :
            /\ Alloc(s)
            /\ netclients' = [netclients EXCEPT ![s] = netclient_init_espconn(c, port)]
            /\ session' = [session EXCEPT ![c] =
                    [NoSession EXCEPT !.state = "CONNECT", !.registered = TRUE]]
       \/ /\ \A s \in Slots : ~Alloc(s)
          /\ session' = [session EXCEPT ![c] =
                    [NoSession EXCEPT !.state = "CONNECT", !.closing = TRUE]]
          /\ UNCHANGED netclients
    /\ UNCHANGED used

(* Mutant of netout: no limit. *)
netout_unbounded(nc, items) == [nc EXCEPT !.fifo = @ \o items]

(* netout: the slot with the items queued, as far as they fit. *)
netout(nc, items) == [nc EXCEPT !.fifo = Push(@, items)]

(* Mutant of Starts: the flag is not looked at. *)
Starts_always(nc) == nc.fifo # << >>

(* netout_flush hands over a chunk only when no chunk is under way. *)
Starts(nc) == nc.fifo # << >> /\ ~nc.sending

(* netout_flush on the slots of f, whose netout calls left the table as tab.
   espconn_sent refuses the chunks of the slots in refused: any it likes, and
   those of a session that is over. *)
netout_flush(tab, f) ==
    LET starts == {s \in f : Starts(tab[s])}
        To(c) == {s \in starts : tab[s].espconn = c}
    IN  \E refused \in SUBSET starts, k \in [starts -> 1..FIFO_BUFSIZE] :
            /\ \A s \in starts :
                    /\ k[s] <= Len(tab[s].fifo)
                    /\ s \notin refused => Open(tab[s].espconn)
            /\ netclients' = [s \in Slots |->
                    IF s \in starts
                    THEN [tab[s] EXCEPT !.sending = TRUE, !.fifo = Drop(@, k[s])]
                    ELSE tab[s]]
            /\ session' = [c \in Conn |->
                    espconn_sent(session[c], Cardinality(To(c) \ refused),
                                 To(c) \cap refused # {})]

(* The bound on the items of Once. *)
MayQueue(items) ==
    LET once == {items[i] : i \in DOMAIN items} \cap Once
    IN  once \cap used = {} /\ used' = used \cup once

(* A command that opens the negotiation: this end adds its own offers. *)
Negotiates(nc, command) == command \in {"WILL/DO", "WONT/DONT"} /\ ~nc.telopt_sent

(* What one command of the client makes telnet_recv queue.  Only the offers are
   followed by a netout_flush. *)
Replies(nc, command) ==
    (CASE command = "AYT" -> <<Yes>>
       [] command = "WILL/DO" -> <<"reply">>
       [] command \in {"text", "WONT/DONT"} -> << >>)
    \o (IF Negotiates(nc, command) THEN <<"reply", "reply">> ELSE << >>)

(* The slot after telnet_recv has read one command. *)
telnet_recv(nc, command) ==
    [netout(nc, Replies(nc, command)) EXCEPT
        !.telopt_sent = @ \/ Negotiates(nc, command)]

(* Data from a client: telnet_recv on one port, a greeting on the other. *)
tcp_recvcb(c, command) ==
    /\ Open(c) /\ session[c].registered
    /\ \E s \in Slots :
        /\ Lookup(c, s)
        /\ \/ /\ netclients[s].local_port = TELNET
              /\ MayQueue(Replies(netclients[s], command))
              /\ netout_flush(
                    [netclients EXCEPT ![s] = telnet_recv(@, command)],
                    IF Negotiates(netclients[s], command) THEN {s} ELSE {})
           \/ /\ netclients[s].local_port = HTTP
              /\ netout_flush([netclients EXCEPT ![s] = netout(@, <<"hello">>)], {s})
              /\ UNCHANGED used

(* The sent callback: the next chunk, or nothing under way any more. *)
tcp_sentcb(c) ==
    /\ Open(c) /\ session[c].registered /\ session[c].pending > 0
    /\ \E s \in Slots :
        /\ Lookup(c, s)
        /\ \/ /\ netclients[s].fifo = << >>
              /\ netclients' = [netclients EXCEPT ![s].sending = FALSE]
              /\ session' = [session EXCEPT ![c].pending = @ - 1]
           \/ \E k \in 1..Len(netclients[s].fifo), taken \in BOOLEAN :
              /\ netclients' = [netclients EXCEPT ![s].fifo = Drop(@, k)]
              /\ session' = [session EXCEPT ![c] =
                    espconn_sent(@, IF taken THEN 0 ELSE -1, ~taken)]
    /\ UNCHANGED used

TelnetClients == {s \in Slots : /\ netclients[s].espconn # NULL
                                 /\ netclients[s].local_port = TELNET}

(* Mutant of netout_broadcast_byport: nothing is flushed. *)
netout_broadcast_unflushed(item) ==
    /\ MayQueue(<<item>>)
    /\ netout_flush([s \in Slots |->
                        IF s \in TelnetClients THEN netout(netclients[s], <<item>>)
                        ELSE netclients[s]],
                    {})

(* recvTask broadcasts what the serial line received. *)
netout_broadcast_byport(item) ==
    /\ MayQueue(<<item>>)
    /\ netout_flush([s \in Slots |->
                        IF s \in TelnetClients THEN netout(netclients[s], <<item>>)
                        ELSE netclients[s]],
                    TelnetClients)

(* The session ends: the client closed it, it timed out, or espconn_disconnect
   took effect.  The disconnect callback is owed from here on. *)
Close(c) ==
    /\ Open(c)
    /\ session' = [session EXCEPT ![c].state = "CLOSE", ![c].pending = 0]
    /\ UNCHANGED <<netclients, used>>

(* The slots whose session is over. *)
Dead(s) == /\ netclients[s].espconn # NULL
           /\ session[netclients[s].espconn].state \in {"NONE", "CLOSE"}

(* Mutants of netclient_espconn_reaper: every slot is reaped, or only the first
   dead one. *)
netclient_espconn_reaper_all ==
    netclients' = [s \in Slots |-> [netclients[s] EXCEPT !.espconn = NULL]]
netclient_espconn_reaper_first ==
    netclients' = [s \in Slots |->
        IF Dead(s) /\ \A t \in Slots : t < s => ~Dead(t)
        THEN [netclients[s] EXCEPT !.espconn = NULL] ELSE netclients[s]]

netclient_espconn_reaper ==
    netclients' = [s \in Slots |->
        IF Dead(s) THEN [netclients[s] EXCEPT !.espconn = NULL] ELSE netclients[s]]

(* Mutant of tcp_disconnectcb: it only logs. *)
tcp_disconnectcb_unreaped(c) ==
    /\ session[c].state = "CLOSE"
    /\ session' = [session EXCEPT ![c] = NoSession]
    /\ UNCHANGED <<netclients, used>>

(* The disconnect callback reaps every dead slot, not just its session's; a
   session that was turned away has none.  Then the SDK is done with it. *)
tcp_disconnectcb(c) ==
    /\ session[c].state = "CLOSE"
    /\ IF session[c].registered THEN netclient_espconn_reaper
       ELSE UNCHANGED netclients
    /\ session' = [session EXCEPT ![c] = NoSession]
    /\ UNCHANGED used

(* The session is reset: the reconnect callback only logs. *)
tcp_reconnectcb(c) ==
    /\ c \in Resets /\ Open(c)
    /\ session' = [session EXCEPT ![c] = NoSession]
    /\ UNCHANGED <<netclients, used>>

Next ==
    \/ \E c \in Conn :
        \/ \E port \in {TELNET, HTTP} : tcp_connectcb(c, port)
        \/ \E command \in {"text", "AYT", "WILL/DO", "WONT/DONT"} : tcp_recvcb(c, command)
        \/ tcp_sentcb(c)
        \/ Close(c)
        \/ tcp_disconnectcb(c)
        \/ tcp_reconnectcb(c)
    \/ \E item \in Serial : netout_broadcast_byport(item)

(* The SDK calls the callbacks it owes and carries out espconn_disconnect. *)
Fairness ==
    \A c \in Conn :
        /\ WF_vars(tcp_sentcb(c))
        /\ WF_vars(session[c].closing /\ Close(c))
        /\ WF_vars(tcp_disconnectcb(c))

Spec == Init /\ [][Next]_vars
FairSpec == Spec /\ Fairness

-----------------------------------------------------------------------------
(* Properties *)

(* The table and the sessions stay in their ranges, queues within capacity. *)
TypeOK ==
    /\ netclients \in [Slots -> Netclient]
    /\ \A s \in Slots : Len(netclients[s].fifo) <= FIFO_BUFSIZE
    /\ session \in [Conn -> Session]
    /\ used \subseteq Once

Live(s) == netclients[s].espconn # NULL /\ Open(netclients[s].espconn)
SessionOf(s) == session[netclients[s].espconn]

(* The session of slot s cannot be reset: whatever happens to others, this one
   is served as it should be. *)
Spared(s) == netclients[s].espconn \notin Resets

(* A session with our callbacks on it always has a slot: the sent callback,
   which uses what the lookup returns unchecked, never gets NULL, although the
   disconnect callback of any other session may reap in between (tcp_sentcb,
   netclient_espconn_reaper). *)
SentcbFindsSlot ==
    \A c \in Conn : Open(c) /\ session[c].registered =>
        \E s \in Slots : netclients[s].espconn = c

(* The address identifies the session: a session has one slot at most, and no
   slot is left pointing at an address that the SDK gave to a session that was
   turned away (netclient_lookup_by_espconn, tcp_connectcb). *)
OneSlotPerSession ==
    \A s, t \in Slots :
        Live(s) /\ Spared(s) =>
            /\ SessionOf(s).registered
            /\ netclients[s].espconn = netclients[t].espconn => s = t

(* fifo_net_sending says the truth: it is set exactly while one chunk is with
   the SDK, so that the sent callback that continues or clears it will come, or
   after a refusal, when the session is about to be closed.  There are never
   two chunks with the SDK at once (netout_flush, tcp_sentcb). *)
SendingMeansUnderWay ==
    \A s \in Slots : Live(s) /\ Spared(s) =>
        /\ SessionOf(s).pending <= 1
        /\ netclients[s].sending <=> (SessionOf(s).pending = 1 \/ SessionOf(s).lost)

(* A refused chunk is gone from the queue.  Nothing is handed over after it, so
   a client sees a prefix of its stream and never a stream with a hole. *)
NothingAfterALoss ==
    \A s \in Slots : Live(s) /\ Spared(s) /\ SessionOf(s).lost =>
        SessionOf(s).pending = 0 /\ SessionOf(s).closing

(* Bytes of the serial line never wait unattended, whatever telnet_recv queued
   unflushed before them: the SDK has a chunk of the same session, whose callback
   will move them on, or that session is about to be closed because a chunk was
   refused (netout_broadcast_byport, netout_flush, tcp_sentcb). *)
SerialBytesMove ==
    \A s \in Slots : Live(s) /\ Spared(s) =>
        \A i \in 1..Len(netclients[s].fifo) : netclients[s].fifo[i] \in Serial =>
            SessionOf(s).pending > 0 \/ SessionOf(s).closing

(* Only sessions that are over lose their slot, and when a disconnect callback
   has run none of those has a slot left, whichever session it was for
   (netclient_espconn_reaper). *)
ReaperIsExact ==
    [][\A s \in Slots :
        /\ netclients'[s].espconn = NULL /\ netclients[s].espconn # NULL => Dead(s)
        /\ (\E c \in Conn : session[c].registered /\ tcp_disconnectcb(c)) => ~Dead(s)'
      ]_vars

Waits(s, item) == \E i \in 1..Len(netclients[s].fifo) : netclients[s].fifo[i] = item

(* A byte broadcast to a telnet client is handed to the SDK, or its session
   ends; a refused send does not leave it behind for ever. *)
BroadcastIsDelivered ==
    \A s \in Slots : Waits(s, "mark") /\ Spared(s) ~> (~Live(s) \/ ~Waits(s, "mark"))

(* "Are You There?" (telnet.c:272) is answered: the reply that recv_ayt queues
   reaches the client, or the session ends. *)
InquiryIsAnswered ==
    \A s \in Slots : Waits(s, Yes) ~> (~Live(s) \/ ~Waits(s, Yes))

(* The slot of a session that was closed is given back, by its own disconnect
   callback or by another one. *)
ClosedSlotsAreReaped ==
    \A s \in Slots : Dead(s) /\ Spared(s) ~> netclients[s].espconn = NULL

(* The slot of any session that is over is given back: "found disconnected
   espconn", "reap disconnected client info" (netclient.c:136, 142). *)
DeadSlotsAreReaped == \A s \in Slots : Dead(s) ~> netclients[s].espconn = NULL
=============================================================================
