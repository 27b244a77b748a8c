-------------------------- MODULE NetClientProofs --------------------------
(* The client table is sound for any number of slots, sessions and queued    *)
(* items, and for every address whose sessions are never reset, whatever the *)
(* resets of the others leave behind.                                        *)
EXTENDS NetClient, SequenceTheorems, FiniteSetTheorems, TLAPS

(* A write never makes a queue longer than its capacity, and what it appends
   comes from the string written. *)
LEMMA PushProperties ==
    ASSUME NEW S, NEW queue \in Seq(S), Len(queue) <= FIFO_BUFSIZE, NEW t \in Seq(S)
    PROVE  /\ Push(queue, t) \in Seq(S)
           /\ Len(Push(queue, t)) <= FIFO_BUFSIZE
           /\ \A i \in 1..Len(Push(queue, t)) :
                \/ i \in 1..Len(queue) /\ Push(queue, t)[i] = queue[i]
                \/ \E j \in 1..Len(t) : Push(queue, t)[i] = t[j]
<1> USE BufsizeAssumption
<1> DEFINE n == Least(Len(t), FIFO_BUFSIZE - Len(queue))
           p == SubSeq(t, 1, n)
<1>1. /\ Len(queue) \in Nat /\ Len(t) \in Nat
      /\ n \in 0..Len(t) /\ n \in Int /\ n >= 0 /\ Len(queue) + n <= FIFO_BUFSIZE
  BY DEF Least
<1> HIDE DEF n
<1>2. /\ p \in Seq(S)
      /\ Len(p) = n
      /\ \A i \in 1..n : p[i] = t[i]
  <2>1. \A i \in 1..n : t[i] \in S
    BY <1>1, ElementOfSeq
  <2> QED
    BY <1>1, <2>1, SubSeqProperties
<1>3. Push(queue, t) = queue \o p
  BY DEF Push, Fitting, n
<1> HIDE DEF p
<1>4. /\ queue \o p \in Seq(S)
      /\ Len(queue \o p) = Len(queue) + n
      /\ \A i \in 1..(Len(queue) + n) :
            (queue \o p)[i] = IF i <= Len(queue) THEN queue[i] ELSE p[i - Len(queue)]
  BY <1>1, <1>2, ConcatProperties
<1>5. ASSUME NEW i \in 1..(Len(queue) + n)
      PROVE  \/ i \in 1..Len(queue) /\ (queue \o p)[i] = queue[i]
             \/ \E j \in 1..Len(t) : (queue \o p)[i] = t[j]
  <2>1. CASE i <= Len(queue)
    BY <1>1, <1>4, <2>1
  <2>2. CASE ~(i <= Len(queue))
    <3>1. i - Len(queue) \in 1..n /\ i - Len(queue) \in 1..Len(t)
      BY <1>1, <2>2
    <3> QED
      BY <1>2, <1>4, <2>2, <3>1
  <2> QED
    BY <2>1, <2>2
<1>6. Len(queue \o p) <= FIFO_BUFSIZE
  BY <1>1, <1>4
<1> DEFINE r == queue \o p
<1> HIDE DEF r
<1> QED
  BY <1>3, <1>4, <1>5, <1>6 DEF r

(* Taking items from the front leaves a suffix. *)
LEMMA DropProperties ==
    ASSUME NEW S, NEW queue \in Seq(S), NEW n \in 1..Len(queue)
    PROVE  /\ Drop(queue, n) \in Seq(S)
           /\ Len(Drop(queue, n)) <= Len(queue)
           /\ \A i \in 1..Len(Drop(queue, n)) :
                \E j \in 1..Len(queue) : Drop(queue, n)[i] = queue[j]
<1> DEFINE d == SubSeq(queue, n + 1, Len(queue))
<1>1. Len(queue) \in Nat /\ n \in Nat
  OBVIOUS
<1>2. \A i \in (n + 1)..Len(queue) : queue[i] \in S
  BY <1>1, ElementOfSeq
<1>3. /\ d \in Seq(S)
      /\ Len(d) = Len(queue) - n
      /\ \A i \in 1..(Len(queue) - n) : d[i] = queue[n + i]
  BY <1>1, <1>2, SubSeqProperties
<1>4. \A i \in 1..(Len(queue) - n) : n + i \in 1..Len(queue)
  BY <1>1
<1> HIDE DEF d
<1>5. \A i \in 1..Len(d) : \E j \in 1..Len(queue) : d[i] = queue[j]
  BY <1>3, <1>4
<1>6. Len(d) <= Len(queue)
  BY <1>1, <1>3
<1> QED
  BY <1>3, <1>5, <1>6 DEF Drop, d

-----------------------------------------------------------------------------

(* A slot whose serial bytes have a chunk under way ahead of them. *)
Moves(nc) == \A i \in 1..Len(nc.fifo) : nc.fifo[i] \in Serial => nc.sending

Typed ==
    /\ netclients \in [Slots -> Netclient]
    /\ \A s \in Slots : Len(netclients[s].fifo) <= FIFO_BUFSIZE
    /\ session \in [Conn -> Session]

(* No slot points at a session the SDK is done with, or one turned away. *)
Owned ==
    \A s \in Slots : netclients[s].espconn # NULL /\ Spared(s) =>
        SessionOf(s).state # "NONE" /\ SessionOf(s).registered

Unique ==
    \A s, t \in Slots :
        netclients[s].espconn # NULL /\ Spared(s) =>
            (netclients[s].espconn = netclients[t].espconn => s = t)

(* The chunks with the SDK, the flag and the loss agree. *)
Agrees(nc, sn) ==
    /\ sn.pending <= 1
    /\ nc.sending <=> (sn.pending = 1 \/ sn.lost)
    /\ sn.lost => sn.pending = 0 /\ sn.closing

Pumping ==
    \A s \in Slots : Live(s) /\ Spared(s) => Agrees(netclients[s], SessionOf(s))

Moving == \A s \in Slots : Moves(netclients[s])

(* The inductive invariant.  The properties speak of live sessions only; that a
   session's address is not given out again while a slot holds it is what
   Owned and Unique add. *)
IInv == Typed /\ Owned /\ Unique /\ SentcbFindsSlot /\ Pumping /\ Moving

(* A table of free slots and no session satisfies it. *)
LEMMA InitEstablishes == Init => IInv
<1> SUFFICES ASSUME Init
             PROVE  IInv
  OBVIOUS
<1> USE BufsizeAssumption, ConnAssumption
<1>1. << >> \in Seq(Item) /\ Len(<< >>) = 0
  BY EmptySeq
<1>2. FreeSlot \in Netclient
  BY <1>1 DEF FreeSlot, Netclient
<1>3. NoSession \in Session
  BY DEF NoSession, Session
<1>4. Typed
  BY <1>1, <1>2, <1>3 DEF Init, Typed, FreeSlot
<1>5. \A s \in Slots : netclients[s].espconn = NULL
  BY DEF Init, FreeSlot
<1>6. \A c \in Conn : session[c].state = "NONE"
  BY DEF Init, NoSession
<1>7. Owned /\ Unique /\ Pumping
  BY <1>5 DEF Owned, Unique, Pumping, Live
<1>8. SentcbFindsSlot
  BY <1>6 DEF SentcbFindsSlot, Open, IsOpen
<1>9. Moving
  BY <1>1 DEF Moving, Moves, Init, FreeSlot
<1> QED
  BY <1>4, <1>7, <1>8, <1>9 DEF IInv

(* The session a live slot names, and nobody else's. *)
LEMMA LiveSlot ==
    ASSUME Typed, NEW s \in Slots, netclients[s].espconn # NULL
    PROVE  netclients[s].espconn \in Conn
<1> QED
  BY DEF Typed, Netclient

(* netout_flush hands over at most one chunk of each session, and only of one
   that had none under way: the flag, the callbacks owed and the losses agree
   afterwards, and what is left in a queue has a chunk ahead of it. *)
LEMMA FlushPreserves ==
    ASSUME IInv,
           NEW tab \in [Slots -> Netclient],
           NEW f \in SUBSET Slots,
           \A s \in Slots : /\ Len(tab[s].fifo) <= FIFO_BUFSIZE
                            /\ tab[s].espconn = netclients[s].espconn
                            /\ tab[s].sending <=> netclients[s].sending
                            /\ s \notin f => Moves(tab[s]),
           netout_flush(tab, f)
    PROVE  IInv'
<1> USE BufsizeAssumption, ConnAssumption
<1> DEFINE starts == {s \in f : Starts(tab[s])}
           To(c) == {s \in starts : tab[s].espconn = c}
<1>1. PICK refused \in SUBSET starts, k \in [starts -> 1..FIFO_BUFSIZE] :
        /\ \A s \in starts : /\ k[s] <= Len(tab[s].fifo)
                             /\ s \notin refused => Open(tab[s].espconn)
        /\ netclients' = [s \in Slots |->
                IF s \in starts
                THEN [tab[s] EXCEPT !.sending = TRUE, !.fifo = Drop(@, k[s])]
                ELSE tab[s]]
        /\ session' = [c \in Conn |->
                espconn_sent(session[c], Cardinality(To(c) \ refused),
                             To(c) \cap refused # {})]
  BY DEF netout_flush
<1> DEFINE N(c) == Cardinality(To(c) \ refused)
           R(c) == To(c) \cap refused # {}
<1>2. \A s \in starts : s \in f /\ tab[s].fifo # << >> /\ ~netclients[s].sending
  BY DEF Starts
<1>3. \A s \in Slots : /\ netclients[s].fifo \in Seq(Item) /\ tab[s].fifo \in Seq(Item)
                       /\ netclients[s].espconn \in Conn \cup {NULL}
                       /\ tab[s] \in Netclient
  BY DEF IInv, Typed, Netclient
<1>4. ASSUME NEW s \in starts
      PROVE  /\ Drop(tab[s].fifo, k[s]) \in Seq(Item)
             /\ Len(Drop(tab[s].fifo, k[s])) <= FIFO_BUFSIZE
  <2>1. k[s] \in 1..Len(tab[s].fifo)
    <3>1. k[s] \in 1..FIFO_BUFSIZE /\ k[s] <= Len(tab[s].fifo)
      BY <1>1
    <3>2. Len(tab[s].fifo) \in Nat
      BY <1>3
    <3> QED
      BY <3>1, <3>2
  <2>2. /\ Drop(tab[s].fifo, k[s]) \in Seq(Item)
        /\ Len(Drop(tab[s].fifo, k[s])) <= Len(tab[s].fifo)
    BY <1>3, <2>1, DropProperties
  <2>3. Len(tab[s].fifo) <= FIFO_BUFSIZE /\ Len(tab[s].fifo) \in Nat
    BY <1>3
  <2> QED
    BY <2>2, <2>3
<1>5. \A s \in Slots :
        /\ netclients'[s].espconn = netclients[s].espconn
        /\ netclients'[s].sending <=> (s \in starts \/ netclients[s].sending)
        /\ netclients'[s].fifo = IF s \in starts THEN Drop(tab[s].fifo, k[s])
                                 ELSE tab[s].fifo
        /\ netclients'[s] \in Netclient
  <2> SUFFICES ASSUME NEW s \in Slots
               PROVE  /\ netclients'[s].espconn = netclients[s].espconn
                      /\ netclients'[s].sending <=> (s \in starts \/ netclients[s].sending)
                      /\ netclients'[s].fifo = IF s \in starts
                                               THEN Drop(tab[s].fifo, k[s])
                                               ELSE tab[s].fifo
                      /\ netclients'[s] \in Netclient
    OBVIOUS
  <2>1. CASE s \in starts
    <3>1. netclients'[s] = [tab[s] EXCEPT !.sending = TRUE, !.fifo = Drop(@, k[s])]
      BY <1>1, <2>1
    <3>2. tab[s] \in Netclient
      OBVIOUS
    <3> QED
      BY <1>4, <2>1, <3>1, <3>2 DEF Netclient
  <2>2. CASE s \notin starts
    <3>1. netclients'[s] = tab[s]
      BY <1>1, <2>2
    <3> QED
      BY <2>2, <3>1
  <2> QED
    BY <2>1, <2>2
<1>6. \A s \in Slots : netclients[s].espconn \in Conn /\ Spared(s) =>
        To(netclients[s].espconn) = IF s \in starts THEN {s} ELSE {}
  BY <1>2, <1>3 DEF IInv, Unique, Spared
<1>7. \A c \in Conn : N(c) \in Nat
  <2> SUFFICES ASSUME NEW c \in Conn
               PROVE  N(c) \in Nat
    OBVIOUS
  <2>1. IsFiniteSet(Slots)
    BY SlotAssumption, FS_Interval DEF Slots
  <2>2. To(c) \ refused \subseteq Slots
    OBVIOUS
  <2> QED
    BY <2>1, <2>2, FS_Subset, FS_CardinalityType
<1>8. \A c \in Conn : session[c] \in Session
  BY DEF IInv, Typed
<1>9. \A c \in Conn :
        /\ session'[c].state = session[c].state
        /\ session'[c].registered <=> session[c].registered
        /\ session'[c].pending = session[c].pending + N(c)
        /\ session'[c].lost <=> (session[c].lost \/ (Open(c) /\ R(c)))
        /\ session'[c].closing <=> (session[c].closing \/ (Open(c) /\ R(c)))
        /\ session'[c] \in Session
  <2> SUFFICES ASSUME NEW c \in Conn
               PROVE  /\ session'[c].state = session[c].state
                      /\ session'[c].registered <=> session[c].registered
                      /\ session'[c].pending = session[c].pending + N(c)
                      /\ session'[c].lost <=> (session[c].lost \/ (Open(c) /\ R(c)))
                      /\ session'[c].closing <=> (session[c].closing \/ (Open(c) /\ R(c)))
                      /\ session'[c] \in Session
    OBVIOUS
  <2>1. session'[c] = espconn_sent(session[c], N(c), R(c))
    BY <1>1
  <2>2. session[c] \in Session /\ session[c].pending + N(c) \in Nat
    BY <1>7, <1>8 DEF Session
  <2> HIDE DEF N, R
  <2> QED
    BY <2>1, <2>2 DEF espconn_sent, Session, Open
<1>10. Typed'
  <2>1. netclients' \in [Slots -> Netclient]
    BY <1>1, <1>5
  <2>2. session' \in [Conn -> Session]
    BY <1>1, <1>9
  <2>3. \A s \in Slots : Len(netclients'[s].fifo) <= FIFO_BUFSIZE
    BY <1>4, <1>5
  <2> QED
    BY <2>1, <2>2, <2>3 DEF Typed
<1> HIDE DEF N, R
<1>11. \A s \in Slots : netclients[s].espconn # NULL => netclients[s].espconn \in Conn
  BY <1>3
<1>12. Owned'
  BY <1>5, <1>9, <1>11 DEF IInv, Owned, SessionOf, Spared
<1>13. Unique'
  BY <1>5 DEF IInv, Unique, Spared
<1>14. SentcbFindsSlot'
  BY <1>5, <1>9 DEF IInv, SentcbFindsSlot, Open, IsOpen
<1>15. Pumping'
  <2> SUFFICES ASSUME NEW s \in Slots, Live(s)', Spared(s)'
               PROVE  Agrees(netclients[s], SessionOf(s))'
    BY DEF Pumping
  <2> DEFINE c == netclients[s].espconn
  <2>1. c # NULL /\ c \in Conn /\ netclients'[s].espconn = c
    BY <1>5, <1>11 DEF Live
  <2>2. Open(c) /\ Live(s) /\ Spared(s)
    BY <1>9, <2>1 DEF Live, Open, IsOpen, Spared
  <2>3. Agrees(netclients[s], session[c])
    BY <2>2 DEF IInv, Pumping, SessionOf
  <2>4. session[c].pending \in Nat /\ session[c].lost \in BOOLEAN
    BY <1>8, <2>1 DEF Session
  <2> HIDE DEF c
  <2>5. CASE s \in starts
    <3>1. ~netclients[s].sending /\ session[c].pending = 0 /\ ~session[c].lost
      BY <1>2, <2>3, <2>4, <2>5 DEF Agrees
    <3>2. To(c) = {s}
      BY <1>6, <2>1, <2>2, <2>5 DEF c
    <3>3. CASE s \in refused
      <4>1. N(c) = 0 /\ R(c)
        <5>1. To(c) \ refused = {}
          BY <3>2, <3>3
        <5> QED
          BY <3>2, <3>3, <5>1, FS_EmptySet DEF N, R
      <4>2. session'[c].pending = 0 /\ session'[c].lost /\ session'[c].closing
        BY <1>9, <2>1, <2>2, <3>1, <4>1
      <4> QED
        BY <1>5, <2>1, <2>5, <4>2 DEF Agrees, SessionOf
    <3>4. CASE s \notin refused
      <4>1. N(c) = 1 /\ ~R(c)
        <5>1. To(c) \ refused = {s} /\ To(c) \cap refused = {}
          BY <3>2, <3>4
        <5> QED
          BY <5>1, FS_Singleton DEF N, R
      <4>2. session'[c].pending = 1 /\ ~session'[c].lost
        BY <1>9, <2>1, <3>1, <4>1
      <4> QED
        BY <1>5, <2>1, <2>5, <4>2 DEF Agrees, SessionOf
    <3> QED
      BY <3>3, <3>4
  <2>6. CASE s \notin starts
    <3>1. To(c) = {}
      BY <1>6, <2>1, <2>2, <2>6 DEF c
    <3>2. N(c) = 0 /\ ~R(c)
      <4>1. To(c) \ refused = {} /\ To(c) \cap refused = {}
        BY <3>1
      <4> QED
        BY <4>1, FS_EmptySet DEF N, R
    <3>3. /\ session'[c].pending = session[c].pending
          /\ session'[c].lost <=> session[c].lost
          /\ session'[c].closing <=> session[c].closing
      BY <1>8, <1>9, <2>1, <2>4, <3>2 DEF Session
    <3> QED
      BY <1>5, <2>1, <2>3, <2>6, <3>3 DEF Agrees, SessionOf
  <2> QED
    BY <2>5, <2>6
<1>16. Moving'
  <2> SUFFICES ASSUME NEW s \in Slots
               PROVE  Moves(netclients'[s])
    BY DEF Moving, Moves
  <2>1. CASE s \in starts
    BY <1>5, <2>1 DEF Moves
  <2>2. CASE s \in f \ starts
    <3>1. tab[s].fifo = << >> \/ tab[s].sending
      BY <2>2 DEF Starts
    <3> QED
      BY <1>5, <2>2, <3>1, EmptySeq DEF Moves
  <2>3. CASE s \notin f
    BY <1>5, <2>3 DEF Moves
  <2> QED
    BY <2>1, <2>2, <2>3
<1> QED
  BY <1>10, <1>12, <1>13, <1>14, <1>15, <1>16 DEF IInv

(* tcp_connectcb gives the session a slot that no session holds, at an address
   that no slot holds unless a reset left it there. *)
LEMMA ConnectPreserves ==
    ASSUME IInv, NEW c \in Conn, NEW port \in {TELNET, HTTP}, tcp_connectcb(c, port)
    PROVE  IInv'
<1> USE BufsizeAssumption, ConnAssumption
<1>1. session[c].state = "NONE" /\ c # NULL
  BY DEF tcp_connectcb
<1>2. \A s \in Slots : Spared(s) => netclients[s].espconn # c
  BY <1>1 DEF IInv, Owned, SessionOf
<1>3. \A s \in Slots : netclients[s].espconn # NULL => netclients[s].espconn \in Conn
  BY DEF IInv, Typed, Netclient
<1>4. session \in [Conn -> Session]
  BY DEF IInv, Typed
<1>5. CASE \E s \in Slots : Alloc(s)
  <2>1. PICK s \in Slots :
            /\ netclients[s].espconn = NULL
            /\ netclients' = [netclients EXCEPT ![s] = netclient_init_espconn(c, port)]
            /\ session' = [session EXCEPT ![c] =
                    [NoSession EXCEPT !.state = "CONNECT", !.registered = TRUE]]
    BY <1>5 DEF tcp_connectcb, Alloc, IsFirst
  <2> DEFINE nc == netclient_init_espconn(c, port)
             sn == [NoSession EXCEPT !.state = "CONNECT", !.registered = TRUE]
  <2>2. /\ nc \in Netclient
        /\ nc.espconn = c /\ nc.fifo = << >> /\ ~nc.sending
    BY EmptySeq DEF netclient_init_espconn, FreeSlot, Netclient, TELNET
  <2>3. /\ sn \in Session
        /\ sn.state = "CONNECT" /\ sn.registered /\ sn.pending = 0 /\ ~sn.lost
    BY DEF NoSession, Session
  <2> HIDE DEF nc, sn
  <2>4. \A t \in Slots : netclients'[t] = IF t = s THEN nc ELSE netclients[t]
    BY <2>1 DEF IInv, Typed, nc
  <2>5. \A d \in Conn : session'[d] = IF d = c THEN sn ELSE session[d]
    BY <1>4, <2>1 DEF sn
  <2>6. Typed'
    <3>1. netclients' \in [Slots -> Netclient] /\ session' \in [Conn -> Session]
      BY <1>4, <2>1, <2>2, <2>3 DEF IInv, Typed, nc, sn
    <3>2. \A t \in Slots : Len(netclients'[t].fifo) <= FIFO_BUFSIZE
      BY <2>2, <2>4, EmptySeq DEF IInv, Typed
    <3> QED
      BY <3>1, <3>2 DEF Typed
  <2>7. Owned'
    <3> SUFFICES ASSUME NEW t \in Slots, netclients'[t].espconn # NULL, Spared(t)'
                 PROVE  SessionOf(t)'.state # "NONE" /\ SessionOf(t)'.registered
      BY DEF Owned
    <3> QED
      BY <1>2, <1>3, <2>2, <2>3, <2>4, <2>5 DEF IInv, Owned, SessionOf, Spared
  <2>8. Unique'
    BY <1>2, <2>2, <2>4 DEF IInv, Unique, Spared
  <2>9. SentcbFindsSlot'
    <3> SUFFICES ASSUME NEW d \in Conn, Open(d)', session'[d].registered
                 PROVE  \E t \in Slots : netclients'[t].espconn = d
      BY DEF SentcbFindsSlot
    <3>1. CASE d = c
      BY <2>2, <2>4, <3>1
    <3>2. CASE d # c
      <4>1. PICK t \in Slots : netclients[t].espconn = d
        BY <2>5, <3>2 DEF IInv, SentcbFindsSlot, Open, IsOpen
      <4>2. t # s
        BY <2>1, <4>1
      <4> QED
        BY <2>4, <4>1, <4>2
    <3> QED
      BY <3>1, <3>2
  <2>10. Pumping'
    <3> SUFFICES ASSUME NEW t \in Slots, Live(t)', Spared(t)'
                 PROVE  Agrees(netclients[t], SessionOf(t))'
      BY DEF Pumping
    <3>1. CASE t = s
      BY <2>2, <2>3, <2>4, <2>5, <3>1 DEF Agrees, SessionOf
    <3>2. CASE t # s
      <4>1. netclients'[t] = netclients[t]
        BY <2>4, <3>2
      <4>2. session'[netclients[t].espconn] = session[netclients[t].espconn]
        BY <1>2, <1>3, <2>5, <4>1 DEF Live, Spared
      <4>3. Live(t) /\ Spared(t)
        BY <4>1, <4>2 DEF Live, Open, Spared
      <4> QED
        BY <4>1, <4>2, <4>3 DEF IInv, Pumping, SessionOf, Agrees
    <3> QED
      BY <3>1, <3>2
  <2>11. Moving'
    BY <2>2, <2>4, EmptySeq DEF IInv, Moving, Moves
  <2> QED
    BY <2>6, <2>7, <2>8, <2>9, <2>10, <2>11 DEF IInv
<1>6. CASE ~(\E s \in Slots : Alloc(s))
  <2>1. /\ netclients' = netclients
        /\ session' = [session EXCEPT ![c] =
                [NoSession EXCEPT !.state = "CONNECT", !.closing = TRUE]]
    BY <1>6 DEF tcp_connectcb
  <2> DEFINE sn == [NoSession EXCEPT !.state = "CONNECT", !.closing = TRUE]
  <2>2. sn \in Session /\ ~sn.registered
    BY DEF NoSession, Session
  <2> HIDE DEF sn
  <2>3. \A d \in Conn : session'[d] = IF d = c THEN sn ELSE session[d]
    BY <1>4, <2>1 DEF sn
  <2>4. Typed'
    BY <1>4, <2>1, <2>2 DEF IInv, Typed, sn
  <2>5. \A s \in Slots : netclients[s].espconn # NULL /\ Spared(s) =>
            session'[netclients[s].espconn] = session[netclients[s].espconn]
    BY <1>2, <1>3, <2>3
  <2>6. Owned' /\ Unique' /\ Moving'
    BY <2>1, <2>5 DEF IInv, Owned, Unique, Moving, Moves, SessionOf, Spared
  <2>7. SentcbFindsSlot'
    BY <2>1, <2>2, <2>3 DEF IInv, SentcbFindsSlot, Open, IsOpen
  <2>8. Pumping'
    BY <2>1, <2>5 DEF IInv, Pumping, Live, Open, SessionOf, Agrees, Spared
  <2> QED
    BY <2>4, <2>6, <2>7, <2>8 DEF IInv
<1> QED
  BY <1>5, <1>6

(* Queueing leaves a slot in range, its session and its flag alone. *)
LEMMA NetoutProperties ==
    ASSUME NEW nc \in Netclient, Len(nc.fifo) <= FIFO_BUFSIZE, NEW items \in Seq(Item)
    PROVE  /\ netout(nc, items) \in Netclient
           /\ Len(netout(nc, items).fifo) <= FIFO_BUFSIZE
           /\ netout(nc, items).espconn = nc.espconn
           /\ netout(nc, items).sending <=> nc.sending
           /\ (\A j \in 1..Len(items) : items[j] \notin Serial) /\ Moves(nc)
                    => Moves(netout(nc, items))
<1> DEFINE p == Push(nc.fifo, items)
<1>1. nc.fifo \in Seq(Item)
  BY DEF Netclient
<1>2. /\ p \in Seq(Item)
      /\ Len(p) <= FIFO_BUFSIZE
      /\ \A i \in 1..Len(p) :
            \/ i \in 1..Len(nc.fifo) /\ p[i] = nc.fifo[i]
            \/ \E j \in 1..Len(items) : p[i] = items[j]
  BY <1>1, PushProperties
<1> HIDE DEF p
<1>3. netout(nc, items) = [nc EXCEPT !.fifo = p]
  BY DEF netout, p
<1>4. /\ netout(nc, items) \in Netclient
      /\ netout(nc, items).fifo = p
      /\ netout(nc, items).espconn = nc.espconn
      /\ netout(nc, items).sending <=> nc.sending
  BY <1>2, <1>3 DEF Netclient
<1>5. (\A j \in 1..Len(items) : items[j] \notin Serial) /\ Moves(nc)
          => Moves(netout(nc, items))
  BY <1>2, <1>4 DEF Moves
<1> QED
  BY <1>2, <1>4, <1>5

(* What is queued unflushed for a command is never serial data. *)
LEMMA RepliesAreItems ==
    ASSUME NEW nc \in Netclient, NEW command \in {"text", "AYT", "WILL/DO", "WONT/DONT"}
    PROVE  /\ Replies(nc, command) \in Seq(Item)
           /\ \A j \in 1..Len(Replies(nc, command)) : Replies(nc, command)[j] \notin Serial
<1> DEFINE Reply == {"reply", Yes}
           answer == CASE command = "AYT" -> <<Yes>>
                       [] command = "WILL/DO" -> <<"reply">>
                       [] command \in {"text", "WONT/DONT"} -> << >>
           offers == IF Negotiates(nc, command) THEN <<"reply", "reply">> ELSE << >>
<1>1. answer \in Seq(Reply)
  <2>1. <<Yes>> \in Seq(Reply) /\ <<"reply">> \in Seq(Reply) /\ << >> \in Seq(Reply)
    OBVIOUS
  <2>2. CASE command = "AYT"
    BY <2>1, <2>2
  <2>3. CASE command = "WILL/DO"
    BY <2>1, <2>3
  <2>4. CASE command \in {"text", "WONT/DONT"}
    BY <2>1, <2>4
  <2> QED
    BY <2>2, <2>3, <2>4
<1>2. offers \in Seq(Reply)
  <2>1. <<"reply", "reply">> \in Seq(Reply) /\ << >> \in Seq(Reply)
    OBVIOUS
  <2> QED
    BY <2>1
<1>3. Replies(nc, command) = answer \o offers
  BY DEF Replies
<1> HIDE DEF answer, offers
<1>4. Replies(nc, command) \in Seq(Reply)
  BY <1>1, <1>2, <1>3, ConcatProperties
<1>5. Reply \subseteq Item /\ Reply \cap Serial = {}
  BY SerialAssumption DEF Item
<1>6. Replies(nc, command) \in Seq(Item)
  BY <1>4, <1>5, SeqMonotonic
<1>7. \A j \in 1..Len(Replies(nc, command)) : Replies(nc, command)[j] \in Reply
  BY <1>4, ElementOfSeq
<1> QED
  BY <1>5, <1>6, <1>7

(* What a client sends, and the replies that telnet_recv queues and flushes. *)
LEMMA RecvPreserves ==
    ASSUME IInv, NEW c \in Conn,
           NEW command \in {"text", "AYT", "WILL/DO", "WONT/DONT"},
           tcp_recvcb(c, command)
    PROVE  IInv'
<1> USE BufsizeAssumption
<1>1. PICK s \in Slots :
        \/ /\ netclients[s].local_port = TELNET
           /\ netout_flush(
                [netclients EXCEPT ![s] = telnet_recv(@, command)],
                IF Negotiates(netclients[s], command) THEN {s} ELSE {})
        \/ netout_flush([netclients EXCEPT ![s] = netout(@, <<"hello">>)], {s})
  BY DEF tcp_recvcb
<1>2. /\ netclients \in [Slots -> Netclient]
      /\ \A t \in Slots : Len(netclients[t].fifo) <= FIFO_BUFSIZE /\ Moves(netclients[t])
  BY DEF IInv, Typed, Moving
<1> DEFINE nc == netclients[s]
<1>3. nc \in Netclient
  BY <1>2
<1>4. CASE /\ netclients[s].local_port = TELNET
           /\ netout_flush(
                [netclients EXCEPT ![s] = telnet_recv(@, command)],
                IF Negotiates(netclients[s], command) THEN {s} ELSE {})
  <2> DEFINE r == netout(nc, Replies(nc, command))
             new == telnet_recv(nc, command)
             tab == [netclients EXCEPT ![s] = telnet_recv(@, command)]
             f == IF Negotiates(nc, command) THEN {s} ELSE {}
  <2>1. /\ r \in Netclient
        /\ Len(r.fifo) <= FIFO_BUFSIZE
        /\ r.espconn = nc.espconn
        /\ r.sending <=> nc.sending
        /\ Moves(r)
    BY <1>2, <1>3, NetoutProperties, RepliesAreItems
  <2>2. Negotiates(nc, command) \in BOOLEAN
    BY DEF Negotiates
  <2>3. netout_flush(tab, f)
    BY <1>4
  <2>4. new = [r EXCEPT !.telopt_sent = @ \/ Negotiates(nc, command)]
    BY DEF telnet_recv
  <2> HIDE DEF r
  <2>5. /\ new \in Netclient
        /\ new.fifo = r.fifo
        /\ new.espconn = r.espconn
        /\ new.sending <=> r.sending
    BY <2>1, <2>2, <2>4 DEF Netclient
  <2> HIDE DEF new
  <2>6. Moves(new)
    BY <2>1, <2>5 DEF Moves
  <2>7. /\ \A t \in Slots : tab[t] = IF t = s THEN new ELSE netclients[t]
        /\ tab \in [Slots -> Netclient]
    BY <1>2, <2>5 DEF new
  <2>8. f \in SUBSET Slots
    OBVIOUS
  <2> HIDE DEF tab, f
  <2>9. \A t \in Slots : /\ Len(tab[t].fifo) <= FIFO_BUFSIZE
                         /\ tab[t].espconn = netclients[t].espconn
                         /\ tab[t].sending <=> netclients[t].sending
                         /\ Moves(tab[t])
    BY <1>2, <2>1, <2>5, <2>6, <2>7
  <2> QED
    BY <2>3, <2>7, <2>8, <2>9, FlushPreserves
<1>5. CASE netout_flush([netclients EXCEPT ![s] = netout(@, <<"hello">>)], {s})
  <2> DEFINE new == netout(nc, <<"hello">>)
             tab == [netclients EXCEPT ![s] = new]
  <2>1. <<"hello">> \in Seq(Item)
    BY DEF Item
  <2>2. /\ new \in Netclient
        /\ Len(new.fifo) <= FIFO_BUFSIZE
        /\ new.espconn = nc.espconn
        /\ new.sending <=> nc.sending
    BY <1>2, <1>3, <2>1, NetoutProperties
  <2>3. netout_flush(tab, {s})
    BY <1>5
  <2> HIDE DEF new
  <2>4. tab \in [Slots -> Netclient] /\ {s} \in SUBSET Slots
    BY <1>2, <2>2
  <2>5. \A t \in Slots : /\ Len(tab[t].fifo) <= FIFO_BUFSIZE
                         /\ tab[t].espconn = netclients[t].espconn
                         /\ tab[t].sending <=> netclients[t].sending
                         /\ t \notin {s} => Moves(tab[t])
    BY <1>2, <2>2
  <2> HIDE DEF tab
  <2> QED
    BY <2>3, <2>4, <2>5, FlushPreserves
<1> QED
  BY <1>1, <1>4, <1>5

(* A chunk of the serial line for every telnet client. *)
LEMMA BroadcastPreserves ==
    ASSUME IInv, NEW item \in Serial, netout_broadcast_byport(item)
    PROVE  IInv'
<1> DEFINE tab == [s \in Slots |-> IF s \in TelnetClients
                                   THEN netout(netclients[s], <<item>>)
                                   ELSE netclients[s]]
<1>1. netout_flush(tab, TelnetClients)
  BY DEF netout_broadcast_byport
<1>2. TelnetClients \in SUBSET Slots
  BY DEF TelnetClients
<1>3. <<item>> \in Seq(Item)
  BY DEF Item
<1>4. ASSUME NEW s \in Slots
      PROVE  /\ tab[s] \in Netclient
             /\ Len(tab[s].fifo) <= FIFO_BUFSIZE
             /\ tab[s].espconn = netclients[s].espconn
             /\ tab[s].sending <=> netclients[s].sending
             /\ s \notin TelnetClients => Moves(tab[s])
  <2>1. /\ netclients[s] \in Netclient
        /\ Len(netclients[s].fifo) <= FIFO_BUFSIZE
        /\ Moves(netclients[s])
    BY DEF IInv, Typed, Moving
  <2>2. CASE s \in TelnetClients
    <3>1. tab[s] = netout(netclients[s], <<item>>)
      BY <2>2
    <3> QED
      BY <1>3, <2>1, <2>2, <3>1, NetoutProperties
  <2>3. CASE s \notin TelnetClients
    <3>1. tab[s] = netclients[s]
      BY <2>3
    <3> QED
      BY <2>1, <3>1
  <2> QED
    BY <2>2, <2>3
<1>5. tab \in [Slots -> Netclient]
  BY <1>4
<1> HIDE DEF tab
<1> QED
  BY <1>1, <1>2, <1>4, <1>5, FlushPreserves

(* The sent callback moves its own slot and its own session on together. *)
LEMMA SlotMovesOn ==
    ASSUME IInv, NEW c \in Conn, NEW s \in Slots, NEW nc \in Netclient, NEW sn \in Session,
           netclients[s].espconn = c, nc.espconn = c,
           Len(nc.fifo) <= FIFO_BUFSIZE, Moves(nc),
           sn.state = "CONNECT", sn.registered, c \notin Resets => Agrees(nc, sn),
           netclients' = [netclients EXCEPT ![s] = nc],
           session' = [session EXCEPT ![c] = sn]
    PROVE  IInv'
<1> USE ConnAssumption
<1>1. /\ netclients \in [Slots -> Netclient] /\ session \in [Conn -> Session]
      /\ \A t \in Slots : Len(netclients[t].fifo) <= FIFO_BUFSIZE
  BY DEF IInv, Typed
<1>2. \A t \in Slots : netclients'[t] = IF t = s THEN nc ELSE netclients[t]
  BY <1>1
<1>3. \A d \in Conn : session'[d] = IF d = c THEN sn ELSE session[d]
  BY <1>1
<1>4. \A t \in Slots : netclients[t].espconn # NULL => netclients[t].espconn \in Conn
  BY <1>1, LiveSlot DEF IInv
<1>5. \A t \in Slots : netclients[t].espconn = c /\ Spared(t) => t = s
  BY DEF IInv, Unique
<1>6. Typed'
  <2>1. netclients' \in [Slots -> Netclient] /\ session' \in [Conn -> Session]
    BY <1>1
  <2>2. \A t \in Slots : Len(netclients'[t].fifo) <= FIFO_BUFSIZE
    BY <1>1, <1>2
  <2> QED
    BY <2>1, <2>2 DEF Typed
<1>7. \A t \in Slots : netclients'[t].espconn = netclients[t].espconn
  BY <1>2
<1>8. Owned'
  BY <1>3, <1>4, <1>7 DEF IInv, Owned, SessionOf, Spared
<1>9. Unique'
  BY <1>7 DEF IInv, Unique, Spared
<1>10. SentcbFindsSlot'
  BY <1>3, <1>7 DEF IInv, SentcbFindsSlot, Open, IsOpen
<1>11. Pumping'
  <2> SUFFICES ASSUME NEW t \in Slots, Live(t)', Spared(t)'
               PROVE  Agrees(netclients[t], SessionOf(t))'
    BY DEF Pumping
  <2>1. CASE t = s
    <3>1. netclients'[t] = nc /\ session'[netclients'[t].espconn] = sn
      BY <1>2, <1>3, <2>1
    <3> QED
      BY <2>1, <3>1 DEF Agrees, SessionOf, Spared
  <2>2. CASE t # s
    <3>1. netclients'[t] = netclients[t]
      BY <1>2, <2>2
    <3>2. session'[netclients[t].espconn] = session[netclients[t].espconn]
      BY <1>3, <1>4, <1>5, <2>2, <3>1 DEF Live, Spared
    <3>3. Live(t) /\ Spared(t)
      BY <3>1, <3>2 DEF Live, Open, IsOpen, Spared
    <3> QED
      BY <3>1, <3>2, <3>3 DEF IInv, Pumping, SessionOf, Agrees
  <2> QED
    BY <2>1, <2>2
<1>12. Moving'
  <2> SUFFICES ASSUME NEW t \in Slots
               PROVE  Moves(netclients'[t])
    BY DEF Moving, Moves
  <2>1. CASE t = s
    BY <1>2, <2>1
  <2>2. CASE t # s
    <3>1. netclients'[t] = netclients[t]
      BY <1>2, <2>2
    <3> QED
      BY <3>1 DEF IInv, Moving
  <2> QED
    BY <2>1, <2>2
<1> QED
  BY <1>6, <1>8, <1>9, <1>10, <1>11, <1>12 DEF IInv

(* The sent callback looks up its slot, clears the flag and goes on. *)
LEMMA SentPreserves ==
    ASSUME IInv, NEW c \in Conn, tcp_sentcb(c)
    PROVE  IInv'
<1> USE BufsizeAssumption
<1>1. PICK s \in Slots :
        /\ Lookup(c, s)
        /\ \/ /\ netclients[s].fifo = << >>
              /\ netclients' = [netclients EXCEPT ![s].sending = FALSE]
              /\ session' = [session EXCEPT ![c].pending = @ - 1]
           \/ \E k \in 1..Len(netclients[s].fifo), taken \in BOOLEAN :
              /\ netclients' = [netclients EXCEPT ![s].fifo = Drop(@, k)]
              /\ session' = [session EXCEPT ![c] =
                    espconn_sent(@, IF taken THEN 0 ELSE -1, ~taken)]
  BY DEF tcp_sentcb
<1> DEFINE nc == netclients[s]
           sn == session[c]
<1>2. nc.espconn = c /\ c # NULL /\ Open(c) /\ sn.registered /\ sn.pending > 0
  BY <1>1, ConnAssumption DEF tcp_sentcb, Lookup, IsFirst
<1>3. nc \in Netclient /\ sn \in Session /\ Len(nc.fifo) <= FIFO_BUFSIZE /\ Moves(nc)
  BY DEF IInv, Typed, Moving
<1>4. c \notin Resets => Agrees(nc, sn)
  BY <1>2 DEF IInv, Pumping, Live, SessionOf, Spared
<1>5. /\ sn.state = "CONNECT" /\ sn.pending \in Nat /\ sn.pending >= 1
      /\ c \notin Resets => sn.pending = 1 /\ ~sn.lost /\ nc.sending
  BY <1>2, <1>3, <1>4 DEF Agrees, Session, Open, IsOpen
<1>6. CASE /\ nc.fifo = << >>
           /\ netclients' = [netclients EXCEPT ![s].sending = FALSE]
           /\ session' = [session EXCEPT ![c].pending = @ - 1]
  <2> DEFINE new == [nc EXCEPT !.sending = FALSE]
             sn2 == [sn EXCEPT !.pending = @ - 1]
  <2>1. netclients' = [netclients EXCEPT ![s] = new] /\ session' = [session EXCEPT ![c] = sn2]
    BY <1>6
  <2>2. /\ new \in Netclient /\ new.espconn = c /\ new.fifo = << >> /\ ~new.sending
        /\ Len(new.fifo) <= FIFO_BUFSIZE
    BY <1>2, <1>3, <1>6 DEF Netclient
  <2>3. /\ sn2 \in Session /\ sn2.state = "CONNECT" /\ sn2.registered
        /\ c \notin Resets => sn2.pending = 0 /\ ~sn2.lost
    BY <1>2, <1>3, <1>5 DEF Session
  <2> HIDE DEF new, sn2, nc, sn
  <2>4. Moves(new)
    BY <2>2 DEF Moves
  <2>5. c \notin Resets => Agrees(new, sn2)
    BY <2>2, <2>3 DEF Agrees
  <2> QED
    BY <1>2, <2>1, <2>2, <2>3, <2>4, <2>5, SlotMovesOn DEF nc
<1>7. CASE \E k \in 1..Len(nc.fifo), taken \in BOOLEAN :
              /\ netclients' = [netclients EXCEPT ![s].fifo = Drop(@, k)]
              /\ session' = [session EXCEPT ![c] =
                    espconn_sent(@, IF taken THEN 0 ELSE -1, ~taken)]
  <2>1. PICK k \in 1..Len(nc.fifo), taken \in BOOLEAN :
              /\ netclients' = [netclients EXCEPT ![s].fifo = Drop(@, k)]
              /\ session' = [session EXCEPT ![c] =
                    espconn_sent(@, IF taken THEN 0 ELSE -1, ~taken)]
    BY <1>7
  <2> DEFINE d == Drop(nc.fifo, k)
             new == [nc EXCEPT !.fifo = d]
             sn2 == espconn_sent(sn, IF taken THEN 0 ELSE -1, ~taken)
  <2>2. netclients' = [netclients EXCEPT ![s] = new] /\ session' = [session EXCEPT ![c] = sn2]
    BY <2>1
  <2>3. nc.fifo \in Seq(Item) /\ Len(nc.fifo) \in Nat
    BY <1>3 DEF Netclient
  <2>4. /\ d \in Seq(Item) /\ Len(d) <= Len(nc.fifo) /\ Len(d) \in Nat
        /\ \A i \in 1..Len(d) : \E j \in 1..Len(nc.fifo) : d[i] = nc.fifo[j]
    <3> DEFINE queue == nc.fifo
    <3> HIDE DEF nc
    <3>1. queue \in Seq(Item) /\ k \in 1..Len(queue)
      BY <2>3
    <3> HIDE DEF queue
    <3>2. /\ Drop(queue, k) \in Seq(Item) /\ Len(Drop(queue, k)) <= Len(queue)
          /\ \A i \in 1..Len(Drop(queue, k)) :
                \E j \in 1..Len(queue) : Drop(queue, k)[i] = queue[j]
      BY <3>1, DropProperties
    <3>3. Len(Drop(queue, k)) \in Nat
      BY <3>2, LenProperties
    <3> QED
      BY <3>2, <3>3 DEF queue
  <2> HIDE DEF d
  <2>5. /\ new \in Netclient /\ new.espconn = c /\ new.fifo = d
        /\ new.sending <=> nc.sending
        /\ Len(new.fifo) <= FIFO_BUFSIZE
    <3>1. new \in Netclient /\ new.espconn = c /\ new.fifo = d
      BY <1>2, <1>3, <2>4 DEF Netclient
    <3>2. new.sending <=> nc.sending
      BY <1>3 DEF Netclient
    <3>3. Len(nc.fifo) <= FIFO_BUFSIZE
      BY <1>3
    <3> HIDE DEF new, nc
    <3> QED
      BY <2>3, <2>4, <3>1, <3>2, <3>3
  <2>6. /\ sn2 \in Session /\ sn2.state = "CONNECT" /\ sn2.registered
        /\ c \notin Resets => /\ sn2.pending = (IF taken THEN 1 ELSE 0)
                              /\ sn2.lost <=> ~taken
                              /\ ~taken => sn2.closing
    <3> DEFINE n == IF taken THEN 0 ELSE -1
               r == ~taken
    <3>1. /\ sn.pending + n \in Nat
          /\ c \notin Resets => sn.pending + n = (IF taken THEN 1 ELSE 0)
      BY <1>5
    <3>2. sn2 = espconn_sent(sn, n, r) /\ (r <=> ~taken)
      OBVIOUS
    <3>3. sn \in Session /\ IsOpen(sn)
      BY <1>3, <1>5 DEF IsOpen
    <3>4. sn.state = "CONNECT" /\ sn.registered /\ (c \notin Resets => ~sn.lost)
      BY <1>2, <1>5
    <3> HIDE DEF n, r, sn, sn2
    <3>5. /\ sn2.state = sn.state
          /\ sn2.registered <=> sn.registered
          /\ sn2.pending = sn.pending + n
          /\ sn2.lost <=> (sn.lost \/ (IsOpen(sn) /\ r))
          /\ sn2.closing <=> (sn.closing \/ (IsOpen(sn) /\ r))
          /\ sn2 \in Session
      BY <3>1, <3>2, <3>3 DEF espconn_sent, Session
    <3> QED
      BY <3>1, <3>2, <3>3, <3>4, <3>5
  <2> HIDE DEF new, sn2, nc, sn
  <2>7. Moves(new)
    BY <1>3, <2>4, <2>5 DEF Moves
  <2>8. c \notin Resets => Agrees(new, sn2)
    BY <1>5, <2>5, <2>6 DEF Agrees
  <2> QED
    BY <1>2, <2>2, <2>5, <2>6, <2>7, <2>8, SlotMovesOn DEF nc
<1> QED
  BY <1>1, <1>6, <1>7

(* The SDK ends a session; its callback is still to come. *)
LEMMA ClosePreserves ==
    ASSUME IInv, NEW c \in Conn, Close(c)
    PROVE  IInv'
<1>1. /\ session \in [Conn -> Session] /\ netclients' = netclients
      /\ session' = [session EXCEPT ![c].state = "CLOSE", ![c].pending = 0]
  BY DEF IInv, Typed, Close
<1>2. /\ \A d \in Conn : d # c => session'[d] = session[d]
      /\ session'[c] = [session[c] EXCEPT !.state = "CLOSE", !.pending = 0]
  BY <1>1
<1>3. /\ session'[c] \in Session /\ session'[c].state = "CLOSE"
      /\ session'[c].registered <=> session[c].registered
  <2> DEFINE sn == session[c]
             new == [sn EXCEPT !.state = "CLOSE", !.pending = 0]
  <2>1. sn \in Session /\ session'[c] = new
    BY <1>1, <1>2
  <2> HIDE DEF sn
  <2>2. new \in Session /\ new.state = "CLOSE" /\ (new.registered <=> sn.registered)
    BY <2>1 DEF Session
  <2> HIDE DEF new
  <2> QED
    BY <2>1, <2>2 DEF sn
<1>4. \A s \in Slots : netclients[s].espconn # NULL => netclients[s].espconn \in Conn
  BY LiveSlot DEF IInv
<1>5. Typed'
  BY <1>1, <1>2, <1>3 DEF IInv, Typed
<1>6. Owned'
  BY <1>1, <1>2, <1>3, <1>4 DEF IInv, Owned, SessionOf, Spared
<1>7. Unique' /\ Moving'
  BY <1>1 DEF IInv, Unique, Moving, Moves, Spared
<1>8. SentcbFindsSlot'
  BY <1>1, <1>2, <1>3 DEF IInv, SentcbFindsSlot, Open, IsOpen
<1>9. Pumping'
  <2> SUFFICES ASSUME NEW s \in Slots, Live(s)', Spared(s)'
               PROVE  Agrees(netclients[s], SessionOf(s))'
    BY DEF Pumping
  <2>1. session'[netclients[s].espconn] = session[netclients[s].espconn]
    BY <1>1, <1>2, <1>3, <1>4 DEF Live, Open, IsOpen
  <2>2. Live(s) /\ Spared(s)
    BY <1>1, <2>1 DEF Live, Open, IsOpen, Spared
  <2> QED
    BY <1>1, <2>1, <2>2 DEF IInv, Pumping, SessionOf, Agrees
<1> QED
  BY <1>5, <1>6, <1>7, <1>8, <1>9 DEF IInv

(* When the SDK is done with a session no slot has its address: the reaper took
   it, or the session was turned away and never had one.  Only a slot that a
   reset left behind may stay. *)
LEMMA DisconnectPreserves ==
    ASSUME IInv, NEW c \in Conn, tcp_disconnectcb(c)
    PROVE  IInv'
<1> USE ConnAssumption, BufsizeAssumption
<1>1. /\ session \in [Conn -> Session] /\ netclients \in [Slots -> Netclient]
      /\ session[c].state = "CLOSE" /\ session' = [session EXCEPT ![c] = NoSession]
  BY DEF IInv, Typed, tcp_disconnectcb
<1>2. \A d \in Conn : session'[d] = IF d = c THEN NoSession ELSE session[d]
  BY <1>1
<1>3. NoSession \in Session /\ NoSession.state = "NONE"
  BY DEF NoSession, Session
<1>4. \A s \in Slots : netclients[s].espconn # NULL => netclients[s].espconn \in Conn
  BY LiveSlot DEF IInv
<1>5. \A s \in Slots :
        \/ netclients'[s] = netclients[s]
        \/ Dead(s) /\ netclients'[s] = [netclients[s] EXCEPT !.espconn = NULL]
  BY <1>1 DEF tcp_disconnectcb, netclient_espconn_reaper
<1>6. \A s \in Slots : c \notin Resets => netclients'[s].espconn # c
  <2> SUFFICES ASSUME NEW s \in Slots, c \notin Resets
               PROVE  netclients'[s].espconn # c
    OBVIOUS
  <2>1. CASE netclients[s].espconn = c
    <3>1. Dead(s) /\ session[c].registered
      BY <1>1, <2>1 DEF IInv, Owned, SessionOf, Dead, Spared
    <3>2. netclients'[s] = [netclients[s] EXCEPT !.espconn = NULL]
      BY <3>1 DEF tcp_disconnectcb, netclient_espconn_reaper
    <3>3. netclients[s] \in Netclient
      BY <1>1
    <3> QED
      BY <3>2, <3>3 DEF Netclient
  <2>2. CASE netclients[s].espconn # c
    <3>1. netclients[s] \in Netclient
      BY <1>1
    <3> QED
      BY <1>5, <2>2, <3>1 DEF Netclient
  <2> QED
    BY <2>1, <2>2
<1>7. \A s \in Slots :
        /\ netclients'[s] \in Netclient
        /\ netclients'[s].fifo = netclients[s].fifo
        /\ netclients'[s].sending <=> netclients[s].sending
        /\ netclients'[s].espconn = netclients[s].espconn \/ netclients'[s].espconn = NULL
        /\ Open(netclients[s].espconn) => netclients'[s].espconn = netclients[s].espconn
  <2> SUFFICES ASSUME NEW s \in Slots
               PROVE  /\ netclients'[s] \in Netclient
                      /\ netclients'[s].fifo = netclients[s].fifo
                      /\ netclients'[s].sending <=> netclients[s].sending
                      /\ \/ netclients'[s].espconn = netclients[s].espconn
                         \/ netclients'[s].espconn = NULL
                      /\ Open(netclients[s].espconn) =>
                            netclients'[s].espconn = netclients[s].espconn
    OBVIOUS
  <2>1. netclients[s] \in Netclient
    BY <1>1
  <2>2. CASE netclients'[s] = netclients[s]
    BY <2>1, <2>2
  <2>3. CASE Dead(s) /\ netclients'[s] = [netclients[s] EXCEPT !.espconn = NULL]
    BY <2>1, <2>3 DEF Netclient, Dead, Open, IsOpen
  <2> QED
    BY <1>5, <2>2, <2>3
<1>8. Typed'
  <2>2. netclients' \in [Slots -> Netclient]
    <3>1. CASE session[c].registered
      <4> DEFINE F(s) == IF Dead(s) THEN [netclients[s] EXCEPT !.espconn = NULL]
                         ELSE netclients[s]
      <4>1. netclients' = [s \in Slots |-> F(s)]
        BY <3>1 DEF tcp_disconnectcb, netclient_espconn_reaper
      <4>2. \A s \in Slots : F(s) \in Netclient
        <5>1. \A s \in Slots : netclients'[s] = F(s)
          BY <4>1
        <5> QED
          BY <1>7, <5>1
      <4> HIDE DEF F
      <4> QED
        BY <4>1, <4>2
    <3>2. CASE ~session[c].registered
      BY <1>1, <3>2 DEF tcp_disconnectcb
    <3> QED
      BY <3>1, <3>2
  <2>3. session' \in [Conn -> Session]
    BY <1>1, <1>3
  <2>4. \A s \in Slots : Len(netclients'[s].fifo) <= FIFO_BUFSIZE
    BY <1>7 DEF IInv, Typed
  <2> QED
    BY <2>2, <2>3, <2>4 DEF Typed
<1>9. Owned'
  <2> SUFFICES ASSUME NEW s \in Slots, netclients'[s].espconn # NULL, Spared(s)'
               PROVE  SessionOf(s)'.state # "NONE" /\ SessionOf(s)'.registered
    BY DEF Owned
  <2>1. /\ netclients'[s].espconn = netclients[s].espconn /\ netclients[s].espconn # c
        /\ Spared(s)
    BY <1>6, <1>7 DEF Spared
  <2>2. session'[netclients'[s].espconn] = session[netclients[s].espconn]
    BY <1>2, <1>4, <2>1
  <2> QED
    BY <2>1, <2>2 DEF IInv, Owned, SessionOf
<1>10. Unique'
  BY <1>7 DEF IInv, Unique, Spared
<1>11. SentcbFindsSlot'
  <2> SUFFICES ASSUME NEW d \in Conn, Open(d)', session'[d].registered
               PROVE  \E s \in Slots : netclients'[s].espconn = d
    BY DEF SentcbFindsSlot
  <2>1. d # c /\ session'[d] = session[d]
    BY <1>2, <1>3 DEF Open, IsOpen
  <2>2. PICK s \in Slots : netclients[s].espconn = d
    BY <2>1 DEF IInv, SentcbFindsSlot, Open, IsOpen
  <2>3. Open(netclients[s].espconn)
    BY <2>1, <2>2 DEF Open, IsOpen
  <2> QED
    BY <1>7, <2>2, <2>3
<1>12. Pumping'
  <2> SUFFICES ASSUME NEW s \in Slots, Live(s)', Spared(s)'
               PROVE  Agrees(netclients[s], SessionOf(s))'
    BY DEF Pumping
  <2>1. netclients'[s].espconn = netclients[s].espconn /\ netclients[s].espconn # c
    BY <1>6, <1>7 DEF Live, Spared
  <2>2. netclients[s].espconn \in Conn /\ netclients[s].espconn # NULL
    BY <1>4, <2>1 DEF Live
  <2>3. session'[netclients'[s].espconn] = session[netclients[s].espconn]
    BY <1>2, <2>1, <2>2
  <2>4. Live(s) /\ Spared(s)
    BY <2>1, <2>2, <2>3 DEF Live, Open, IsOpen, Spared
  <2> QED
    BY <1>7, <2>3, <2>4 DEF IInv, Pumping, SessionOf, Agrees
<1>13. Moving'
  BY <1>7 DEF IInv, Moving, Moves
<1> QED
  BY <1>8, <1>9, <1>10, <1>11, <1>12, <1>13 DEF IInv

(* A reset leaves a slot behind, but only one at an address that may be reset. *)
LEMMA ReconnectPreserves ==
    ASSUME IInv, NEW c \in Conn, tcp_reconnectcb(c)
    PROVE  IInv'
<1>1. /\ session \in [Conn -> Session] /\ netclients' = netclients
      /\ session' = [session EXCEPT ![c] = NoSession] /\ c \in Resets
  BY DEF IInv, Typed, tcp_reconnectcb
<1>2. NoSession \in Session /\ NoSession.state = "NONE"
  BY DEF NoSession, Session
<1>3. \A d \in Conn : session'[d] = IF d = c THEN NoSession ELSE session[d]
  BY <1>1
<1>4. \A s \in Slots : netclients[s].espconn # NULL => netclients[s].espconn \in Conn
  BY LiveSlot DEF IInv
<1>5. \A s \in Slots : netclients[s].espconn # NULL /\ Spared(s) =>
          session'[netclients[s].espconn] = session[netclients[s].espconn]
  BY <1>1, <1>3, <1>4 DEF Spared
<1>6. Typed'
  BY <1>1, <1>2 DEF IInv, Typed
<1>7. Owned' /\ Unique' /\ Moving'
  BY <1>1, <1>5 DEF IInv, Owned, Unique, Moving, Moves, SessionOf, Spared
<1>8. SentcbFindsSlot'
  BY <1>1, <1>2, <1>3 DEF IInv, SentcbFindsSlot, Open, IsOpen
<1>9. Pumping'
  BY <1>1, <1>5 DEF IInv, Pumping, Live, Open, SessionOf, Agrees, Spared
<1> QED
  BY <1>6, <1>7, <1>8, <1>9 DEF IInv

(* The callbacks together. *)
LEMMA StepPreserves ==
    ASSUME IInv, [Next]_vars
    PROVE  IInv'
<1>1. ASSUME NEW c \in Conn, NEW port \in {TELNET, HTTP}, tcp_connectcb(c, port)
      PROVE  IInv'
  BY <1>1, ConnectPreserves
<1>2. ASSUME NEW c \in Conn, NEW command \in {"text", "AYT", "WILL/DO", "WONT/DONT"},
             tcp_recvcb(c, command)
      PROVE  IInv'
  BY <1>2, RecvPreserves
<1>3. ASSUME NEW c \in Conn, tcp_sentcb(c)
      PROVE  IInv'
  BY <1>3, SentPreserves
<1>4. ASSUME NEW c \in Conn, Close(c)
      PROVE  IInv'
  BY <1>4, ClosePreserves
<1>5. ASSUME NEW c \in Conn, tcp_disconnectcb(c)
      PROVE  IInv'
  BY <1>5, DisconnectPreserves
<1>6. ASSUME NEW c \in Conn, tcp_reconnectcb(c)
      PROVE  IInv'
  BY <1>6, ReconnectPreserves
<1>7. ASSUME NEW item \in Serial, netout_broadcast_byport(item)
      PROVE  IInv'
  BY <1>7, BroadcastPreserves
<1>8. CASE UNCHANGED vars
  BY <1>8 DEF vars, IInv, Typed, Owned, Unique, SentcbFindsSlot, Pumping, Moving,
              Moves, Agrees, Live, SessionOf, Open, IsOpen, Spared
<1> QED
  BY <1>1, <1>2, <1>3, <1>4, <1>5, <1>6, <1>7, <1>8 DEF Next

(* What is proved inductive is what the runs check. *)
LEMMA IInvImplies ==
    ASSUME IInv
    PROVE  /\ OneSlotPerSession /\ SentcbFindsSlot /\ SendingMeansUnderWay
           /\ NothingAfterALoss /\ SerialBytesMove
<1>1. OneSlotPerSession
  BY DEF IInv, Owned, Unique, OneSlotPerSession, Live
<1>2. SendingMeansUnderWay
  BY DEF IInv, Pumping, Agrees, SendingMeansUnderWay
<1>3. NothingAfterALoss
  BY DEF IInv, Pumping, Agrees, NothingAfterALoss
<1>4. SerialBytesMove
  <2> SUFFICES ASSUME NEW s \in Slots, Live(s), Spared(s),
                      NEW i \in 1..Len(netclients[s].fifo),
                      netclients[s].fifo[i] \in Serial
               PROVE  SessionOf(s).pending > 0 \/ SessionOf(s).closing
    BY DEF SerialBytesMove
  <2>1. netclients[s].sending
    BY DEF IInv, Moving, Moves
  <2>2. CASE SessionOf(s).pending = 1
    BY <2>2
  <2>3. CASE SessionOf(s).lost
    BY <2>3 DEF IInv, Pumping, Agrees
  <2> QED
    BY <2>1, <2>2, <2>3 DEF IInv, Pumping, Agrees
<1> QED
  BY <1>1, <1>2, <1>3, <1>4 DEF IInv

(* The items queued once are items to follow: only netout_broadcast_byport and
   tcp_recvcb queue any. *)
LEMMA OnceIsTyped == Spec => [](used \subseteq Once)
<1>1. Init => used \subseteq Once
  BY DEF Init
<1>2. used \subseteq Once /\ [Next]_vars => (used \subseteq Once)'
  <2> SUFFICES ASSUME used \subseteq Once, [Next]_vars
               PROVE  used' \subseteq Once
    OBVIOUS
  <2>1. \A items : MayQueue(items) => used' \subseteq Once
    BY DEF MayQueue
  <2>2. UNCHANGED used => used' \subseteq Once
    OBVIOUS
  <2>3. ASSUME NEW c \in Conn, NEW port \in {TELNET, HTTP}, tcp_connectcb(c, port)
        PROVE  UNCHANGED used
    BY <2>3 DEF tcp_connectcb
  <2>4. ASSUME NEW c \in Conn, NEW command \in {"text", "AYT", "WILL/DO", "WONT/DONT"},
               tcp_recvcb(c, command)
        PROVE  used' \subseteq Once
    BY <2>1, <2>2, <2>4 DEF tcp_recvcb
  <2>5. ASSUME NEW c \in Conn,
               tcp_sentcb(c) \/ Close(c) \/ tcp_disconnectcb(c) \/ tcp_reconnectcb(c)
        PROVE  UNCHANGED used
    BY <2>5 DEF tcp_sentcb, Close, tcp_disconnectcb, tcp_reconnectcb
  <2>6. ASSUME NEW item \in Serial, netout_broadcast_byport(item)
        PROVE  used' \subseteq Once
    BY <2>1, <2>6 DEF netout_broadcast_byport
  <2>7. CASE UNCHANGED vars
    BY <2>7 DEF vars
  <2> QED
    BY <2>2, <2>3, <2>4, <2>5, <2>6, <2>7 DEF Next
<1> QED
  BY <1>1, <1>2, PTL DEF Spec

(* It holds in every reachable state. *)
LEMMA Invariance == Spec => []IInv
<1>1. IInv /\ [Next]_vars => IInv'
  BY StepPreserves
<1> QED
  BY InitEstablishes, <1>1, PTL DEF Spec

(* For any number of slots and sessions and any capacity: every session with our
   callbacks on it has a slot, so the unchecked lookup of tcp_sentcb succeeds.
   Whatever the resets of others leave in the table, a session that cannot be
   reset has one slot only, one chunk at a time is under way and the flag says so,
   nothing follows a lost chunk, and serial data never waits unattended. *)
THEOREM ClientTableInvariant ==
    Spec => [](/\ TypeOK /\ SentcbFindsSlot /\ OneSlotPerSession
               /\ SendingMeansUnderWay /\ NothingAfterALoss /\ SerialBytesMove)
<1>1. IInv /\ used \subseteq Once =>
        /\ TypeOK /\ SentcbFindsSlot /\ OneSlotPerSession
        /\ SendingMeansUnderWay /\ NothingAfterALoss /\ SerialBytesMove
  BY IInvImplies DEF IInv, Typed, TypeOK
<1> QED
  BY Invariance, OnceIsTyped, <1>1, PTL

(* A sent callback finds the slot of its session, so tcp_sentcb may leave out the
   test for NULL that tcp_recvcb makes, for any number of slots and sessions. *)
THEOREM SentcbNeedsNoTest == Spec => []SentcbFindsSlot
BY ClientTableInvariant, PTL

(* The address that slots are looked up by is in one slot only, for every session
   that is not left behind by a reset (netclient_lookup_by_espconn). *)
THEOREM AddressNamesSlot == Spec => []OneSlotPerSession
BY ClientTableInvariant, PTL

(* A chunk that espconn_sent refused is the last thing its session was to get
   (netout_flush, tcp_sentcb). *)
THEOREM LossEndsTheStream == Spec => []NothingAfterALoss
BY ClientTableInvariant, PTL

(* Serial bytes queued for a session that cannot be reset have a chunk of that
   session with the SDK ahead of them, or the session is about to be closed after
   a refusal, whatever else is queued unflushed (netout_broadcast_byport). *)
THEOREM SerialBytesAreOnTheirWay == Spec => []SerialBytesMove
BY ClientTableInvariant, PTL

(* netout_flush never takes a slot from its session. *)
LEMMA FlushKeepsSlot ==
    ASSUME NEW tab \in [Slots -> Netclient], NEW f \in SUBSET Slots,
           netout_flush(tab, f), NEW s \in Slots
    PROVE  netclients'[s].espconn = tab[s].espconn
<1> DEFINE starts == {t \in f : Starts(tab[t])}
<1>1. PICK k : netclients' = [t \in Slots |->
                    IF t \in starts
                    THEN [tab[t] EXCEPT !.sending = TRUE, !.fifo = Drop(@, k[t])]
                    ELSE tab[t]]
  BY DEF netout_flush
<1>2. tab[s] \in Netclient
  OBVIOUS
<1>3. CASE s \in starts
  <2>1. netclients'[s] = [tab[s] EXCEPT !.sending = TRUE, !.fifo = Drop(@, k[s])]
    BY <1>1, <1>3
  <2> QED
    BY <1>2, <2>1 DEF Netclient
<1>4. CASE s \notin starts
  <2>1. netclients'[s] = tab[s]
    BY <1>1, <1>4
  <2> QED
    BY <2>1
<1> QED
  BY <1>3, <1>4

(* So only the disconnect callback does. *)
LEMMA OnlyReaped ==
    ASSUME IInv, [Next]_vars, NEW s \in Slots, netclients[s].espconn # NULL,
           netclients'[s].espconn = NULL
    PROVE  Dead(s)
<1> USE ConnAssumption
<1>1. /\ netclients \in [Slots -> Netclient] /\ netclients[s] \in Netclient
      /\ \A t \in Slots : Len(netclients[t].fifo) <= FIFO_BUFSIZE
  BY DEF IInv, Typed
<1>2. ASSUME NEW c \in Conn, NEW port \in {TELNET, HTTP}, tcp_connectcb(c, port)
      PROVE  FALSE
  <2> DEFINE nc == netclient_init_espconn(c, port)
  <2>1. nc.espconn # NULL
    BY DEF netclient_init_espconn, FreeSlot
  <2>2. \/ netclients' = netclients
        \/ \E t \in Slots : netclients' = [netclients EXCEPT ![t] = nc]
    BY <1>2 DEF tcp_connectcb
  <2> HIDE DEF nc
  <2> QED
    BY <1>1, <2>1, <2>2
<1>3. ASSUME NEW t \in Slots, NEW f \in SUBSET Slots, NEW new \in Netclient,
             new.espconn = netclients[t].espconn,
             netout_flush([netclients EXCEPT ![t] = new], f)
      PROVE  FALSE
  <2> DEFINE tab == [netclients EXCEPT ![t] = new]
  <2>1. /\ tab \in [Slots -> Netclient] /\ tab[s].espconn = netclients[s].espconn
        /\ netout_flush(tab, f)
    BY <1>1, <1>3
  <2> HIDE DEF tab
  <2> QED
    BY <2>1, FlushKeepsSlot
<1>4. ASSUME NEW c \in Conn, NEW command \in {"text", "AYT", "WILL/DO", "WONT/DONT"},
             tcp_recvcb(c, command)
      PROVE  FALSE
  <2>1. PICK t \in Slots :
        \/ netout_flush([netclients EXCEPT ![t] = telnet_recv(@, command)],
                        IF Negotiates(netclients[t], command) THEN {t} ELSE {})
        \/ netout_flush([netclients EXCEPT ![t] = netout(@, <<"hello">>)], {t})
    BY <1>4 DEF tcp_recvcb
  <2> DEFINE nc == netclients[t]
  <2>2. nc \in Netclient /\ Len(nc.fifo) <= FIFO_BUFSIZE
    BY <1>1
  <2>3. CASE netout_flush([netclients EXCEPT ![t] = telnet_recv(@, command)],
                          IF Negotiates(netclients[t], command) THEN {t} ELSE {})
    <3> DEFINE r == netout(nc, Replies(nc, command))
               new == telnet_recv(nc, command)
    <3>1. r \in Netclient /\ r.espconn = nc.espconn
      BY <2>2, NetoutProperties, RepliesAreItems
    <3>2. new = [r EXCEPT !.telopt_sent = @ \/ Negotiates(nc, command)]
      BY DEF telnet_recv
    <3>3. Negotiates(nc, command) \in BOOLEAN
      BY DEF Negotiates
    <3> HIDE DEF r
    <3>4. new \in Netclient /\ new.espconn = nc.espconn
      BY <3>1, <3>2, <3>3 DEF Netclient
    <3> DEFINE f == IF Negotiates(nc, command) THEN {t} ELSE {}
    <3>5. f \in SUBSET Slots /\ netout_flush([netclients EXCEPT ![t] = new], f)
      BY <2>3
    <3> HIDE DEF new, f
    <3> QED
      BY <1>3, <3>4, <3>5
  <2>4. CASE netout_flush([netclients EXCEPT ![t] = netout(@, <<"hello">>)], {t})
    <3> DEFINE new == netout(nc, <<"hello">>)
    <3>1. <<"hello">> \in Seq(Item)
      BY DEF Item
    <3>2. new \in Netclient /\ new.espconn = nc.espconn
      BY <2>2, <3>1, NetoutProperties
    <3>3. netout_flush([netclients EXCEPT ![t] = new], {t})
      BY <2>4
    <3> HIDE DEF new
    <3> QED
      BY <1>3, <3>2, <3>3
  <2> QED
    BY <2>1, <2>3, <2>4
<1>5. ASSUME NEW c \in Conn, tcp_sentcb(c)
      PROVE  FALSE
  <2>1. \E t \in Slots :
          \/ netclients' = [netclients EXCEPT ![t].sending = FALSE]
          \/ \E d : netclients' = [netclients EXCEPT ![t].fifo = d]
    BY <1>5 DEF tcp_sentcb
  <2>2. PICK t \in Slots :
          \/ netclients' = [netclients EXCEPT ![t].sending = FALSE]
          \/ \E d : netclients' = [netclients EXCEPT ![t].fifo = d]
    BY <2>1
  <2>3. CASE netclients' = [netclients EXCEPT ![t].sending = FALSE]
    BY <1>1, <2>3 DEF Netclient
  <2>4. CASE \E d : netclients' = [netclients EXCEPT ![t].fifo = d]
    <3>1. PICK d : netclients' = [netclients EXCEPT ![t].fifo = d]
      BY <2>4
    <3>2. netclients'[s] = netclients[s] \/ netclients'[s] = [netclients[s] EXCEPT !.fifo = d]
      BY <1>1, <3>1
    <3> QED
      BY <1>1, <3>2 DEF Netclient
  <2> QED
    BY <2>2, <2>3, <2>4
<1>6. ASSUME NEW c \in Conn, tcp_disconnectcb(c)
      PROVE  Dead(s)
  BY <1>1, <1>6 DEF tcp_disconnectcb, netclient_espconn_reaper
<1>7. ASSUME NEW item \in Serial, netout_broadcast_byport(item)
      PROVE  FALSE
  <2> DEFINE tab == [t \in Slots |-> IF t \in TelnetClients
                                     THEN netout(netclients[t], <<item>>)
                                     ELSE netclients[t]]
  <2>1. netout_flush(tab, TelnetClients) /\ TelnetClients \in SUBSET Slots
    BY <1>7 DEF netout_broadcast_byport, TelnetClients
  <2>2. <<item>> \in Seq(Item)
    BY DEF Item
  <2>3. \A t \in Slots : /\ netout(netclients[t], <<item>>) \in Netclient
                         /\ netout(netclients[t], <<item>>).espconn = netclients[t].espconn
    BY <1>1, <2>2, NetoutProperties
  <2>4. tab \in [Slots -> Netclient] /\ tab[s].espconn = netclients[s].espconn
    BY <1>1, <2>3
  <2> HIDE DEF tab
  <2> QED
    BY <2>1, <2>4, FlushKeepsSlot
<1>8. ASSUME NEW c \in Conn, tcp_reconnectcb(c)
      PROVE  FALSE
  BY <1>8 DEF tcp_reconnectcb
<1>9. ASSUME NEW c \in Conn, Close(c)
      PROVE  FALSE
  BY <1>9 DEF Close
<1>10. CASE UNCHANGED vars
  BY <1>10 DEF vars
<1> QED
  BY <1>2, <1>4, <1>5, <1>6, <1>7, <1>8, <1>9, <1>10 DEF Next

(* The disconnect callback of a session that was served leaves no dead slot. *)
LEMMA AllReaped ==
    ASSUME IInv, NEW c \in Conn, session[c].registered, tcp_disconnectcb(c),
           NEW s \in Slots
    PROVE  ~Dead(s)'
<1> SUFFICES ASSUME Dead(s)'
             PROVE  FALSE
  OBVIOUS
<1> DEFINE e == netclients'[s].espconn
<1>1. /\ netclients[s] \in Netclient /\ session \in [Conn -> Session]
      /\ session[c].state = "CLOSE" /\ session' = [session EXCEPT ![c] = NoSession]
      /\ netclients'[s] = IF Dead(s) THEN [netclients[s] EXCEPT !.espconn = NULL]
                          ELSE netclients[s]
  BY DEF IInv, Typed, tcp_disconnectcb, netclient_espconn_reaper
<1>2. e # NULL /\ session'[e].state \in {"NONE", "CLOSE"}
  BY DEF Dead
<1>3. ~Dead(s) /\ netclients[s].espconn = e
  BY <1>1, <1>2 DEF Netclient
<1>4. e \in Conn /\ e # c
  BY <1>1, <1>2, <1>3, LiveSlot DEF IInv, Dead
<1>5. session[e].state \in {"NONE", "CLOSE"}
  BY <1>1, <1>2, <1>4
<1> QED
  BY <1>2, <1>3, <1>5 DEF Dead

(* Only sessions that are over lose their slot, and after the disconnect callback
   of a session that was served no slot is left to a session that is over, not
   even one that a reset left behind. *)
THEOREM ReapingIsExact == Spec => ReaperIsExact
<1>1. IInv /\ [Next]_vars =>
        [\A s \in Slots :
            /\ netclients'[s].espconn = NULL /\ netclients[s].espconn # NULL => Dead(s)
            /\ (\E c \in Conn : session[c].registered /\ tcp_disconnectcb(c)) => ~Dead(s)'
        ]_vars
  BY OnlyReaped, AllReaped
<1> QED
  BY Invariance, <1>1, PTL DEF Spec, ReaperIsExact
=============================================================================
