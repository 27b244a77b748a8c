---------------------------- MODULE TelnetProofs ----------------------------
(***************************************************************************)
(* What telnet_recv leaves behind is a struct telnet, and what it sends    *)
(* either way are bytes, whatever comes from the client.  More than that:  *)
(* after every byte the state machine of telnet.c and the grammar agree.   *)
(* The grammar reads a string as a whole, so the proof first finds out     *)
(* what one more byte does to a reading, then follows telnet_recv state by *)
(* state.                                                                  *)
(***************************************************************************)
EXTENDS Telnet, Induction, SequenceTheorems, FiniteSetTheorems, TLAPS

-----------------------------------------------------------------------------
(* Byte strings *)

(* What char holds; a name of its own because the provers spell 255 out. *)
Byte == 0..255

(* Byte strings put together are one. *)
LEMMA Concatenated ==
    ASSUME NEW S, NEW s \in Seq(S), NEW t \in Seq(S)
    PROVE  s \o t \in Seq(S)
OBVIOUS

(* Saying nothing adds nothing. *)
LEMMA NothingAppended ==
    ASSUME NEW x \in Seq(Byte)
    PROVE  x \o << >> = x
OBVIOUS

(* A byte string and a byte put behind it. *)
LEMMA Appended ==
    ASSUME NEW s \in Seq(Byte), NEW c \in Byte
    PROVE  /\ Append(s, c) \in Seq(Byte)
           /\ Len(Append(s, c)) = Len(s) + 1
           /\ \A i \in 1..Len(s) : Append(s, c)[i] = s[i]
           /\ Append(s, c)[Len(s) + 1] = c
OBVIOUS

(* A part of a byte string. *)
LEMMA PartOf ==
    ASSUME NEW s \in Seq(Byte), NEW a \in Nat \ {0}, NEW b \in 0..Len(s)
    PROVE  /\ SubSeq(s, a, b) \in Seq(Byte)
           /\ Len(SubSeq(s, a, b)) = IF a <= b THEN b - a + 1 ELSE 0
           /\ \A i \in 1..(b - a + 1) : SubSeq(s, a, b)[i] = s[a + i - 1]
<1>1. \A i \in a..b : s[i] \in Byte
  <2>1. \A i \in a..b : i \in 1..Len(s)
    OBVIOUS
  <2> QED
    BY <2>1, ElementOfSeq
<1> QED
  BY <1>1, SubSeqProperties

(* A byte put behind a string leaves its parts as they are, and a part that goes
   to the end gets the byte too. *)
LEMMA PartOfLonger ==
    ASSUME NEW s \in Seq(Byte), NEW c \in Byte, NEW a \in Nat \ {0}
    PROVE  /\ Append(s, c) \in Seq(Byte)
           /\ Len(Append(s, c)) = Len(s) + 1
           /\ \A i \in 1..Len(s) : Append(s, c)[i] = s[i]
           /\ Append(s, c)[Len(s) + 1] = c
           /\ \A b \in 0..Len(s) : SubSeq(Append(s, c), a, b) = SubSeq(s, a, b)
           /\ a <= Len(s) + 1 => SubSeq(Append(s, c), a, Len(s) + 1)
                                   = Append(SubSeq(s, a, Len(s)), c)
<1> DEFINE t == Append(s, c)
<1>1. /\ t \in Seq(Byte) /\ Len(t) = Len(s) + 1
      /\ \A i \in 1..Len(s) : t[i] = s[i]
      /\ t[Len(s) + 1] = c
  OBVIOUS
<1> HIDE DEF t
<1>2. ASSUME NEW b \in 0..Len(s)
      PROVE  SubSeq(t, a, b) = SubSeq(s, a, b)
  <2> DEFINE u == SubSeq(t, a, b)
             v == SubSeq(s, a, b)
  <2>1. /\ v \in Seq(Byte)
        /\ Len(v) = IF a <= b THEN b - a + 1 ELSE 0
        /\ \A i \in 1..(b - a + 1) : v[i] = s[a + i - 1]
    BY PartOf
  <2>2. b \in 0..Len(t)
    BY <1>1
  <2>3. /\ u \in Seq(Byte)
        /\ Len(u) = IF a <= b THEN b - a + 1 ELSE 0
        /\ \A i \in 1..(b - a + 1) : u[i] = t[a + i - 1]
    BY <1>1, <2>2, PartOf
  <2> HIDE DEF u, v
  <2>4. \A i \in 1..Len(u) : i \in 1..(b - a + 1) /\ a + i - 1 \in 1..Len(s)
    BY <2>3
  <2>5. \A i \in 1..Len(u) : u[i] = v[i]
    BY <1>1, <2>1, <2>3, <2>4
  <2>6. u = v
    BY <2>1, <2>3, <2>5, SeqEqual
  <2> QED
    BY <2>6 DEF u, v
<1>3. ASSUME a <= Len(s) + 1
      PROVE  SubSeq(t, a, Len(s) + 1) = Append(SubSeq(s, a, Len(s)), c)
  <2> DEFINE u == SubSeq(t, a, Len(s) + 1)
             v == SubSeq(s, a, Len(s))
             m == Len(s) + 1 - a
  <2>1. Len(s) \in 0..Len(s) /\ Len(s) + 1 \in 0..Len(t)
    BY <1>1
  <2>2. /\ v \in Seq(Byte)
        /\ Len(v) = IF a <= Len(s) THEN Len(s) - a + 1 ELSE 0
        /\ \A i \in 1..(Len(s) - a + 1) : v[i] = s[a + i - 1]
    BY <2>1, PartOf
  <2>3. /\ u \in Seq(Byte)
        /\ Len(u) = IF a <= Len(s) + 1 THEN Len(s) + 1 - a + 1 ELSE 0
        /\ \A i \in 1..(Len(s) + 1 - a + 1) : u[i] = t[a + i - 1]
    <3> DEFINE k == Len(s) + 1
    <3>1. k \in 0..Len(t)
      BY <2>1
    <3> HIDE DEF k
    <3>2. /\ SubSeq(t, a, k) \in Seq(Byte)
          /\ Len(SubSeq(t, a, k)) = IF a <= k THEN k - a + 1 ELSE 0
          /\ \A i \in 1..(k - a + 1) : SubSeq(t, a, k)[i] = t[a + i - 1]
      BY <1>1, <3>1, PartOf
    <3> QED
      BY <3>2 DEF k
  <2>4. Len(s) \in Nat
    OBVIOUS
  <2> HIDE DEF u, v
  <2>5. /\ v \in Seq(Byte)
        /\ Len(v) = m
        /\ \A i \in 1..m : v[i] = s[a + i - 1]
    BY <1>3, <2>2, <2>4
  <2>6. /\ u \in Seq(Byte)
        /\ Len(u) = m + 1
        /\ \A i \in 1..(m + 1) : u[i] = t[a + i - 1]
    BY <1>3, <2>3, <2>4
  <2>7. m \in Nat /\ a + (m + 1) - 1 = Len(s) + 1 /\ \A i \in 1..m : a + i - 1 \in 1..Len(s)
    BY <1>3
  <2> HIDE DEF u, v, m
  <2>8. /\ Append(v, c) \in Seq(Byte) /\ Len(Append(v, c)) = m + 1
        /\ \A i \in 1..m : Append(v, c)[i] = v[i]
        /\ Append(v, c)[m + 1] = c
    BY <2>5, <2>7
  <2>9. ASSUME NEW i \in 1..(m + 1)
        PROVE  u[i] = Append(v, c)[i]
    <3>1. CASE i = m + 1
      BY <3>1, <1>1, <2>6, <2>7, <2>8
    <3>2. CASE i \in 1..m
      BY <3>2, <1>1, <2>5, <2>6, <2>7, <2>8
    <3>3. i = m + 1 \/ i \in 1..m
      BY <2>7
    <3> QED
      BY <3>1, <3>2, <3>3
  <2>10. u = Append(v, c)
    BY <2>6, <2>8, <2>9, SeqEqual
  <2> QED
    BY <2>10 DEF u, v
<1> QED
  BY <1>1, <1>2, <1>3 DEF t

(* The first half of that, for one part. *)
LEMMA SamePart ==
    ASSUME NEW s \in Seq(Byte), NEW c \in Byte, NEW a \in Nat \ {0}, NEW b \in 0..Len(s)
    PROVE  SubSeq(Append(s, c), a, b) = SubSeq(s, a, b)
BY PartOfLonger, Zenon

(* The units that telnet_recv tells apart are at most three bytes long, but for
   subnegotiations: they are written out. *)
LEMMA AppendToNone ==
    ASSUME NEW c \in Byte
    PROVE  Append(<< >>, c) = <<c>>
<1> DEFINE u == Append(<< >>, c)
           v == <<c>>
<1>1. << >> \in Seq(Byte) /\ Len(<< >>) = 0
  OBVIOUS
<1>2. u \in Seq(Byte) /\ Len(u) = Len(<< >>) + 1 /\ u[Len(<< >>) + 1] = c
  BY <1>1, Appended
<1>3. v \in Seq(Byte) /\ Len(v) = 1 /\ v[1] = c
  OBVIOUS
<1> HIDE DEF u, v
<1>4. Len(u) = 1 /\ u[1] = c
  BY <1>1, <1>2
<1>5. u = v
  BY <1>2, <1>3, <1>4, SeqEqual
<1> QED
  BY <1>5 DEF u, v

(* A second byte ... *)
LEMMA AppendToOne ==
    ASSUME NEW a \in Byte, NEW c \in Byte
    PROVE  Append(<<a>>, c) = <<a, c>>
<1> DEFINE u == <<a>>
           v == <<a, c>>
<1>1. u \in Seq(Byte) /\ Len(u) = 1 /\ u[1] = a
  OBVIOUS
<1>2. v \in Seq(Byte) /\ Len(v) = 2 /\ v[1] = a /\ v[2] = c
  OBVIOUS
<1> HIDE DEF u, v
<1>3. /\ Append(u, c) \in Seq(Byte) /\ Len(Append(u, c)) = 2
      /\ Append(u, c)[1] = a /\ Append(u, c)[2] = c
  <2>1. /\ Append(u, c) \in Seq(Byte) /\ Len(Append(u, c)) = Len(u) + 1
        /\ \A i \in 1..Len(u) : Append(u, c)[i] = u[i]
        /\ Append(u, c)[Len(u) + 1] = c
    BY <1>1, Appended, Zenon
  <2>2. 1 \in 1..Len(u) /\ Len(u) + 1 = 2
    BY <1>1
  <2> QED
    BY <1>1, <2>1, <2>2
<1>4. \A i \in 1..2 : Append(u, c)[i] = v[i]
  BY <1>2, <1>3
<1>5. Append(u, c) = v
  BY <1>2, <1>3, <1>4, SeqEqual
<1> QED
  BY <1>5 DEF u, v

(* ... and a third. *)
LEMMA AppendToTwo ==
    ASSUME NEW a \in Byte, NEW b \in Byte, NEW c \in Byte
    PROVE  Append(<<a, b>>, c) = <<a, b, c>>
<1> DEFINE w == <<a, b>>
           u == Append(w, c)
           v == <<a, b, c>>
<1>1. w \in Seq(Byte) /\ Len(w) = 2 /\ w[1] = a /\ w[2] = b
  OBVIOUS
<1>2. v \in Seq(Byte) /\ Len(v) = 3 /\ v[1] = a /\ v[2] = b /\ v[3] = c
  OBVIOUS
<1> HIDE DEF w, v
<1>3. /\ u \in Seq(Byte) /\ Len(u) = Len(w) + 1
      /\ \A i \in 1..Len(w) : u[i] = w[i]
      /\ u[Len(w) + 1] = c
  BY <1>1, Appended, Zenon
<1> HIDE DEF u
<1>4. 1 \in 1..Len(w) /\ 2 \in 1..Len(w) /\ Len(w) + 1 = 3
  BY <1>1
<1>5. Len(u) = 3 /\ u[1] = a /\ u[2] = b /\ u[3] = c
  BY <1>1, <1>3, <1>4
<1>6. \A i \in 1..3 : i = 1 \/ i = 2 \/ i = 3
  OBVIOUS
<1>7. \A i \in 1..3 : u[i] = v[i]
  BY <1>2, <1>5, <1>6
<1>8. u = v
  BY <1>3, <1>2, <1>5, <1>7, SeqEqual
<1> QED
  BY <1>8 DEF u, v, w

-----------------------------------------------------------------------------
(* One byte *)

(* The state goes on to a state, whatever the byte. *)
LEMMA NextStateIsState ==
    ASSUME NEW state \in TelnetState, NEW c \in Byte
    PROVE  NextState(state, c) \in TelnetState
<1>1. CASE state \in {"DATA", "CR"}
  BY <1>1 DEF NextState, TelnetState
<1>2. CASE state = "IAC"
  BY <1>2 DEF NextState, TelnetState, Verb, WILL, WONT, DO, DONT, SB
<1>3. CASE state = "SB"
  BY <1>3 DEF NextState, TelnetState
<1>4. CASE state = "SE"
  BY <1>4 DEF NextState, TelnetState
<1>5. CASE state \in OptionState
  BY <1>5 DEF NextState, TelnetState, OptionState
<1> QED
  BY <1>1, <1>2, <1>3, <1>4, <1>5 DEF TelnetState, OptionState

(* Text is passed on as bytes. *)
LEMMA SerialBytes ==
    ASSUME NEW t \in Telnet, NEW c \in Byte
    PROVE  ToSerial(t, c) \in Seq(Byte)
<1>1. <<CR, LF>> \in Seq(Byte) /\ <<c>> \in Seq(Byte) /\ << >> \in Seq(Byte)
  BY DEF CR, LF, Byte
<1>2. putchar(c) \in {<<CR, LF>>, <<c>>}
  BY DEF putchar
<1> QED
  BY <1>1, <1>2 DEF ToSerial

(* Replies and offers are bytes, the option echoed in them included. *)
LEMMA ClientBytes ==
    ASSUME NEW t \in Telnet, NEW c \in Byte
    PROVE  ToClient(t, c) \in Seq(Byte)
<1>1. ASSUME NEW option \in Byte
      PROVE  /\ send_do(option) \in Seq(Byte) /\ send_dont(option) \in Seq(Byte)
             /\ send_will(option) \in Seq(Byte) /\ send_wont(option) \in Seq(Byte)
  BY DEF send_do, send_dont, send_will, send_wont, IAC, DO, DONT, WILL, WONT, Byte
<1>2. << >> \in Seq(Byte)
  OBVIOUS
<1>3. Offers(t) \in Seq(Byte)
  <2>1. TELOPT_BINARY \in Byte /\ TELOPT_ECHO \in Byte
    BY DEF TELOPT_BINARY, TELOPT_ECHO, Byte
  <2>2. send_will(TELOPT_BINARY) \o send_will(TELOPT_ECHO) \in Seq(Byte)
    BY <1>1, <2>1, Concatenated
  <2> QED
    BY <1>2, <2>2 DEF Offers
<1>4. ASSUME t.telnet_state \in OptionState
      PROVE  Answer(t.telnet_state, c) \in Seq(Byte)
  <2>1. CASE t.telnet_state = "WILL"
    BY <1>1, <2>1 DEF Answer
  <2>2. CASE t.telnet_state = "DO"
    BY <1>1, <2>2 DEF Answer
  <2>3. CASE t.telnet_state \in {"WONT", "DONT"}
    BY <1>2, <2>3 DEF Answer
  <2> QED
    BY <1>4, <2>1, <2>2, <2>3 DEF OptionState
<1>5. recv_ayt \in Seq(Byte)
  BY DEF recv_ayt, Byte
<1>6. CASE t.telnet_state \in OptionState
  BY <1>3, <1>4, <1>6, Concatenated DEF ToClient
<1>7. CASE t.telnet_state \notin OptionState
  BY <1>2, <1>5, <1>7 DEF ToClient
<1> QED
  BY <1>6, <1>7

(* The four verbs have a state each, and the bytes told apart are different ones. *)
LEMMA Verbs ==
    /\ Verb[WILL] = "WILL" /\ Verb[WONT] = "WONT" /\ Verb[DO] = "DO" /\ Verb[DONT] = "DONT"
    /\ DOMAIN Verb = {WILL, WONT, DO, DONT}
    /\ SB \notin {WILL, WONT, DO, DONT} /\ IAC \notin {WILL, WONT, DO, DONT, SB}
    /\ {WILL, WONT, DO, DONT} \subseteq Byte /\ IAC \in Byte /\ SB \in Byte
    /\ CR # IAC /\ CR \notin {NUL, LF} /\ IAC \notin {NUL, LF} /\ CR \in Byte
    /\ AYT \notin {WILL, WONT, DO, DONT, SB, IAC} /\ SE # IAC
BY DEF Verb, WILL, WONT, DO, DONT, SB, IAC, CR, NUL, LF, AYT, SE, Byte

(* The state machine, state by state. *)
LEMMA NextStates ==
    ASSUME NEW c \in Byte, NEW st
    PROVE  /\ st \in {"DATA", "CR"} =>
                NextState(st, c) = IF c = IAC THEN "IAC" ELSE IF c = CR THEN "CR" ELSE "DATA"
           /\ st = "IAC" /\ c = SB => NextState(st, c) = "SB"
           /\ st = "IAC" /\ c \in {WILL, WONT, DO, DONT} => NextState(st, c) = Verb[c]
           /\ st = "IAC" /\ c \notin {WILL, WONT, DO, DONT, SB} => NextState(st, c) = "DATA"
           /\ st = "SB" => NextState(st, c) = IF c = IAC THEN "SE" ELSE "SB"
           /\ st = "SE" => NextState(st, c) = IF c = SE THEN "DATA" ELSE "SB"
           /\ st \in OptionState => NextState(st, c) = "DATA"
<1>1. CASE st \in {"DATA", "CR"}
  BY <1>1 DEF NextState, OptionState
<1>2. CASE st = "IAC"
  <2>1. NextState(st, c) = IF c = SB THEN "SB" ELSE IF c \in DOMAIN Verb THEN Verb[c] ELSE "DATA"
    BY <1>2 DEF NextState, OptionState
  <2> QED
    BY <1>2, <2>1, Verbs DEF OptionState
<1>3. CASE st = "SB"
  BY <1>3 DEF NextState, OptionState
<1>4. CASE st = "SE"
  BY <1>4 DEF NextState, OptionState
<1>5. CASE st \in OptionState
  BY <1>5 DEF NextState, OptionState
<1> QED
  BY <1>1, <1>2, <1>3, <1>4, <1>5 DEF OptionState

-----------------------------------------------------------------------------
(* Reading *)

(* The recursion over the prefixes of s is well defined. *)
LEMMA ReadingSteps ==
    ASSUME NEW s \in Seq(Byte)
    PROVE  /\ Reading(s)[0] = NothingRead
           /\ \A n \in 1..Len(s) : Reading(s)[n] = ReadOn(s, Reading(s)[n - 1], n)
<1> DEFINE Body(m, f) == [n \in 0..m |-> IF n = 0 THEN NothingRead ELSE ReadOn(s, f[n - 1], n)]
           Exists(m) == \E f : f = Body(m, f)
           T == {m \in Nat : Exists(m)}
           r == CHOOSE f : f = Body(Len(s), f)
<1>1. 0 \in T
  <2>1. [n \in 0..0 |-> NothingRead] = Body(0, [n \in 0..0 |-> NothingRead])
    <3>1. \A n \in 0..0 : n = 0
      OBVIOUS
    <3> QED
      BY <3>1, Zenon
  <2>2. Exists(0)
    BY <2>1
  <2> QED
    BY <2>2
<1>2. ASSUME NEW m \in Nat, m \in T
      PROVE  m + 1 \in T
  <2>1. PICK f : f = Body(m, f)
    BY <1>2
  <2> DEFINE g == [n \in 0..(m + 1) |-> IF n = m + 1 THEN ReadOn(s, f[m], m + 1) ELSE f[n]]
  <2>2. \A n \in 0..m : n \in 0..(m + 1) /\ n # m + 1
    OBVIOUS
  <2>3. \A n \in 0..m : g[n] = f[n]
    BY <2>2, Zenon
  <2>4. \A n \in 0..(m + 1) : n # m + 1 => n \in 0..m /\ (n # 0 => n - 1 \in 0..m)
    OBVIOUS
  <2>5. m + 1 # 0 /\ m + 1 - 1 = m /\ m \in 0..m /\ m + 1 \in 0..(m + 1)
    OBVIOUS
  <2>6. ASSUME NEW n \in 0..(m + 1)
        PROVE  g[n] = IF n = 0 THEN NothingRead ELSE ReadOn(s, g[n - 1], n)
    <3>1. CASE n = m + 1
      <4>1. g[n] = ReadOn(s, f[m], m + 1)
        BY <3>1, <2>5, Zenon
      <4>2. g[n - 1] = f[m]
        BY <3>1, <2>3, <2>5
      <4> HIDE DEF g
      <4> QED
        BY <3>1, <4>1, <4>2, <2>5
    <3>2. CASE n # m + 1
      <4>1. f[n] = IF n = 0 THEN NothingRead ELSE ReadOn(s, f[n - 1], n)
        BY <2>1, <2>4, <3>2, Zenon
      <4> HIDE DEF g
      <4> QED
        BY <3>2, <4>1, <2>3, <2>4
    <3> QED
      BY <3>1, <3>2
  <2>7. g = [n \in 0..(m + 1) |-> g[n]]
    OBVIOUS
  <2> HIDE DEF g
  <2>8. g = Body(m + 1, g)
    BY <2>6, <2>7
  <2>9. Exists(m + 1)
    BY <2>8
  <2> QED
    BY <2>9
<1>3. r = Body(Len(s), r)
  <2>1. Len(s) \in T
    <3>1. Len(s) \in Nat
      OBVIOUS
    <3> HIDE DEF T
    <3> QED
      BY <3>1, <1>1, <1>2, Induction
  <2>2. Exists(Len(s))
    BY <2>1
  <2> HIDE DEF Body
  <2> QED
    BY <2>2
<1>4. Reading(s) = r
  BY Zenon DEF Reading, r
<1> HIDE DEF r
<1>5. r[0] = NothingRead
  <2>1. 0 \in 0..Len(s)
    OBVIOUS
  <2> QED
    BY <1>3, <2>1, Zenon
<1>6. \A n \in 1..Len(s) : r[n] = ReadOn(s, r[n - 1], n)
  <2>1. \A n \in 1..Len(s) : n \in 0..Len(s) /\ n # 0
    OBVIOUS
  <2> QED
    BY <1>3, <2>1, Zenon
<1> QED
  BY <1>4, <1>5, <1>6

(* Reading on either leaves the reading as it is or takes up to the n-th byte. *)
LEMMA ReadOnFrom ==
    ASSUME NEW s \in Seq(Byte), NEW n \in 1..Len(s), NEW r, r.from \in 1..n
    PROVE  /\ SubSeq(s, r.from, n) \in Seq(Byte)
           /\ Len(SubSeq(s, r.from, n)) = n - r.from + 1
           /\ r.from + Len(SubSeq(s, r.from, n)) = n + 1
           /\ ReadOn(s, r, n).from \in {r.from, n + 1}
<1> DEFINE u == SubSeq(s, r.from, n)
<1>1. r.from \in Nat \ {0} /\ n \in 0..Len(s) /\ r.from <= n
  OBVIOUS
<1>2. u \in Seq(Byte) /\ Len(u) = n - r.from + 1
  BY <1>1, PartOf
<1>3. r.from + Len(u) = n + 1
  BY <1>1, <1>2
<1> HIDE DEF u
<1>4. WithUnit(r, u).from = n + 1
  BY <1>3 DEF WithUnit
<1>5. ReadOn(s, r, n) \in {WithUnit(r, u), r}
  BY DEF ReadOn, u
<1> QED
  BY <1>2, <1>3, <1>4, <1>5 DEF u

(* The next unit begins within the bytes read or right after them. *)
LEMMA FromInRange ==
    ASSUME NEW s \in Seq(Byte)
    PROVE  \A n \in 0..Len(s) : Reading(s)[n].from \in 1..(n + 1)
<1> DEFINE r == Reading(s)
           T == {n \in Nat : n <= Len(s) => r[n].from \in 1..(n + 1)}
<1>1. /\ r[0] = NothingRead
      /\ \A n \in 1..Len(s) : r[n] = ReadOn(s, r[n - 1], n)
  BY ReadingSteps
<1> HIDE DEF r
<1>2. 0 \in T
  BY <1>1 DEF NothingRead
<1>3. ASSUME NEW n \in Nat, n \in T
      PROVE  n + 1 \in T
  <2> SUFFICES ASSUME n + 1 <= Len(s)
               PROVE  r[n + 1].from \in 1..((n + 1) + 1)
    OBVIOUS
  <2>1. n + 1 \in 1..Len(s) /\ (n + 1) - 1 = n /\ r[n].from \in 1..(n + 1)
    BY <1>3
  <2>2. r[n + 1] = ReadOn(s, r[n], n + 1)
    BY <1>1, <2>1
  <2> DEFINE a == r[n]
             m == n + 1
  <2> HIDE DEF a, m
  <2>3. m \in 1..Len(s) /\ a.from \in 1..m
    BY <2>1 DEF a, m
  <2>4. ReadOn(s, a, m).from \in {a.from, m + 1}
    BY <2>3, ReadOnFrom
  <2> QED
    BY <2>1, <2>2, <2>4 DEF a, m
<1>4. \A n \in Nat : n \in T
  <2> HIDE DEF T
  <2> QED
    BY <1>2, <1>3, Induction
<1> QED
  BY <1>4 DEF r

(* A byte appended does not change how the bytes before the last one are read. *)
LEMMA ReadingOfLonger ==
    ASSUME NEW s \in Seq(Byte), NEW c \in Byte
    PROVE  \A n \in 0..Len(s) :
              n = 0 \/ n < Len(s) => Reading(Append(s, c))[n] = Reading(s)[n]
<1> DEFINE t == Append(s, c)
           r == Reading(s)
           q == Reading(t)
           T == {n \in Nat : n = 0 \/ n < Len(s) => q[n] = r[n]}
<1>1. /\ t \in Seq(Byte) /\ Len(t) = Len(s) + 1
      /\ \A i \in 1..Len(s) : t[i] = s[i]
      /\ \A a \in Nat \ {0} : \A b \in 0..Len(s) : SubSeq(t, a, b) = SubSeq(s, a, b)
  <2>1. 1 \in Nat \ {0}
    OBVIOUS
  <2>2. /\ t \in Seq(Byte) /\ Len(t) = Len(s) + 1
        /\ \A i \in 1..Len(s) : t[i] = s[i]
    BY <2>1, PartOfLonger, Zenon
  <2>3. \A a \in Nat \ {0} : \A b \in 0..Len(s) : SubSeq(t, a, b) = SubSeq(s, a, b)
    BY PartOfLonger, Zenon
  <2> QED
    BY <2>2, <2>3, Zenon
<1> HIDE DEF t
<1>2. /\ r[0] = NothingRead
      /\ \A n \in 1..Len(s) : r[n] = ReadOn(s, r[n - 1], n)
      /\ \A n \in 0..Len(s) : r[n].from \in 1..(n + 1)
  BY ReadingSteps, FromInRange
<1>3. /\ q[0] = NothingRead
      /\ \A n \in 1..Len(t) : q[n] = ReadOn(t, q[n - 1], n)
  BY <1>1, ReadingSteps
<1> HIDE DEF r, q
<1>4. 0 \in T
  BY <1>2, <1>3
<1>5. ASSUME NEW n \in Nat, n \in T
      PROVE  n + 1 \in T
  <2> SUFFICES ASSUME n + 1 < Len(s)
               PROVE  q[n + 1] = r[n + 1]
    OBVIOUS
  <2> DEFINE m == n + 1
             a == r[n].from
  <2>1. /\ m \in 1..Len(s) /\ m \in 1..Len(t) /\ m \in 0..Len(s) /\ m - 1 = n
        /\ m < Len(s) /\ m < Len(t) /\ m + 1 \in 1..Len(s)
        /\ q[n] = r[n] /\ a \in Nat \ {0}
    BY <1>1, <1>2, <1>5
  <2>2. r[m] = ReadOn(s, r[n], m) /\ q[m] = ReadOn(t, r[n], m)
    BY <1>2, <1>3, <2>1
  <2>3. SubSeq(t, a, m) = SubSeq(s, a, m) /\ t[m + 1] = s[m + 1]
    BY <1>1, <2>1
  <2> HIDE DEF m
  <2>4. ReadOn(t, r[n], m) = ReadOn(s, r[n], m)
    BY <2>1, <2>3 DEF ReadOn, GoesOn
  <2> QED
    BY <2>2, <2>4 DEF m
<1>6. \A n \in Nat : n \in T
  <2> HIDE DEF T
  <2> QED
    BY <1>4, <1>5, Induction
<1> QED
  BY <1>6 DEF r, q, t

-----------------------------------------------------------------------------
(* The stream one byte at a time *)

(* The bytes since the last unit ... *)
Pending(s) == SubSeq(s, Decoded(s).from, Len(s))

(* ... and whether that one is a carriage return that another byte may join. *)
AfterCR(s) ==
    /\ Len(s) > 0
    /\ s[Len(s)] = CR
    /\ Reading(s)[Len(s) - 1].from = Len(s)

(* They are bytes, and as many as there are behind the last unit. *)
LEMMA PendingIsBytes ==
    ASSUME NEW s \in Seq(Byte)
    PROVE  /\ Decoded(s).from \in 1..(Len(s) + 1)
           /\ Pending(s) \in Seq(Byte)
           /\ Len(Pending(s)) = Len(s) + 1 - Decoded(s).from
<1> DEFINE a == Decoded(s).from
           n == Len(s)
<1>1. n \in Nat /\ n \in 0..n
  OBVIOUS
<1>2. a \in 1..(n + 1)
  BY <1>1, FromInRange DEF Decoded
<1> HIDE DEF a
<1>3. a \in Nat \ {0} /\ n \in 0..Len(s)
  BY <1>1, <1>2
<1> HIDE DEF n
<1>4. /\ SubSeq(s, a, n) \in Seq(Byte)
      /\ Len(SubSeq(s, a, n)) = IF a <= n THEN n - a + 1 ELSE 0
  BY <1>3, PartOf
<1>5. Len(SubSeq(s, a, n)) = n + 1 - a
  BY <1>1, <1>2, <1>4
<1> QED
  BY <1>2, <1>4, <1>5 DEF a, n, Pending

(* The unit of a carriage return is the same with the byte that joins it. *)
LEMMA LineEnd ==
    ASSUME NEW c \in {NUL, LF}
    PROVE  /\ IsUnit(<<CR>>) /\ IsUnit(<<CR, c>>)
           /\ Text(<<CR>>) = <<CR>> /\ Text(<<CR, c>>) = <<CR>>
           /\ ~IsOption(<<CR>>) /\ ~IsOption(<<CR, c>>)
           /\ Owed(<<CR>>) = << >> /\ Owed(<<CR, c>>) = << >>
<1>1. CR # IAC /\ CR # LF
  BY DEF CR, IAC, LF
<1>2. <<CR>>[1] = CR /\ <<CR, c>>[1] = CR /\ Len(<<CR>>) = 1 /\ Len(<<CR, c>>) = 2
  OBVIOUS
<1> DEFINE u == <<CR>>
           v == <<CR, c>>
<1>3. u # <<IAC, AYT>> /\ v # <<IAC, AYT>>
  <2>1. <<IAC, AYT>>[1] = IAC
    OBVIOUS
  <2> QED
    BY <1>1, <1>2, <2>1
<1>4. u[1] = CR /\ v[1] = CR /\ Len(u) = 1 /\ Len(v) = 2
  BY <1>2
<1> HIDE DEF u, v
<1>5. IsUnit(u) /\ IsUnit(v) /\ ~IsOption(u) /\ ~IsOption(v)
  BY <1>1, <1>4 DEF IsUnit, IsOption
<1>6. Text(u) = <<CR>> /\ Text(v) = <<CR>>
  BY <1>1, <1>4 DEF Text
<1>7. Owed(u) = << >> /\ Owed(v) = << >>
  BY <1>3, <1>5 DEF Owed
<1> QED
  BY <1>5, <1>6, <1>7 DEF u, v

(* A byte that does not join a carriage return goes to the pending ones. *)
LEMMA ByteIsRead ==
    ASSUME NEW s \in Seq(Byte), NEW c \in Byte, ~(AfterCR(s) /\ c \in {NUL, LF})
    PROVE  /\ Decoded(Append(s, c)) = IF IsUnit(Append(Pending(s), c))
                                      THEN WithUnit(Decoded(s), Append(Pending(s), c))
                                      ELSE Decoded(s)
           /\ AfterCR(Append(s, c)) <=> c = CR /\ Pending(s) = << >>
<1> DEFINE t == Append(s, c)
           n == Len(s)
           r == Reading(s)
           q == Reading(t)
           w == Pending(s)
<1>1. /\ n \in Nat /\ t \in Seq(Byte) /\ Len(t) = n + 1
      /\ \A i \in 1..n : t[i] = s[i]
      /\ t[n + 1] = c
  OBVIOUS
<1>2. /\ r[n].from \in 1..(n + 1) /\ w \in Seq(Byte) /\ Len(w) = n + 1 - r[n].from
  BY PendingIsBytes DEF Decoded
<1>3. SubSeq(t, r[n].from, n + 1) = Append(w, c)
  <2> DEFINE a == r[n].from
  <2>1. a \in Nat \ {0} /\ a <= n + 1
    BY <1>1, <1>2
  <2>2. w = SubSeq(s, a, Len(s))
    BY DEF Pending, Decoded
  <2> HIDE DEF a, w
  <2>3. SubSeq(t, a, Len(s) + 1) = Append(SubSeq(s, a, Len(s)), c)
    BY <2>1, PartOfLonger, Zenon
  <2> QED
    BY <2>2, <2>3 DEF a
<1>4. q[n] = r[n]
  <2>1. CASE n = 0
    <3>1. 0 \in 0..Len(s)
      OBVIOUS
    <3> QED
      BY <2>1, <3>1, ReadingOfLonger
  <2>2. CASE n > 0
    <3> DEFINE b == r[n - 1]
               u == SubSeq(s, b.from, n)
    <3>1. n - 1 \in 0..Len(s) /\ n - 1 < Len(s) /\ n \in 1..Len(s) /\ n \in 1..Len(t)
      BY <1>1, <2>2
    <3>2. q[n - 1] = b
      BY <3>1, ReadingOfLonger
    <3>3. r[n] = ReadOn(s, b, n)
      BY <3>1, ReadingSteps
    <3>4. q[n] = ReadOn(t, b, n)
      <4> HIDE DEF b
      <4>1. q[n] = ReadOn(t, q[n - 1], n)
        <5> HIDE DEF t, n
        <5> QED
          BY <3>1, <1>1, ReadingSteps
      <4> QED
        BY <4>1, <3>2
    <3>5. b.from \in 1..((n - 1) + 1)
      BY <3>1, FromInRange
    <3> HIDE DEF b
    <3>6. b.from \in 1..n /\ b.from \in Nat \ {0} /\ n \in 0..Len(s)
      BY <1>1, <2>2, <3>5
    <3>7. SubSeq(t, b.from, n) = u
      <4> HIDE DEF n
      <4> QED
        BY <3>6, SamePart
    <3>8. u \in Seq(Byte) /\ Len(u) = n - b.from + 1 /\ u[1] = s[b.from + 1 - 1]
      <4>1. /\ Len(u) = IF b.from <= n THEN n - b.from + 1 ELSE 0
            /\ \A i \in 1..(n - b.from + 1) : u[i] = s[b.from + i - 1]
            /\ u \in Seq(Byte)
        <5> HIDE DEF n
        <5> QED
          BY <3>6, PartOf, Zenon
      <4>2. 1 \in 1..(n - b.from + 1)
        BY <1>1, <3>6
      <4> QED
        BY <3>6, <4>1, <4>2
    <3> HIDE DEF u, t, r, q
    <3>9. ~GoesOn(s, u, n)
      BY <1>1 DEF GoesOn
    <3>10. ~GoesOn(t, u, n)
      <4> SUFFICES ASSUME u = <<CR>>, c \in {NUL, LF}
                   PROVE  FALSE
        BY <1>1 DEF GoesOn
      <4>1. b.from = n
        BY <1>1, <3>6, <3>8
      <4>2. s[n] = CR
        BY <1>1, <3>8, <4>1
      <4>3. AfterCR(s)
        BY <2>2, <4>1, <4>2 DEF AfterCR, b, r
      <4> QED
        BY <4>3
    <3> QED
      BY <3>3, <3>4, <3>7, <3>9, <3>10 DEF ReadOn, u
  <2> QED
    BY <1>1, <2>1, <2>2
<1>5. Decoded(t) = ReadOn(t, r[n], n + 1)
  <2>1. n + 1 \in 1..Len(t) /\ (n + 1) - 1 = n
    BY <1>1
  <2>2. Decoded(t) = q[n + 1]
    BY <1>1 DEF Decoded
  <2>3. q[n + 1] = ReadOn(t, q[(n + 1) - 1], n + 1)
    <3> DEFINE m == n + 1
    <3> HIDE DEF m, t
    <3> QED
      BY <2>1, <1>1, ReadingSteps DEF m
  <2> QED
    BY <1>4, <2>1, <2>2, <2>3
<1>6. AfterCR(t) <=> c = CR /\ r[n].from = n + 1
  <2>1. Len(t) > 0 /\ Len(t) - 1 = n
    BY <1>1
  <2>2. Reading(t)[Len(t) - 1] = r[n]
    BY <1>4, <2>1
  <2> HIDE DEF t, r
  <2> QED
    BY <1>1, <2>1, <2>2 DEF AfterCR
<1> HIDE DEF t, w
<1>7. w = << >> <=> r[n].from = n + 1
  BY <1>1, <1>2
<1>8. Decoded(t) = IF IsUnit(Append(w, c)) THEN WithUnit(r[n], Append(w, c)) ELSE r[n]
  <2>1. ~GoesOn(t, Append(w, c), n + 1)
    BY <1>1 DEF GoesOn
  <2> QED
    BY <1>3, <1>5, <2>1 DEF ReadOn
<1> QED
  BY <1>6, <1>7, <1>8 DEF t, w, Decoded

(* A byte that joins a carriage return changes nothing but where the next unit
   begins. *)
LEMMA ByteJoinsCR ==
    ASSUME NEW s \in Seq(Byte), NEW c \in {NUL, LF}, AfterCR(s)
    PROVE  /\ Decoded(Append(s, c)).text = Decoded(s).text
           /\ Decoded(Append(s, c)).replies = Decoded(s).replies
           /\ Decoded(Append(s, c)).offered = Decoded(s).offered
           /\ Decoded(Append(s, c)).from = Len(s) + 2
           /\ ~AfterCR(Append(s, c))
<1> DEFINE t == Append(s, c)
           n == Len(s)
           r == Reading(s)
           q == Reading(t)
           b == r[n - 1]
<1>1. c \in Byte /\ c # CR
  BY DEF NUL, LF, CR, Byte
<1>2. /\ n \in Nat /\ t \in Seq(Byte) /\ Len(t) = n + 1
      /\ \A i \in 1..n : t[i] = s[i]
      /\ t[n + 1] = c
  BY <1>1
<1>3. n > 0 /\ s[n] = CR /\ b.from = n
  BY DEF AfterCR
<1>4. n - 1 \in 0..Len(s) /\ n - 1 < Len(s) /\ n \in 1..Len(s) /\ n \in 1..Len(t)
  BY <1>2, <1>3
<1>5. q[n - 1] = b
  BY <1>1, <1>4, ReadingOfLonger
<1>6. Decoded(s) = ReadOn(s, b, n)
  BY <1>4, ReadingSteps DEF Decoded
<1>7. q[n] = ReadOn(t, b, n)
  <2> HIDE DEF b
  <2>1. q[n] = ReadOn(t, q[n - 1], n)
    <3> HIDE DEF t, n
    <3> QED
      BY <1>2, <1>4, ReadingSteps
  <2> QED
    BY <1>5, <2>1
<1>8. Decoded(t) = ReadOn(t, q[n], n + 1)
  <2>1. n + 1 \in 1..Len(t) /\ (n + 1) - 1 = n
    BY <1>2
  <2>2. Decoded(t) = q[n + 1]
    BY <1>2 DEF Decoded
  <2>3. q[n + 1] = ReadOn(t, q[(n + 1) - 1], n + 1)
    <3> DEFINE m == n + 1
    <3> HIDE DEF m, t
    <3> QED
      BY <2>1, <1>2, ReadingSteps DEF m
  <2> QED
    BY <2>1, <2>2, <2>3
<1>9. SubSeq(s, n, n) = <<CR>> /\ SubSeq(t, n, n) = <<CR>>
  <2>1. n \in Nat \ {0} /\ n \in 0..Len(s)
    BY <1>2, <1>4
  <2> DEFINE u == SubSeq(s, n, n)
  <2>2. /\ u \in Seq(Byte)
        /\ Len(u) = IF n <= n THEN n - n + 1 ELSE 0
        /\ \A i \in 1..(n - n + 1) : u[i] = s[n + i - 1]
    <3> HIDE DEF n
    <3> QED
      BY <2>1, PartOf
  <2>3. SubSeq(t, n, n) = u
    <3> HIDE DEF n
    <3> QED
      BY <1>1, <2>1, SamePart
  <2> HIDE DEF u
  <2>4. Len(u) = 1 /\ u[1] = CR
    <3>1. n - n + 1 = 1 /\ n + 1 - 1 = n /\ 1 \in 1..1
      BY <1>2
    <3> QED
      BY <1>3, <2>2, <3>1
  <2>5. u = <<CR>>
    BY <2>2, <2>4
  <2> QED
    BY <2>3, <2>5 DEF u
<1>10. SubSeq(t, n, n + 1) = <<CR, c>>
  <2>1. n \in Nat \ {0} /\ n <= Len(s) + 1
    BY <1>2, <1>4
  <2> HIDE DEF n
  <2>2. SubSeq(t, n, Len(s) + 1) = Append(SubSeq(s, n, Len(s)), c)
    BY <1>1, <2>1, PartOfLonger, Zenon
  <2>3. Append(<<CR>>, c) = <<CR, c>>
    <3>1. CR \in Byte
      BY DEF CR, Byte
    <3> QED
      BY <3>1, <1>1, AppendToOne, Zenon
  <2>4. SubSeq(t, n, n + 1) = Append(SubSeq(s, n, n), c)
    BY <2>2, Zenon DEF n
  <2> QED
    BY <1>9, <2>3, <2>4, Zenon
<1> HIDE DEF t, r, q, b
<1>11. Decoded(s) = WithUnit(b, <<CR>>)
  <2>1. ~GoesOn(s, <<CR>>, n)
    BY <1>2 DEF GoesOn
  <2> QED
    BY <1>3, <1>6, <1>9, <2>1, LineEnd DEF ReadOn
<1>12. q[n] = b
  <2>1. GoesOn(t, <<CR>>, n)
    BY <1>2 DEF GoesOn
  <2> QED
    BY <1>3, <1>7, <1>9, <2>1 DEF ReadOn
<1>13. Decoded(t) = WithUnit(b, <<CR, c>>)
  <2>1. ~GoesOn(t, <<CR, c>>, n + 1)
    BY <1>2 DEF GoesOn
  <2> QED
    BY <1>3, <1>8, <1>10, <1>12, <2>1, LineEnd DEF ReadOn
<1>14. /\ Decoded(t).text = Decoded(s).text
       /\ Decoded(t).replies = Decoded(s).replies
       /\ Decoded(t).offered = Decoded(s).offered
  <2> DEFINE u == <<CR>>
             v == <<CR, c>>
  <2>1. /\ Text(u) = Text(v) /\ Owed(u) = Owed(v)
        /\ ~IsOption(u) /\ ~IsOption(v)
    BY LineEnd
  <2> HIDE DEF u, v
  <2>2. Decoded(s) = WithUnit(b, u) /\ Decoded(t) = WithUnit(b, v)
    BY <1>11, <1>13 DEF u, v
  <2> QED
    BY <2>1, <2>2 DEF WithUnit, OffersWith
<1>15. Decoded(t).from = n + 2
  <2>1. Len(<<CR, c>>) = 2
    OBVIOUS
  <2> QED
    BY <1>3, <1>13, <2>1 DEF WithUnit
<1>16. ~AfterCR(t)
  BY <1>1, <1>2 DEF AfterCR
<1> QED
  BY <1>14, <1>15, <1>16 DEF t

(* So a byte either completes the pending bytes to a unit, which says what it
   says, or stays pending. *)
LEMMA ByteCompletes ==
    ASSUME NEW s \in Seq(Byte), NEW c \in Byte, ~(AfterCR(s) /\ c \in {NUL, LF}),
           IsUnit(Append(Pending(s), c))
    PROVE  LET u == Append(Pending(s), c)
               r == Decoded(s)
               q == Decoded(Append(s, c))
           IN  /\ Pending(Append(s, c)) = << >>
               /\ q.text = r.text \o Text(u)
               /\ q.replies = r.replies \o (Owed(u) \o OffersWith(u, r.offered))
               /\ q.offered = (r.offered \/ IsOption(u))
<1> DEFINE t == Append(s, c)
           u == Append(Pending(s), c)
           r == Decoded(s)
<1>1. Decoded(t) = WithUnit(r, u)
  BY ByteIsRead
<1>2. r.from \in 1..(Len(s) + 1) /\ Pending(s) \in Seq(Byte)
      /\ Len(Pending(s)) = Len(s) + 1 - r.from
  BY PendingIsBytes
<1>3. Len(u) = Len(Pending(s)) + 1
  BY <1>2, Appended
<1>4. Len(t) = Len(s) + 1 /\ Len(s) \in Nat
  BY Appended
<1> HIDE DEF t, u, r
<1>5. Decoded(t).from = r.from + Len(u)
  BY <1>1 DEF WithUnit
<1>6. Decoded(t).from = Len(s) + 2
  BY <1>2, <1>3, <1>4, <1>5
<1>7. Pending(t) = << >>
  <2>1. Len(s) + 2 \in Int /\ Len(t) \in Int /\ Len(t) < Len(s) + 2
    BY <1>4
  <2> QED
    BY <1>6, <2>1, SubSeqEmpty DEF Pending
<1>8. /\ Decoded(t).text = r.text \o Text(u)
      /\ Decoded(t).replies = r.replies \o (Owed(u) \o OffersWith(u, r.offered))
      /\ Decoded(t).offered = (r.offered \/ IsOption(u))
  <2> DEFINE from == r.from + Len(u)
             text == r.text \o Text(u)
             replies == r.replies \o (Owed(u) \o OffersWith(u, r.offered))
             offered == r.offered \/ IsOption(u)
  <2>1. Decoded(t) = [from |-> from, text |-> text, replies |-> replies, offered |-> offered]
    BY <1>1 DEF WithUnit
  <2> HIDE DEF from, text, replies, offered
  <2>2. /\ Decoded(t).text = text /\ Decoded(t).replies = replies
        /\ Decoded(t).offered = offered
    BY <2>1
  <2> QED
    BY <2>2 DEF text, replies, offered
<1> QED
  BY <1>7, <1>8 DEF t, u, r

(* A byte that completes nothing is put behind the pending ones. *)
LEMMA ByteStaysPending ==
    ASSUME NEW s \in Seq(Byte), NEW c \in Byte, ~(AfterCR(s) /\ c \in {NUL, LF}),
           ~IsUnit(Append(Pending(s), c))
    PROVE  /\ Decoded(Append(s, c)) = Decoded(s)
           /\ Pending(Append(s, c)) = Append(Pending(s), c)
<1> DEFINE t == Append(s, c)
           a == Decoded(s).from
<1>1. Decoded(t) = Decoded(s)
  BY ByteIsRead
<1>2. a \in 1..(Len(s) + 1)
  BY PendingIsBytes
<1>3. Len(t) = Len(s) + 1 /\ Len(s) \in Nat
  BY Appended
<1>4. Pending(t) = SubSeq(t, a, Len(s) + 1)
  BY <1>1, <1>3, Zenon DEF Pending
<1>5. Pending(s) = SubSeq(s, a, Len(s))
  BY DEF Pending
<1>6. SubSeq(t, a, Len(s) + 1) = Append(SubSeq(s, a, Len(s)), c)
  <2>1. a \in Nat \ {0} /\ a <= Len(s) + 1
    BY <1>2, <1>3
  <2> HIDE DEF a
  <2> QED
    BY <2>1, PartOfLonger, Zenon
<1> QED
  BY <1>1, <1>4, <1>5, <1>6

-----------------------------------------------------------------------------
(* What the units say *)

(* A byte other than 255 is a unit: itself, with a newline made CR LF. *)
LEMMA DataUnit ==
    ASSUME NEW c \in Byte, c # IAC
    PROVE  /\ IsUnit(<<c>>)
           /\ Text(<<c>>) = putchar(c)
           /\ ~IsOption(<<c>>)
           /\ Owed(<<c>>) = << >>
<1> DEFINE u == <<c>>
<1>1. u[1] = c /\ Len(u) = 1 /\ u # <<IAC, AYT>>
  <2>1. Len(<<IAC, AYT>>) = 2 /\ Len(<<c>>) = 1
    OBVIOUS
  <2> QED
    BY <2>1
<1> HIDE DEF u
<1>2. IsUnit(u) /\ ~IsOption(u)
  BY <1>1 DEF IsUnit, IsOption
<1>3. Text(u) = putchar(c)
  BY <1>1 DEF Text, putchar
<1>4. Owed(u) = << >>
  BY <1>1, <1>2 DEF Owed
<1> QED
  BY <1>2, <1>3, <1>4 DEF u

(* A 255 alone is none. *)
LEMMA LoneIAC == ~IsUnit(<<IAC>>)
<1> DEFINE u == <<IAC>>
<1>1. u[1] = IAC /\ Len(u) = 1
  OBVIOUS
<1> HIDE DEF u
<1>2. ~IsUnit(u)
  BY <1>1 DEF IsUnit
<1> QED
  BY <1>2 DEF u

(* With another byte it is, unless that one wants an option or begins a
   subnegotiation; 255 255 stands for a 255, and AYT is answered. *)
LEMMA CommandUnit ==
    ASSUME NEW c \in Byte
    PROVE  /\ IsUnit(<<IAC, c>>) <=> c \notin {WILL, WONT, DO, DONT, SB}
           /\ Text(<<IAC, c>>) = IF c = IAC THEN <<IAC>> ELSE << >>
           /\ ~IsOption(<<IAC, c>>)
           /\ Owed(<<IAC, c>>) = IF c = AYT THEN recv_ayt ELSE << >>
<1> DEFINE u == <<IAC, c>>
<1>1. u[1] = IAC /\ u[2] = c /\ Len(u) = 2 /\ (u = <<IAC, AYT>> <=> c = AYT)
  OBVIOUS
<1> HIDE DEF u
<1>2. IsUnit(u) <=> c \notin {WILL, WONT, DO, DONT, SB}
  BY <1>1 DEF IsUnit
<1>3. ~IsOption(u)
  BY <1>1 DEF IsOption
<1>4. Text(u) = IF c = IAC THEN <<IAC>> ELSE << >>
  <2>1. IAC # LF
    BY DEF IAC, LF
  <2> QED
    BY <1>1, <2>1 DEF Text
<1>5. Owed(u) = IF c = AYT THEN recv_ayt ELSE << >>
  BY <1>1, <1>3 DEF Owed
<1> QED
  BY <1>2, <1>3, <1>4, <1>5 DEF u

(* An option command is a unit of three bytes, and owes what recv_will and
   recv_do send. *)
LEMMA OptionUnit ==
    ASSUME NEW v \in DOMAIN Verb, NEW c \in Byte, NEW u, u = <<IAC, v, c>>
    PROVE  /\ IsUnit(u)
           /\ Text(u) = << >>
           /\ IsOption(u)
           /\ Owed(u) = Answer(Verb[v], c)
<1>1. v \in {WILL, WONT, DO, DONT}
  BY DEF Verb
<1>2. u[1] = IAC /\ u[2] = v /\ u[3] = c /\ Len(u) = 3 /\ u # <<IAC, AYT>>
  <2>1. Len(<<IAC, AYT>>) = 2 /\ Len(<<IAC, v, c>>) = 3
    OBVIOUS
  <2> QED
    BY <2>1
<1>3. IsUnit(u) /\ IsOption(u)
  BY <1>1, <1>2 DEF IsUnit, IsOption
<1>4. Text(u) = << >>
  <2>1. IAC # LF /\ v # IAC
    BY <1>1 DEF IAC, LF, WILL, WONT, DO, DONT
  <2> QED
    BY <1>2, <2>1 DEF Text
<1>5. WILL # WONT /\ WILL # DO /\ WILL # DONT /\ WONT # DO /\ WONT # DONT /\ DO # DONT
  BY DEF WILL, WONT, DO, DONT
<1>6. Verb[WILL] = "WILL" /\ Verb[WONT] = "WONT" /\ Verb[DO] = "DO" /\ Verb[DONT] = "DONT"
  BY <1>5 DEF Verb
<1>7. Owed(u) = Answer(Verb[v], c)
  <2>1. CASE v = WILL
    BY <1>2, <1>3, <1>5, <1>6, <2>1 DEF Owed, Answer, send_do, send_dont
  <2>2. CASE v = DO
    BY <1>2, <1>3, <1>5, <1>6, <2>2 DEF Owed, Answer, send_will, send_wont
  <2>3. CASE v \in {WONT, DONT}
    <3>1. Owed(u) = << >>
      BY <1>2, <1>3, <1>5, <2>3 DEF Owed
    <3>2. Answer(Verb[v], c) = << >>
      BY <1>6, <2>3 DEF Answer
    <3> QED
      BY <3>1, <3>2
  <2> QED
    BY <1>1, <2>1, <2>2, <2>3
<1> QED
  BY <1>3, <1>4, <1>7

(* Membership in the run of 255s before the byte that comes after the n-th. *)
LEMMA InRun ==
    ASSUME NEW u, NEW n \in Nat
    PROVE  \A i : i \in IACsBefore(u, n + 1)
                     <=> i \in 3..n /\ \A j \in i..n : u[j] = IAC
<1>1. ASSUME NEW k, NEW i
      PROVE  i \in IACsBefore(u, k) <=> i \in 3..(k - 1) /\ \A j \in i..(k - 1) : u[j] = IAC
  BY DEF IACsBefore
<1>2. n + 1 - 1 = n
  OBVIOUS
<1> QED
  BY <1>1, <1>2

(* A byte after w completes a pair if it stood alone before an odd number. *)
LEMMA PairsGoOn ==
    ASSUME NEW w \in Seq(Byte), Len(w) >= 2, NEW c \in Byte
    PROVE  /\ IsSecondOfPair(Append(w, c), Len(w) + 1) <=> IsSecondOfPair(w, Len(w) + 1)
           /\ IsSecondOfPair(Append(w, c), Len(w) + 2)
                <=> c = IAC /\ ~IsSecondOfPair(w, Len(w) + 1)
<1> DEFINE u == Append(w, c)
           n == Len(w)
           A == IACsBefore(w, n + 1)
           B == IACsBefore(u, n + 2)
<1>1. /\ n \in Nat /\ n >= 2
      /\ \A i \in 1..n : u[i] = w[i]
      /\ u[n + 1] = c
  BY Appended
<1> HIDE DEF u, n
<1>2. \A i : i \in A <=> i \in 3..n /\ \A j \in i..n : w[j] = IAC
  BY <1>1, InRun
<1>3. \A i : i \in B <=> i \in 3..(n + 1) /\ \A j \in i..(n + 1) : u[j] = IAC
  <2>1. n + 1 \in Nat /\ (n + 1) + 1 = n + 2
    BY <1>1
  <2> HIDE DEF B
  <2>2. \A i : i \in IACsBefore(u, (n + 1) + 1)
                 <=> i \in 3..(n + 1) /\ \A j \in i..(n + 1) : u[j] = IAC
    BY <2>1, InRun
  <2> QED
    BY <2>1, <2>2 DEF B
<1>4. IACsBefore(u, n + 1) = A
  <2>1. \A i : i \in IACsBefore(u, n + 1) <=> i \in 3..n /\ \A j \in i..n : u[j] = IAC
    BY <1>1, InRun
  <2>2. \A i \in 3..n : \A j \in i..n : u[j] = w[j]
    BY <1>1
  <2> HIDE DEF A
  <2>3. \A i : i \in IACsBefore(u, n + 1) <=> i \in A
    BY <1>2, <2>1, <2>2
  <2> QED
    BY <2>3
<1> HIDE DEF A, B
<1>5. IsFiniteSet(A) /\ n + 1 \notin A
  <2>1. IsFiniteSet(3..n)
    BY <1>1, FS_Interval
  <2>2. A \in SUBSET (3..n)
    BY <1>2
  <2>3. IsFiniteSet(A)
    BY <2>1, <2>2, FS_Subset
  <2> QED
    BY <1>1, <2>2, <2>3
<1>6. c # IAC => B = {}
  <2>1. \A i \in 3..(n + 1) : n + 1 \in i..(n + 1)
    BY <1>1
  <2> QED
    BY <1>1, <1>3, <2>1
<1>7. c = IAC => B = A \cup {n + 1}
  <2> SUFFICES ASSUME c = IAC
               PROVE  B = A \cup {n + 1}
    OBVIOUS
  <2>1. ASSUME NEW i \in 3..n
        PROVE  (\A j \in i..(n + 1) : u[j] = IAC) <=> (\A j \in i..n : w[j] = IAC)
    <3>1. \A j \in i..n : j \in 1..n /\ j \in i..(n + 1)
      BY <1>1
    <3>2. \A j \in i..(n + 1) : j = n + 1 \/ j \in i..n
      BY <1>1
    <3> QED
      BY <1>1, <3>1, <3>2
  <2>2. \A i \in 3..(n + 1) : i = n + 1 \/ i \in 3..n
    BY <1>1
  <2>3. n + 1 \in 3..(n + 1) /\ \A i \in 3..n : i \in 3..(n + 1)
    BY <1>1
  <2>4. \A j \in (n + 1)..(n + 1) : u[j] = IAC
    BY <1>1
  <2> QED
    BY <1>2, <1>3, <2>1, <2>2, <2>3, <2>4
<1>8. Cardinality(A) \in Nat
  BY <1>5, FS_CardinalityType
<1>9. Cardinality({}) = 0
  BY FS_EmptySet
<1>10. Cardinality(A \cup {n + 1}) = Cardinality(A) + 1
  BY <1>5, FS_AddElement
<1> DEFINE k == Cardinality(A)
           m == Cardinality(B)
<1>11. k \in Nat /\ (c # IAC => m = 0) /\ (c = IAC => m = k + 1)
  BY <1>6, <1>7, <1>8, <1>9, <1>10
<1> HIDE DEF k, m
<1>12. m % 2 = 1 <=> c = IAC /\ ~(k % 2 = 1)
  <2>1. CASE c = IAC
    <3>1. m = k + 1
      BY <1>11, <2>1
    <3>2. (k + 1) % 2 = 1 <=> ~(k % 2 = 1)
      BY <1>11
    <3> QED
      BY <2>1, <3>1, <3>2
  <2>2. CASE c # IAC
    <3>1. m = 0
      BY <1>11, <2>2
    <3>2. ~(0 % 2 = 1)
      OBVIOUS
    <3> QED
      BY <2>2, <3>1, <3>2
  <2> QED
    BY <2>1, <2>2
<1>13. IsSecondOfPair(w, n + 1) <=> k % 2 = 1
  BY DEF IsSecondOfPair, k, A
<1>14. IsSecondOfPair(u, n + 2) <=> m % 2 = 1
  BY DEF IsSecondOfPair, m, B
<1>15. IsSecondOfPair(u, n + 1) <=> k % 2 = 1
  BY <1>4 DEF IsSecondOfPair, k
<1> QED
  BY <1>12, <1>13, <1>14, <1>15 DEF u, n

(* Right after IAC SB no byte is the second of a pair. *)
LEMMA PairsBegin ==
    ASSUME NEW w \in Seq(Byte), Len(w) = 2
    PROVE  ~IsSecondOfPair(w, Len(w) + 1)
<1>1. IACsBefore(w, Len(w) + 1) = {}
  <2>1. Len(w) + 1 - 1 = 2 /\ 3..2 = {}
    OBVIOUS
  <2> QED
    BY <2>1 DEF IACsBefore
<1>2. Cardinality({}) = 0 /\ ~(0 % 2 = 1)
  BY FS_EmptySet
<1> QED
  BY <1>1, <1>2 DEF IsSecondOfPair

(* A subnegotiation is one when SE comes behind an unpaired 255, and says
   nothing. *)
LEMMA SubUnit ==
    ASSUME NEW w \in Seq(Byte), Len(w) >= 2, w[1] = IAC, w[2] = SB, NEW c \in Byte
    PROVE  /\ IsUnit(Append(w, c)) <=> c = SE /\ IsSecondOfPair(w, Len(w) + 1)
           /\ Text(Append(w, c)) = << >>
           /\ ~IsOption(Append(w, c))
           /\ Owed(Append(w, c)) = << >>
<1> DEFINE u == Append(w, c)
<1>1. /\ Len(u) = Len(w) + 1 /\ u[1] = IAC /\ u[2] = SB /\ u[Len(w) + 1] = c
      /\ Len(u) \in Nat /\ Len(u) >= 3 /\ (Len(u) > 3 <=> Len(w) # 2)
  <2>1. /\ Len(u) = Len(w) + 1
        /\ \A i \in 1..Len(w) : u[i] = w[i]
        /\ u[Len(w) + 1] = c
    BY Appended
  <2>2. Len(w) \in Nat /\ 1 \in 1..Len(w) /\ 2 \in 1..Len(w)
    OBVIOUS
  <2> HIDE DEF u
  <2>3. u[1] = IAC /\ u[2] = SB
    BY <2>1, <2>2
  <2> DEFINE m == Len(u)
             k == Len(w)
  <2>4. m = k + 1 /\ k \in Nat /\ k >= 2
    BY <2>1, <2>2
  <2> HIDE DEF m, k
  <2>5. m \in Nat /\ m >= 3 /\ (m > 3 <=> k # 2)
    BY <2>4
  <2> QED
    BY <2>1, <2>3, <2>5 DEF m, k
<1>2. IsSecondOfPair(u, Len(w) + 1) <=> IsSecondOfPair(w, Len(w) + 1)
  BY PairsGoOn
<1>3. Len(w) = 2 => ~IsSecondOfPair(w, Len(w) + 1)
  BY PairsBegin
<1>4. u # <<IAC, AYT>>
  <2>1. Len(<<IAC, AYT>>) = 2
    OBVIOUS
  <2> QED
    BY <1>1, <2>1
<1> HIDE DEF u
<1>5. SB \notin {WILL, WONT, DO, DONT} /\ SB # IAC /\ IAC # LF
  BY DEF SB, WILL, WONT, DO, DONT, IAC, LF
<1>6. IsUnit(u) <=> c = SE /\ IsSecondOfPair(w, Len(w) + 1)
  BY <1>1, <1>2, <1>3, <1>5 DEF IsUnit
<1>7. ~IsOption(u)
  BY <1>1, <1>5 DEF IsOption
<1>8. Text(u) = << >>
  BY <1>1, <1>5 DEF Text
<1>9. Owed(u) = << >>
  BY <1>4, <1>7 DEF Owed
<1> QED
  BY <1>6, <1>7, <1>8, <1>9 DEF u

(* The offers are those of telnet_init_once. *)
LEMMA OffersAreOffered ==
    ASSUME NEW t \in Telnet, NEW u
    PROVE  OffersWith(u, t.telopt_sent) = IF IsOption(u) THEN Offers(t) ELSE << >>
<1> DEFINE a == send_will(TELOPT_BINARY)
           b == send_will(TELOPT_ECHO)
           d == <<IAC, WILL, TELOPT_BINARY, IAC, WILL, TELOPT_ECHO>>
<1>1. a \o b = d
  <2>1. /\ a \in Seq(Byte) /\ Len(a) = 3
        /\ a[1] = IAC /\ a[2] = WILL /\ a[3] = TELOPT_BINARY
    BY DEF send_will, IAC, WILL, TELOPT_BINARY, Byte
  <2>2. /\ b \in Seq(Byte) /\ Len(b) = 3
        /\ b[1] = IAC /\ b[2] = WILL /\ b[3] = TELOPT_ECHO
    BY DEF send_will, IAC, WILL, TELOPT_ECHO, Byte
  <2>3. /\ d \in Seq(Byte) /\ Len(d) = 6
        /\ d[1] = IAC /\ d[2] = WILL /\ d[3] = TELOPT_BINARY
        /\ d[4] = IAC /\ d[5] = WILL /\ d[6] = TELOPT_ECHO
    BY DEF IAC, WILL, TELOPT_BINARY, TELOPT_ECHO, Byte
  <2> HIDE DEF a, b, d
  <2>4. /\ a \o b \in Seq(Byte)
        /\ Len(a \o b) = Len(a) + Len(b)
        /\ \A i \in 1..Len(a) + Len(b) :
              (a \o b)[i] = IF i <= Len(a) THEN a[i] ELSE b[i - Len(a)]
    BY <2>1, <2>2, ConcatProperties
  <2>5. \A i \in 1..6 : (a \o b)[i] = d[i]
    <3> DEFINE e == a \o b
    <3> HIDE DEF e
    <3>1. \A i \in 1..6 : e[i] = IF i <= 3 THEN a[i] ELSE b[i - 3]
      BY <2>1, <2>2, <2>4 DEF e
    <3>2. /\ e[1] = a[1] /\ e[2] = a[2] /\ e[3] = a[3]
          /\ e[4] = b[4 - 3] /\ e[5] = b[5 - 3] /\ e[6] = b[6 - 3]
      BY <3>1
    <3>3. 4 - 3 = 1 /\ 5 - 3 = 2 /\ 6 - 3 = 3
      OBVIOUS
    <3>4. /\ e[1] = d[1] /\ e[2] = d[2] /\ e[3] = d[3]
          /\ e[4] = d[4] /\ e[5] = d[5] /\ e[6] = d[6]
      BY <2>1, <2>2, <2>3, <3>2, <3>3
    <3>5. \A i \in 1..6 : i = 1 \/ i = 2 \/ i = 3 \/ i = 4 \/ i = 5 \/ i = 6
      OBVIOUS
    <3>6. \A i \in 1..6 : e[i] = d[i]
      BY <3>4, <3>5
    <3> QED
      BY <3>6 DEF e
  <2> QED
    BY <2>1, <2>2, <2>3, <2>4, <2>5, SeqEqual
<1> HIDE DEF a, b, d
<1>2. Offers(t) = IF t.telopt_sent THEN << >> ELSE d
  BY <1>1 DEF Offers, a, b
<1>3. OffersWith(u, t.telopt_sent) = IF IsOption(u) /\ ~t.telopt_sent THEN d ELSE << >>
  BY DEF OffersWith, d
<1> QED
  BY <1>2, <1>3

-----------------------------------------------------------------------------
(* The state machine keeps step with the grammar *)

(* w is a subnegotiation under way, half a pair at its end or not. *)
UnderWay(w, half) ==
    /\ Len(w) >= 2 /\ w[1] = IAC /\ w[2] = SB
    /\ half <=> IsSecondOfPair(w, Len(w) + 1)

(* telnet_state says which bytes are pending after s. *)
InStep(t, s) ==
    /\ t.telopt_sent = Decoded(s).offered
    /\ t.telnet_state = "CR" <=> AfterCR(s)
    /\ t.telnet_state \in {"DATA", "CR"} => Pending(s) = << >>
    /\ t.telnet_state = "IAC" => Pending(s) = <<IAC>>
    /\ \A v \in {WILL, WONT, DO, DONT} :
          t.telnet_state = Verb[v] => Pending(s) = <<IAC, v>>
    /\ t.telnet_state \in {"SB", "SE"} => UnderWay(Pending(s), t.telnet_state = "SE")

(* What a step has to show, from what the byte does to the pending ones. *)
LEMMA AfterCompletion ==
    ASSUME NEW t \in Telnet, NEW s \in Seq(Byte), NEW c \in Byte, InStep(t, s),
           ~(AfterCR(s) /\ c \in {NUL, LF}),
           IsUnit(Append(Pending(s), c)),
           NextState(t.telnet_state, c) \in {"DATA", "CR"},
           NextState(t.telnet_state, c) = "CR" <=> c = CR /\ Pending(s) = << >>,
           IsOption(Append(Pending(s), c)) <=> t.telnet_state \in OptionState
    PROVE  InStep(telnet_recv(t, c), Append(s, c))
<1> DEFINE q == telnet_recv(t, c)
           n == Append(s, c)
           st == NextState(t.telnet_state, c)
<1>1. q.telnet_state = st
  BY DEF telnet_recv
<1>2. q.telopt_sent = (t.telopt_sent \/ t.telnet_state \in OptionState)
  BY Zenon DEF telnet_recv
<1>3. Decoded(n).offered = (Decoded(s).offered \/ IsOption(Append(Pending(s), c)))
  BY ByteCompletes, Zenon
<1>4. Pending(n) = << >>
  BY ByteCompletes, Zenon
<1>5. AfterCR(n) <=> c = CR /\ Pending(s) = << >>
  BY ByteIsRead
<1>6. t.telopt_sent = Decoded(s).offered
  BY DEF InStep
<1>7. q.telopt_sent = Decoded(n).offered
  <2>1. (t.telopt_sent \/ t.telnet_state \in OptionState)
          = (t.telopt_sent \/ IsOption(Append(Pending(s), c)))
    BY Zenon
  <2> QED
    BY <1>2, <1>3, <1>6, <2>1, Zenon
<1> HIDE DEF q, n, st
<1>8. st \in {"DATA", "CR"} /\ (st = "CR" <=> c = CR /\ Pending(s) = << >>)
  BY DEF st
<1>9. \A v \in {WILL, WONT, DO, DONT} : Verb[v] \in {"WILL", "WONT", "DO", "DONT"}
  BY Verbs
<1> QED
  BY <1>1, <1>4, <1>5, <1>7, <1>8, <1>9 DEF InStep, q, n

(* The same when the byte stays pending. *)
LEMMA AfterPending ==
    ASSUME NEW t \in Telnet, NEW s \in Seq(Byte), NEW c \in Byte, InStep(t, s),
           ~(AfterCR(s) /\ c \in {NUL, LF}),
           ~IsUnit(Append(Pending(s), c)),
           t.telnet_state \notin OptionState,
           LET w == Append(Pending(s), c)
               st == NextState(t.telnet_state, c)
           IN  \/ st = "IAC" /\ w = <<IAC>>
               \/ \E v \in {WILL, WONT, DO, DONT} : st = Verb[v] /\ w = <<IAC, v>>
               \/ st \in {"SB", "SE"} /\ UnderWay(w, st = "SE")
    PROVE  /\ InStep(telnet_recv(t, c), Append(s, c))
           /\ Decoded(Append(s, c)) = Decoded(s)
<1> DEFINE q == telnet_recv(t, c)
           n == Append(s, c)
           st == NextState(t.telnet_state, c)
           w == Append(Pending(s), c)
<1>1. q.telnet_state = st
  BY DEF telnet_recv
<1>2. q.telopt_sent = (t.telopt_sent \/ t.telnet_state \in OptionState)
  BY Zenon DEF telnet_recv
<1>3. Decoded(n) = Decoded(s) /\ Pending(n) = w
  BY ByteStaysPending
<1>4. ~AfterCR(n)
  <2>1. ~(c = CR /\ Pending(s) = << >>)
    <3>1. ASSUME c = CR, Pending(s) = << >>
          PROVE  FALSE
      <4>1. w = <<c>>
        BY <3>1, AppendToNone
      <4>2. IsUnit(w)
        BY <3>1, <4>1, DataUnit, Verbs
      <4> QED
        BY <4>2
    <3> QED
      BY <3>1
  <2> QED
    BY <2>1, ByteIsRead
<1>5. t.telopt_sent = Decoded(s).offered /\ t.telopt_sent \in BOOLEAN
  BY DEF InStep, Telnet
<1>6. q.telopt_sent = Decoded(n).offered
  <2>1. (t.telopt_sent \/ t.telnet_state \in OptionState) = t.telopt_sent
    BY <1>5, Zenon
  <2> QED
    BY <1>2, <1>3, <1>5, <2>1, Zenon
<1>7. \/ st = "IAC" /\ w = <<IAC>>
      \/ \E v \in {WILL, WONT, DO, DONT} : st = Verb[v] /\ w = <<IAC, v>>
      \/ st \in {"SB", "SE"} /\ UnderWay(w, st = "SE")
  BY Zenon
<1> HIDE DEF q, n, st, w
<1>8. InStep(q, n)
  <2>1. CASE st = "IAC" /\ w = <<IAC>>
    BY <2>1, <1>1, <1>3, <1>4, <1>6, Verbs DEF InStep
  <2>2. ASSUME NEW v \in {WILL, WONT, DO, DONT}, st = Verb[v], w = <<IAC, v>>
        PROVE  InStep(q, n)
    <3>1. st \in {"WILL", "WONT", "DO", "DONT"}
      BY <2>2, Verbs
    <3>2. \A x \in {WILL, WONT, DO, DONT} : st = Verb[x] => x = v
      <4>1. \A x, y \in {WILL, WONT, DO, DONT} : Verb[x] = Verb[y] => x = y
        BY Verbs
      <4> QED
        BY <2>2, <4>1, Zenon
    <3> QED
      BY <3>1, <3>2, <2>2, <1>1, <1>3, <1>4, <1>6 DEF InStep
  <2>3. CASE st \in {"SB", "SE"} /\ UnderWay(w, st = "SE")
    BY <2>3, <1>1, <1>3, <1>4, <1>6, Verbs DEF InStep
  <2> QED
    BY <1>7, <2>1, <2>2, <2>3
<1> QED
  BY <1>3, <1>8 DEF q, n

(* What one more byte has to do. *)
Follows(t, s, c) ==
    /\ InStep(telnet_recv(t, c), Append(s, c))
    /\ Decoded(Append(s, c)).text = Decoded(s).text \o ToSerial(t, c)
    /\ Decoded(Append(s, c)).replies = Decoded(s).replies \o ToClient(t, c)

(* The text and the replies decoded so far are bytes. *)
SaysBytes(s) == Decoded(s).text \in Seq(Byte) /\ Decoded(s).replies \in Seq(Byte)

(* A line end's second half says nothing. *)
LEMMA SecondHalf ==
    ASSUME NEW t \in Telnet, NEW s \in Seq(Byte), NEW c \in {NUL, LF}, InStep(t, s),
           SaysBytes(s), t.telnet_state = "CR"
    PROVE  Follows(t, s, c)
<1> DEFINE q == telnet_recv(t, c)
           n == Append(s, c)
<1>1. AfterCR(s)
  BY DEF InStep
<1>2. c \in Byte /\ c # IAC /\ c # CR
  BY DEF NUL, LF, IAC, CR, Byte
<1>3. "CR" \notin OptionState /\ "CR" # "IAC" /\ "CR" # "DATA"
  BY DEF OptionState
<1>4. ToSerial(t, c) = << >> /\ ToClient(t, c) = << >>
  BY <1>2, <1>3 DEF ToSerial, ToClient, IsText
<1>5. q.telnet_state = "DATA"
  BY <1>2, NextStates DEF telnet_recv
<1>6. q.telopt_sent = t.telopt_sent
  <2>1. q.telopt_sent = (t.telopt_sent \/ t.telnet_state \in OptionState)
    BY Zenon DEF telnet_recv
  <2>2. t.telopt_sent \in BOOLEAN
    BY DEF Telnet
  <2>3. (t.telopt_sent \/ t.telnet_state \in OptionState) = t.telopt_sent
    BY <1>3, <2>2, Zenon
  <2> QED
    BY <2>1, <2>3
<1>7. /\ Decoded(n).text = Decoded(s).text
      /\ Decoded(n).replies = Decoded(s).replies
      /\ Decoded(n).offered = Decoded(s).offered
      /\ Decoded(n).from = Len(s) + 2
      /\ ~AfterCR(n)
  BY <1>1, ByteJoinsCR
<1>8. Pending(n) = << >>
  <2>1. Len(n) = Len(s) + 1 /\ Len(s) \in Nat
    BY <1>2, Appended
  <2> HIDE DEF n
  <2>2. Len(s) + 2 \in Int /\ Len(n) \in Int /\ Len(n) < Len(s) + 2
    BY <2>1
  <2> QED
    BY <1>7, <2>2, SubSeqEmpty DEF Pending
<1>9. t.telopt_sent = Decoded(s).offered
  BY DEF InStep
<1> HIDE DEF q, n
<1>10. \A v \in {WILL, WONT, DO, DONT} : Verb[v] # "DATA"
  BY Verbs
<1>11. InStep(q, n)
  BY <1>5, <1>6, <1>7, <1>8, <1>9, <1>10 DEF InStep
<1>12. /\ Decoded(s).text \o << >> = Decoded(s).text
       /\ Decoded(s).replies \o << >> = Decoded(s).replies
  BY NothingAppended DEF SaysBytes
<1> QED
  BY <1>4, <1>7, <1>11, <1>12 DEF Follows, q, n

(* A unit completed says what telnet_recv does. *)
LEMMA CompletionFollows ==
    ASSUME NEW t \in Telnet, NEW s \in Seq(Byte), NEW c \in Byte, InStep(t, s),
           ~(AfterCR(s) /\ c \in {NUL, LF}),
           IsUnit(Append(Pending(s), c)),
           NextState(t.telnet_state, c) \in {"DATA", "CR"},
           NextState(t.telnet_state, c) = "CR" <=> c = CR /\ Pending(s) = << >>,
           IsOption(Append(Pending(s), c)) <=> t.telnet_state \in OptionState,
           Text(Append(Pending(s), c)) = ToSerial(t, c),
           Owed(Append(Pending(s), c)) \o
             (IF IsOption(Append(Pending(s), c)) THEN Offers(t) ELSE << >>) = ToClient(t, c)
    PROVE  Follows(t, s, c)
<1> DEFINE u == Append(Pending(s), c)
<1>1. InStep(telnet_recv(t, c), Append(s, c))
  BY AfterCompletion, Zenon
<1>2. t.telopt_sent = Decoded(s).offered
  BY DEF InStep
<1>3. OffersWith(u, t.telopt_sent) = IF IsOption(u) THEN Offers(t) ELSE << >>
  BY OffersAreOffered
<1>4. /\ Decoded(Append(s, c)).text = Decoded(s).text \o Text(u)
      /\ Decoded(Append(s, c)).replies
           = Decoded(s).replies \o (Owed(u) \o OffersWith(u, Decoded(s).offered))
  BY ByteCompletes, Zenon
<1> QED
  BY <1>1, <1>2, <1>3, <1>4, Zenon DEF Follows

(* A byte that stays pending says nothing. *)
LEMMA PendingFollows ==
    ASSUME NEW t \in Telnet, NEW s \in Seq(Byte), NEW c \in Byte, InStep(t, s),
           SaysBytes(s),
           ~(AfterCR(s) /\ c \in {NUL, LF}),
           ~IsUnit(Append(Pending(s), c)),
           t.telnet_state \notin OptionState,
           LET w == Append(Pending(s), c)
               st == NextState(t.telnet_state, c)
           IN  \/ st = "IAC" /\ w = <<IAC>>
               \/ \E v \in {WILL, WONT, DO, DONT} : st = Verb[v] /\ w = <<IAC, v>>
               \/ st \in {"SB", "SE"} /\ UnderWay(w, st = "SE"),
           ~IsText(t, c),
           ~(t.telnet_state = "IAC" /\ c = AYT)
    PROVE  Follows(t, s, c)
<1>1. /\ InStep(telnet_recv(t, c), Append(s, c))
      /\ Decoded(Append(s, c)) = Decoded(s)
  BY AfterPending, Zenon
<1>2. ToSerial(t, c) = << >> /\ ToClient(t, c) = << >>
  BY DEF ToSerial, ToClient
<1>3. /\ Decoded(s).text \o << >> = Decoded(s).text
      /\ Decoded(s).replies \o << >> = Decoded(s).replies
  BY NothingAppended DEF SaysBytes
<1> QED
  BY <1>1, <1>2, <1>3 DEF Follows

(* A byte of data, or the 255 that begins a command. *)
LEMMA DataFollows ==
    ASSUME NEW t \in Telnet, NEW s \in Seq(Byte), NEW c \in Byte, InStep(t, s),
           SaysBytes(s), t.telnet_state \in {"DATA", "CR"},
           ~(t.telnet_state = "CR" /\ c \in {NUL, LF})
    PROVE  Follows(t, s, c)
<1>1. Pending(s) = << >> /\ ~(AfterCR(s) /\ c \in {NUL, LF})
  BY DEF InStep
<1>2. Append(Pending(s), c) = <<c>>
  BY <1>1, AppendToNone
<1>3. t.telnet_state \notin OptionState /\ t.telnet_state # "IAC"
  BY DEF OptionState
<1>4. CASE c = IAC
  <2>1. ~IsUnit(Append(Pending(s), c)) /\ Append(Pending(s), c) = <<IAC>>
    BY <1>2, <1>4, LoneIAC
  <2>2. NextState(t.telnet_state, c) = "IAC"
    BY <1>4, NextStates, Zenon
  <2>3. ~IsText(t, c)
    BY <1>3, <1>4 DEF IsText
  <2> QED
    BY <1>1, <1>3, <2>1, <2>2, <2>3, PendingFollows, Zenon
<1>5. CASE c # IAC
  <2> DEFINE u == Append(Pending(s), c)
  <2>1. IsUnit(u) /\ Text(u) = putchar(c) /\ ~IsOption(u) /\ Owed(u) = << >>
    BY <1>2, <1>5, DataUnit
  <2>2. /\ NextState(t.telnet_state, c) \in {"DATA", "CR"}
        /\ NextState(t.telnet_state, c) = "CR" <=> c = CR
    BY <1>5, NextStates
  <2>3. ToSerial(t, c) = putchar(c)
    BY <1>5 DEF ToSerial, IsText
  <2>4. ToClient(t, c) = << >> /\ << >> \o << >> = << >>
    BY <1>3 DEF ToClient
  <2>5. Owed(u) \o (IF IsOption(u) THEN Offers(t) ELSE << >>) = ToClient(t, c)
    BY <2>1, <2>4, Zenon
  <2> QED
    BY <1>1, <1>3, <2>1, <2>2, <2>3, <2>5, CompletionFollows, Zenon
<1> QED
  BY <1>4, <1>5

(* The byte behind a 255. *)
LEMMA CommandFollows ==
    ASSUME NEW t \in Telnet, NEW s \in Seq(Byte), NEW c \in Byte, InStep(t, s),
           SaysBytes(s), t.telnet_state = "IAC"
    PROVE  Follows(t, s, c)
<1>1. Pending(s) = <<IAC>> /\ ~(AfterCR(s) /\ c \in {NUL, LF})
  BY DEF InStep
<1>2. Append(Pending(s), c) = <<IAC, c>>
  <2>1. IAC \in Byte
    BY DEF IAC, Byte
  <2> QED
    BY <1>1, <2>1, AppendToOne, Zenon
<1>3. t.telnet_state \notin OptionState /\ Pending(s) # << >>
  BY <1>1 DEF OptionState
<1>4. CASE c \in {WILL, WONT, DO, DONT}
  <2>1. ~IsUnit(Append(Pending(s), c))
    BY <1>2, <1>4, CommandUnit
  <2>2. NextState(t.telnet_state, c) = Verb[c]
    BY <1>4, NextStates
  <2>3. ~IsText(t, c) /\ c # AYT
    BY <1>4, Verbs DEF IsText
  <2> QED
    BY <1>1, <1>2, <1>3, <1>4, <2>1, <2>2, <2>3, PendingFollows, Zenon
<1>5. CASE c = SB
  <2> DEFINE w == Append(Pending(s), c)
  <2>1. ~IsUnit(w)
    BY <1>2, <1>5, CommandUnit
  <2>2. NextState(t.telnet_state, c) = "SB"
    BY <1>5, NextStates
  <2>3. ~IsText(t, c) /\ c # AYT
    BY <1>5, Verbs DEF IsText
  <2>4. w \in Seq(Byte) /\ Len(w) = 2 /\ w[1] = IAC /\ w[2] = SB
    <3>1. IAC \in Byte /\ SB \in Byte
      BY Verbs
    <3> QED
      BY <1>2, <1>5, <3>1
  <2> HIDE DEF w
  <2>5. UnderWay(w, FALSE)
    <3>1. ~IsSecondOfPair(w, Len(w) + 1)
      BY <2>4, PairsBegin, Zenon
    <3>2. Len(w) >= 2
      BY <2>4
    <3> QED
      BY <2>4, <3>1, <3>2 DEF UnderWay
  <2>6. ("SB" = "SE") = FALSE
    OBVIOUS
  <2>7. UnderWay(w, "SB" = "SE")
    BY <2>5, <2>6, Zenon
  <2> QED
    BY <1>1, <1>3, <2>1, <2>2, <2>3, <2>7, PendingFollows, Zenon DEF w
<1>6. CASE c \notin {WILL, WONT, DO, DONT, SB}
  <2> DEFINE u == Append(Pending(s), c)
  <2>1. /\ IsUnit(u) /\ ~IsOption(u)
        /\ Text(u) = IF c = IAC THEN <<IAC>> ELSE << >>
        /\ Owed(u) = IF c = AYT THEN recv_ayt ELSE << >>
    BY <1>2, <1>6, CommandUnit
  <2>2. NextState(t.telnet_state, c) = "DATA"
    BY <1>6, NextStates
  <2>3. ToSerial(t, c) = Text(u)
    <3>1. IAC # LF
      BY DEF IAC, LF
    <3> QED
      BY <2>1, <3>1 DEF ToSerial, IsText, putchar
  <2>4. ToClient(t, c) = Owed(u)
    BY <1>3, <2>1 DEF ToClient
  <2>5. Owed(u) \o << >> = Owed(u)
    <3>1. recv_ayt \o << >> = recv_ayt /\ << >> \o << >> = << >>
      BY DEF recv_ayt, Byte
    <3> QED
      BY <2>1, <3>1
  <2>6. Owed(u) \o (IF IsOption(u) THEN Offers(t) ELSE << >>) = ToClient(t, c)
    BY <2>1, <2>4, <2>5, Zenon
  <2> QED
    BY <1>1, <1>3, <2>1, <2>2, <2>3, <2>6, CompletionFollows, Zenon
<1> QED
  BY <1>4, <1>5, <1>6

(* The option of an option command. *)
LEMMA OptionFollows ==
    ASSUME NEW t \in Telnet, NEW s \in Seq(Byte), NEW c \in Byte, InStep(t, s),
           SaysBytes(s), t.telnet_state \in OptionState
    PROVE  Follows(t, s, c)
<1>1. ~(AfterCR(s) /\ c \in {NUL, LF})
  BY DEF InStep, OptionState
<1>2. PICK v \in {WILL, WONT, DO, DONT} : t.telnet_state = Verb[v]
  BY Verbs DEF OptionState
<1>3. Pending(s) = <<IAC, v>>
  BY <1>2 DEF InStep
<1>4. Append(Pending(s), c) = <<IAC, v, c>> /\ Pending(s) # << >>
  <2>1. IAC \in Byte /\ v \in Byte
    BY Verbs, Zenon
  <2>2. Append(<<IAC, v>>, c) = <<IAC, v, c>>
    BY <2>1, AppendToTwo, Zenon
  <2>3. <<IAC, v>> # << >>
    OBVIOUS
  <2> QED
    BY <1>3, <2>2, <2>3
<1> DEFINE u == Append(Pending(s), c)
<1>5. /\ IsUnit(u) /\ Text(u) = << >> /\ IsOption(u)
      /\ Owed(u) = Answer(t.telnet_state, c)
  <2>1. u = <<IAC, v, c>>
    BY <1>4
  <2> HIDE DEF u
  <2>2. v \in DOMAIN Verb
    BY DEF Verb
  <2>3. IsUnit(u) /\ Text(u) = << >> /\ IsOption(u) /\ Owed(u) = Answer(Verb[v], c)
    BY <2>2, <2>1, OptionUnit, Zenon
  <2> QED
    BY <1>2, <2>3
<1>6. NextState(t.telnet_state, c) = "DATA"
  BY NextStates
<1>7. ToSerial(t, c) = << >>
  BY DEF ToSerial, IsText, OptionState
<1>8. ToClient(t, c) = Answer(t.telnet_state, c) \o Offers(t)
  BY DEF ToClient
<1>9. Owed(u) \o (IF IsOption(u) THEN Offers(t) ELSE << >>) = ToClient(t, c)
  BY <1>5, <1>8, Zenon
<1> QED
  BY <1>1, <1>4, <1>5, <1>6, <1>7, <1>9, CompletionFollows, Zenon

(* A byte of a subnegotiation. *)
LEMMA SubFollows ==
    ASSUME NEW t \in Telnet, NEW s \in Seq(Byte), NEW c \in Byte, InStep(t, s),
           SaysBytes(s), t.telnet_state \in {"SB", "SE"}
    PROVE  Follows(t, s, c)
<1> DEFINE p == Pending(s)
           w == Append(p, c)
           st == NextState(t.telnet_state, c)
<1>1. ~(AfterCR(s) /\ c \in {NUL, LF})
  BY DEF InStep
<1>2. /\ p \in Seq(Byte) /\ Len(p) >= 2 /\ p[1] = IAC /\ p[2] = SB
      /\ t.telnet_state = "SE" <=> IsSecondOfPair(p, Len(p) + 1)
  BY PendingIsBytes DEF InStep, UnderWay
<1>3. t.telnet_state \notin OptionState /\ ~IsText(t, c) /\ t.telnet_state # "IAC"
  BY DEF OptionState, IsText
<1>4. ToSerial(t, c) = << >> /\ ToClient(t, c) = << >>
  BY <1>3 DEF ToSerial, ToClient
<1> HIDE DEF p
<1>5. /\ IsUnit(w) <=> c = SE /\ IsSecondOfPair(p, Len(p) + 1)
      /\ Text(w) = << >> /\ ~IsOption(w) /\ Owed(w) = << >>
  BY <1>2, SubUnit, Zenon
<1>6. p # << >>
  BY <1>2
<1>7. CASE IsUnit(w)
  <2>1. c = SE /\ t.telnet_state = "SE"
    BY <1>2, <1>5, <1>7
  <2>2. st = "DATA"
    BY <2>1, NextStates
  <2>3. << >> \o << >> = << >>
    OBVIOUS
  <2>4. Owed(w) \o (IF IsOption(w) THEN Offers(t) ELSE << >>) = ToClient(t, c)
    BY <1>4, <1>5, <2>3, Zenon
  <2> HIDE DEF w, st
  <2> QED
    BY <1>1, <1>3, <1>4, <1>5, <1>6, <1>7, <2>2, <2>4, CompletionFollows, Zenon DEF w, p, st
<1>8. CASE ~IsUnit(w)
  <2>1. st \in {"SB", "SE"} /\ (st = "SE" <=> c = IAC /\ t.telnet_state = "SB")
    <3>1. t.telnet_state = "SE" => c # SE
      BY <1>2, <1>5, <1>8
    <3>2. CASE t.telnet_state = "SB"
      <4>1. NextState("SB", c) = IF c = IAC THEN "SE" ELSE "SB"
        BY NextStates
      <4>2. st = IF c = IAC THEN "SE" ELSE "SB"
        BY <3>2, <4>1
      <4> HIDE DEF st
      <4> QED
        BY <3>2, <4>2
    <3>3. CASE t.telnet_state = "SE"
      <4>1. st = IF c = SE THEN "DATA" ELSE "SB"
        BY <3>3, NextStates
      <4> HIDE DEF st
      <4> QED
        BY <3>1, <3>3, <4>1
    <3> QED
      BY <3>2, <3>3
  <2>2. /\ w \in Seq(Byte) /\ Len(w) = Len(p) + 1 /\ Len(p) \in Nat
        /\ \A i \in 1..Len(p) : w[i] = p[i]
    BY <1>2, Appended
  <2>3. IsSecondOfPair(w, Len(p) + 2) <=> c = IAC /\ ~IsSecondOfPair(p, Len(p) + 1)
    BY <1>2, PairsGoOn
  <2> HIDE DEF w, st
  <2>4. Len(w) + 1 = Len(p) + 2 /\ Len(w) >= 2 /\ 1 \in 1..Len(p) /\ 2 \in 1..Len(p)
    BY <1>2, <2>2
  <2>5. w[1] = IAC /\ w[2] = SB
    BY <1>2, <2>2, <2>4
  <2>6. st = "SE" <=> IsSecondOfPair(w, Len(w) + 1)
    BY <1>2, <2>1, <2>3, <2>4
  <2>7. UnderWay(w, st = "SE")
    BY <2>4, <2>5, <2>6 DEF UnderWay
  <2> QED
    BY <1>1, <1>3, <1>8, <2>1, <2>7, PendingFollows, Zenon DEF w, p, st
<1> QED
  BY <1>7, <1>8

(* Whatever the byte and the state, the state machine follows the grammar. *)
LEMMA ByteFollows ==
    ASSUME NEW t \in Telnet, NEW s \in Seq(Byte), NEW c \in Byte, InStep(t, s),
           SaysBytes(s)
    PROVE  Follows(t, s, c)
<1>1. t.telnet_state \in TelnetState
  BY DEF Telnet
<1>2. CASE t.telnet_state = "CR" /\ c \in {NUL, LF}
  BY <1>2, SecondHalf
<1>3. CASE t.telnet_state \in {"DATA", "CR"} /\ ~(t.telnet_state = "CR" /\ c \in {NUL, LF})
  BY <1>3, DataFollows
<1>4. CASE t.telnet_state = "IAC"
  BY <1>4, CommandFollows
<1>5. CASE t.telnet_state \in OptionState
  BY <1>5, OptionFollows
<1>6. CASE t.telnet_state \in {"SB", "SE"}
  BY <1>6, SubFollows
<1> QED
  BY <1>1, <1>2, <1>3, <1>4, <1>5, <1>6 DEF TelnetState, OptionState

(* The inductive invariant: the two properties are not, because what is owed next
   depends on the bytes pending, which telnet_state stands for. *)
IInv ==
    /\ TypeOK
    /\ received \in Seq(Byte)
    /\ InStep(telnet, received)
    /\ SerialIsDecodedText
    /\ RepliesAreOwed

(* Nothing read, nothing pending. *)
LEMMA NothingDecoded ==
    /\ Decoded(<< >>) = NothingRead
    /\ InStep(telnet_init, << >>)
<1>1. << >> \in Seq(Byte) /\ Len(<< >>) = 0
  OBVIOUS
<1>2. Decoded(<< >>) = NothingRead
  BY <1>1, ReadingSteps DEF Decoded
<1>3. Pending(<< >>) = << >>
  <2>1. Decoded(<< >>).from = 1 /\ 1 \in Int /\ 0 \in Int /\ 0 < 1
    BY <1>2 DEF NothingRead
  <2> QED
    BY <1>1, <2>1, SubSeqEmpty DEF Pending
<1>4. ~AfterCR(<< >>)
  BY <1>1 DEF AfterCR
<1>5. Decoded(<< >>).offered = FALSE
  BY <1>2 DEF NothingRead
<1>6. telnet_init.telnet_state = "DATA" /\ telnet_init.telopt_sent = FALSE
  BY DEF telnet_init
<1>7. \A v \in {WILL, WONT, DO, DONT} : Verb[v] # "DATA"
  BY Verbs
<1> QED
  BY <1>2, <1>3, <1>4, <1>5, <1>6, <1>7 DEF InStep

-----------------------------------------------------------------------------
(* Theorems *)

(* A step keeps the types. *)
LEMMA TypesNext == TypeOK /\ [Next]_vars => TypeOK'
<1> SUFFICES ASSUME TypeOK, [Next]_vars
             PROVE  TypeOK'
  OBVIOUS
<1>1. ASSUME NEW c \in Alphabet, Recv(c)
      PROVE  TypeOK'
  <2>1. c \in Byte
    BY AlphabetAssumption DEF Byte
  <2>2. telnet' \in Telnet
    BY <1>1, <2>1, NextStateIsState DEF Recv, telnet_recv, Telnet, TypeOK, Byte
  <2>3. serial' \in Seq(Byte) /\ queued' \in Seq(Byte)
    <3>1. ToSerial(telnet, c) \in Seq(Byte) /\ ToClient(telnet, c) \in Seq(Byte)
      BY <2>1, SerialBytes, ClientBytes DEF TypeOK, Byte
    <3>2. serial' = serial \o ToSerial(telnet, c) /\ queued' = queued \o ToClient(telnet, c)
      BY <1>1 DEF Recv
    <3> QED
      BY <3>1, <3>2, Concatenated DEF TypeOK, Byte
  <2> QED
    BY <2>2, <2>3 DEF TypeOK, Byte
<1>2. CASE UNCHANGED vars
  BY <1>2 DEF TypeOK, vars
<1> QED
  BY <1>1, <1>2 DEF Next

(* Whatever bytes come and however many, the struct stays in range and nothing
   but bytes goes to the serial line and to the client (telnet_recv). *)
THEOREM TelnetTypes == Spec => []TypeOK
<1>1. Init => TypeOK
  BY DEF Init, TypeOK, Telnet, telnet_init, TelnetState, Byte
<1> QED
  BY <1>1, TypesNext, PTL DEF Spec

(* The session begins in step. *)
LEMMA InvInit == Init => IInv
<1> SUFFICES ASSUME Init
             PROVE  IInv
  OBVIOUS
<1>1. TypeOK
  BY DEF Init, TypeOK, Telnet, telnet_init, TelnetState, Byte
<1>2. received = << >> /\ serial = << >> /\ queued = << >> /\ telnet = telnet_init
  BY DEF Init
<1>3. Decoded(<< >>).text = << >> /\ Decoded(<< >>).replies = << >>
  BY NothingDecoded DEF NothingRead
<1>4. received \in Seq(Byte)
  BY <1>2
<1> QED
  BY <1>1, <1>2, <1>3, <1>4, NothingDecoded DEF IInv, SerialIsDecodedText, RepliesAreOwed

(* And every byte leaves it in step. *)
LEMMA InvNext == IInv /\ TypeOK' /\ [Next]_vars => IInv'
<1> SUFFICES ASSUME IInv, TypeOK', [Next]_vars
             PROVE  IInv'
  OBVIOUS
<1>1. ASSUME NEW c \in Alphabet, Recv(c)
      PROVE  IInv'
  <2>1. c \in Byte
    BY AlphabetAssumption DEF Byte
  <2>2. /\ received' = Append(received, c)
        /\ telnet' = telnet_recv(telnet, c)
        /\ serial' = serial \o ToSerial(telnet, c)
        /\ queued' = queued \o ToClient(telnet, c)
    BY <1>1 DEF Recv
  <2>3. Follows(telnet, received, c)
    <3>1. SaysBytes(received)
      BY DEF IInv, TypeOK, SerialIsDecodedText, RepliesAreOwed, SaysBytes, Byte
    <3> QED
      BY <2>1, <3>1, ByteFollows DEF IInv, TypeOK, Byte
  <2>4. received' \in Seq(Byte)
    BY <2>1, <2>2, Appended DEF IInv
  <2>5. InStep(telnet', received')
    BY <2>2, <2>3 DEF Follows
  <2>6. serial' = Decoded(received').text /\ queued' = Decoded(received').replies
    BY <2>2, <2>3 DEF Follows, IInv, SerialIsDecodedText, RepliesAreOwed
  <2> QED
    BY <2>4, <2>5, <2>6 DEF IInv, SerialIsDecodedText, RepliesAreOwed
<1>2. CASE UNCHANGED vars
  <2>1. received' = received /\ telnet' = telnet /\ serial' = serial /\ queued' = queued
    BY <1>2 DEF vars
  <2> QED
    BY <2>1 DEF IInv, SerialIsDecodedText, RepliesAreOwed
<1> QED
  BY <1>1, <1>2 DEF Next

(* The state machine is in step with the grammar after every byte: its state says
   which bytes of an incomplete command, line end or subnegotiation came last
   (telnet_recv). *)
THEOREM InvAlways == Spec => []IInv
<1>1. IInv /\ [Next]_vars => TypeOK'
  BY TypesNext DEF IInv
<1> QED
  BY <1>1, InvInit, InvNext, PTL DEF Spec

(* However commands, line ends and subnegotiations are interleaved, for streams of
   any length, the serial line gets the text of the stream and nothing else
   (telnet_recv). *)
THEOREM SerialIsText == Spec => []SerialIsDecodedText
<1>1. IInv => SerialIsDecodedText
  BY DEF IInv
<1> QED
  BY <1>1, InvAlways, PTL

(* And the client gets the answers it is owed, each once and in order, and the
   offers once (telnet_recv, telnet_init_once). *)
THEOREM RepliesAreRight == Spec => []RepliesAreOwed
<1>1. IInv => RepliesAreOwed
  BY DEF IInv
<1> QED
  BY <1>1, InvAlways, PTL
=============================================================================
