---------------------------- MODULE CmdlineProofs ----------------------------
(***************************************************************************)
(* The line editor's invariants, for lines, rings and alphabets of any     *)
(* size, that lines are cut into their words, and the exactness of         *)
(* strtol's overflow test.                                                 *)
(***************************************************************************)
EXTENDS MCCmdline, Induction, FiniteSetTheorems, SequenceTheorems, TLAPS

-----------------------------------------------------------------------------
(* Loops.  The editor's loops are folds; each goes through one value per turn, *)
(* and through a set of them that its body does not leave.                     *)

(* r: what becomes of terminal c as cmdputc sends s, character by character. *)
Echoes(r, V, c, s) ==
    /\ r \in [0..Len(s) -> V]
    /\ r[0] = c
    /\ \A k \in 1..Len(s) : r[k] = cmdputc(r[k - 1], s[k])

(* The loop goes through values of V, if its body leads from each to another. *)
LEMMA EchoLoop ==
    ASSUME NEW V, NEW c \in V, NEW S, NEW s \in Seq(S),
           \A t \in V, ch \in S : cmdputc(t, ch) \in V
    PROVE  \E r : Echoes(r, V, c, s) /\ Echo(c, s) = r[Len(s)]
<1> DEFINE n == Len(s)
           Step == [k \in 1..n |-> [v \in V |-> cmdputc(v, s[k])]]
           Body(g) == [x \in SUBSET (1..n) |->
                          IF x = {} THEN c ELSE cmdputc(g[x \ {Max(x)}], s[Max(x)])]
           h == CHOOSE g : g = Body(g)
<1>1. n \in Nat /\ DOMAIN s = 1..n /\ \A k \in 1..n : s[k] \in S
  BY EmptyPrefix
<1>2. Echo(c, s) = h[1..n]
  BY <1>1, Zenon DEF Echo, FoldLeft, MapThenFoldSet, h, Body
<1> HIDE DEF n
<1>3. Step \in [1..n -> [V -> V]]
  BY <1>1
<1>4. ASSUME NEW k \in 1..n, NEW v \in V
      PROVE  Step[k][v] = cmdputc(v, s[k])
  BY <1>4, Zenon
<1> HIDE DEF Step
<1>5. \E g : g = Body(g)
  <2>1. PICK g : IsFold(g, n, V, c, Step)
    BY <1>1, <1>3, FoldExists
  <2>2. /\ g \in [SUBSET (1..n) -> V]
        /\ g[{}] = c
        /\ \A x \in SUBSET (1..n) : x # {} => g[x] = Step[Max(x)][g[x \ {Max(x)}]]
    BY <2>1 DEF IsFold
  <2>3. ASSUME NEW x \in SUBSET (1..n), x # {}
        PROVE  g[x] = cmdputc(g[x \ {Max(x)}], s[Max(x)])
    <3>1. Max(x) \in 1..n /\ x \ {Max(x)} \in SUBSET (1..n)
      BY <1>1, <2>3, MaxOfRange
    <3> QED
      BY <1>4, <2>2, <2>3, <3>1
  <2>4. g = Body(g)
    BY <2>2, <2>3
  <2> QED
    BY <2>4
<1>6. h = Body(h)
  <2> HIDE DEF Body
  <2> QED
    BY <1>5
<1>7. h[{}] = c
  BY <1>1, <1>6, EmptyPrefix
<1>8. \A x \in SUBSET (1..n) :
          x # {} /\ h[x \ {Max(x)}] \in V => h[x] = Step[Max(x)][h[x \ {Max(x)}]]
  <2> SUFFICES ASSUME NEW x \in SUBSET (1..n), x # {}, h[x \ {Max(x)}] \in V
               PROVE  h[x] = Step[Max(x)][h[x \ {Max(x)}]]
    OBVIOUS
  <2>1. h[x] = cmdputc(h[x \ {Max(x)}], s[Max(x)])
    BY <1>6, Zenon
  <2>2. Max(x) \in 1..n
    BY <1>1, MaxOfRange
  <2> QED
    BY <1>4, <2>1, <2>2
<1> HIDE DEF h, Body
<1>9. PICK r : IsChain(r, n, V, c, Step) /\ h[1..n] = r[n]
  <2>1. GoesBy(h, n, V, c, Step)
    BY <1>7, <1>8 DEF GoesBy
  <2>2. n \in Nat
    BY <1>1
  <2>3. c \in V
    OBVIOUS
  <2> QED
    BY ONLY <1>3, <2>1, <2>2, <2>3, FoldSteps, SMTT(30)
<1>10. \A k \in 1..n : k - 1 \in 0..n
  BY <1>1
<1>11. \A k \in 1..n : r[k] = cmdputc(r[k - 1], s[k])
  BY <1>4, <1>9, <1>10 DEF IsChain
<1> QED
  BY <1>2, <1>9, <1>11 DEF n, IsChain, Echoes

(* r: what becomes of c as insertstr inserts s, character by character. *)
Inserts(r, V, c, s) ==
    /\ r \in [0..Len(s) -> V]
    /\ r[0] = c
    /\ \A k \in 1..Len(s) : r[k] = insert(r[k - 1], s[k])

(* The loop goes through values of V, if its body leads from each to another. *)
LEMMA InsertLoop ==
    ASSUME NEW V, NEW c \in V, NEW S, NEW s \in Seq(S),
           \A x \in V, ch \in S : insert(x, ch) \in V
    PROVE  \E r : Inserts(r, V, c, s) /\ insertstr(c, s) = r[Len(s)]
<1> DEFINE n == Len(s)
           Step == [k \in 1..n |-> [v \in V |-> insert(v, s[k])]]
           Body(g) == [x \in SUBSET (1..n) |->
                          IF x = {} THEN c ELSE insert(g[x \ {Max(x)}], s[Max(x)])]
           h == CHOOSE g : g = Body(g)
<1>1. n \in Nat /\ DOMAIN s = 1..n /\ \A k \in 1..n : s[k] \in S
  BY EmptyPrefix
<1>2. insertstr(c, s) = h[1..n]
  BY <1>1, Zenon DEF insertstr, FoldLeft, MapThenFoldSet, h, Body
<1> HIDE DEF n
<1>3. Step \in [1..n -> [V -> V]]
  BY <1>1
<1>4. ASSUME NEW k \in 1..n, NEW v \in V
      PROVE  Step[k][v] = insert(v, s[k])
  BY <1>4, Zenon
<1> HIDE DEF Step
<1>5. \E g : g = Body(g)
  <2>1. PICK g : IsFold(g, n, V, c, Step)
    BY <1>1, <1>3, FoldExists
  <2>2. /\ g \in [SUBSET (1..n) -> V]
        /\ g[{}] = c
        /\ \A x \in SUBSET (1..n) : x # {} => g[x] = Step[Max(x)][g[x \ {Max(x)}]]
    BY <2>1 DEF IsFold
  <2>3. ASSUME NEW x \in SUBSET (1..n), x # {}
        PROVE  g[x] = insert(g[x \ {Max(x)}], s[Max(x)])
    <3>1. Max(x) \in 1..n /\ x \ {Max(x)} \in SUBSET (1..n)
      BY <1>1, <2>3, MaxOfRange
    <3> QED
      BY <1>4, <2>2, <2>3, <3>1
  <2>4. g = Body(g)
    BY <2>2, <2>3
  <2> QED
    BY <2>4
<1>6. h = Body(h)
  <2> HIDE DEF Body
  <2> QED
    BY <1>5
<1>7. h[{}] = c
  BY <1>1, <1>6, EmptyPrefix
<1>8. \A x \in SUBSET (1..n) :
          x # {} /\ h[x \ {Max(x)}] \in V => h[x] = Step[Max(x)][h[x \ {Max(x)}]]
  <2> SUFFICES ASSUME NEW x \in SUBSET (1..n), x # {}, h[x \ {Max(x)}] \in V
               PROVE  h[x] = Step[Max(x)][h[x \ {Max(x)}]]
    OBVIOUS
  <2>1. h[x] = insert(h[x \ {Max(x)}], s[Max(x)])
    BY <1>6, Zenon
  <2>2. Max(x) \in 1..n
    BY <1>1, MaxOfRange
  <2> QED
    BY <1>4, <2>1, <2>2
<1> HIDE DEF h, Body
<1>9. PICK r : IsChain(r, n, V, c, Step) /\ h[1..n] = r[n]
  <2>1. GoesBy(h, n, V, c, Step)
    BY <1>7, <1>8 DEF GoesBy
  <2>2. n \in Nat
    BY <1>1
  <2>3. c \in V
    OBVIOUS
  <2> QED
    BY ONLY <1>3, <2>1, <2>2, <2>3, FoldSteps, SMTT(30)
<1>10. \A k \in 1..n : k - 1 \in 0..n
  BY <1>1
<1>11. \A k \in 1..n : r[k] = insert(r[k - 1], s[k])
  BY <1>4, <1>9, <1>10 DEF IsChain
<1> QED
  BY <1>2, <1>9, <1>11 DEF n, IsChain, Inserts

(* delete called m times. *)
DeleteTimes(c, append, m) == Repeat(LAMBDA x : delete(x, append), c, m)

(* r: what becomes of c meanwhile. *)
Deletes(r, V, c, append, m) ==
    /\ r \in [0..m -> V]
    /\ r[0] = c
    /\ \A k \in 1..m : r[k] = delete(r[k - 1], append)

(* The loop goes through values of V, if its body leads from each to another. *)
LEMMA DeleteLoop ==
    ASSUME NEW V, NEW c \in V, NEW append, NEW m \in Nat,
           \A x \in V : delete(x, append) \in V
    PROVE  \E r : Deletes(r, V, c, append, m) /\ DeleteTimes(c, append, m) = r[m]
<1> DEFINE n == m
           Step == [k \in 1..n |-> [v \in V |-> delete(v, append)]]
           Body(g) == [x \in SUBSET (1..n) |->
                          IF x = {} THEN c ELSE delete(g[x \ {Max(x)}], append)]
           h == CHOOSE g : g = Body(g)
<1>1. n \in Nat /\ DOMAIN Times(0, m) = 1..n
  BY EmptyPrefix, SMT DEF Times
<1>2. DeleteTimes(c, append, m) = h[1..n]
  BY <1>1, Zenon DEF DeleteTimes, Repeat, FoldLeft, MapThenFoldSet, h, Body
<1> HIDE DEF n
<1>3. Step \in [1..n -> [V -> V]]
  BY <1>1
<1>4. ASSUME NEW k \in 1..n, NEW v \in V
      PROVE  Step[k][v] = delete(v, append)
  BY <1>4, Zenon
<1> HIDE DEF Step
<1>5. \E g : g = Body(g)
  <2>1. PICK g : IsFold(g, n, V, c, Step)
    BY <1>1, <1>3, FoldExists
  <2>2. /\ g \in [SUBSET (1..n) -> V]
        /\ g[{}] = c
        /\ \A x \in SUBSET (1..n) : x # {} => g[x] = Step[Max(x)][g[x \ {Max(x)}]]
    BY <2>1 DEF IsFold
  <2>3. ASSUME NEW x \in SUBSET (1..n), x # {}
        PROVE  g[x] = delete(g[x \ {Max(x)}], append)
    <3>1. Max(x) \in 1..n /\ x \ {Max(x)} \in SUBSET (1..n)
      BY <1>1, <2>3, MaxOfRange
    <3> QED
      BY <1>4, <2>2, <2>3, <3>1
  <2>4. g = Body(g)
    BY <2>2, <2>3
  <2> QED
    BY <2>4
<1>6. h = Body(h)
  <2> HIDE DEF Body
  <2> QED
    BY <1>5
<1>7. h[{}] = c
  BY <1>1, <1>6, EmptyPrefix
<1>8. \A x \in SUBSET (1..n) :
          x # {} /\ h[x \ {Max(x)}] \in V => h[x] = Step[Max(x)][h[x \ {Max(x)}]]
  <2> SUFFICES ASSUME NEW x \in SUBSET (1..n), x # {}, h[x \ {Max(x)}] \in V
               PROVE  h[x] = Step[Max(x)][h[x \ {Max(x)}]]
    OBVIOUS
  <2>1. h[x] = delete(h[x \ {Max(x)}], append)
    BY <1>6, Zenon
  <2>2. Max(x) \in 1..n
    BY <1>1, MaxOfRange
  <2> QED
    BY <1>4, <2>1, <2>2
<1> HIDE DEF h, Body
<1>9. PICK r : IsChain(r, n, V, c, Step) /\ h[1..n] = r[n]
  <2>1. GoesBy(h, n, V, c, Step)
    BY <1>7, <1>8 DEF GoesBy
  <2>2. n \in Nat
    BY <1>1
  <2>3. c \in V
    OBVIOUS
  <2> QED
    BY ONLY <1>3, <2>1, <2>2, <2>3, FoldSteps
<1>10. \A k \in 1..n : k - 1 \in 0..n
  BY <1>1
<1>11. \A k \in 1..n : r[k] = delete(r[k - 1], append)
  BY <1>4, <1>9, <1>10 DEF IsChain
<1> QED
  BY <1>2, <1>9, <1>11 DEF n, IsChain, Deletes

(* backspace called m times. *)
BackspaceTimes(c, append, m) == Repeat(LAMBDA x : backspace(x, append), c, m)

(* r: what becomes of c meanwhile. *)
Backspaces(r, V, c, append, m) ==
    /\ r \in [0..m -> V]
    /\ r[0] = c
    /\ \A k \in 1..m : r[k] = backspace(r[k - 1], append)

(* The loop goes through values of V, if its body leads from each to another. *)
LEMMA BackspaceLoop ==
    ASSUME NEW V, NEW c \in V, NEW append, NEW m \in Nat,
           \A x \in V : backspace(x, append) \in V
    PROVE  \E r : Backspaces(r, V, c, append, m) /\ BackspaceTimes(c, append, m) = r[m]
<1> DEFINE n == m
           Step == [k \in 1..n |-> [v \in V |-> backspace(v, append)]]
           Body(g) == [x \in SUBSET (1..n) |->
                          IF x = {} THEN c ELSE backspace(g[x \ {Max(x)}], append)]
           h == CHOOSE g : g = Body(g)
<1>1. n \in Nat /\ DOMAIN Times(0, m) = 1..n
  BY EmptyPrefix, SMT DEF Times
<1>2. BackspaceTimes(c, append, m) = h[1..n]
  BY <1>1, Zenon DEF BackspaceTimes, Repeat, FoldLeft, MapThenFoldSet, h, Body
<1> HIDE DEF n
<1>3. Step \in [1..n -> [V -> V]]
  BY <1>1
<1>4. ASSUME NEW k \in 1..n, NEW v \in V
      PROVE  Step[k][v] = backspace(v, append)
  BY <1>4, Zenon
<1> HIDE DEF Step
<1>5. \E g : g = Body(g)
  <2>1. PICK g : IsFold(g, n, V, c, Step)
    BY <1>1, <1>3, FoldExists
  <2>2. /\ g \in [SUBSET (1..n) -> V]
        /\ g[{}] = c
        /\ \A x \in SUBSET (1..n) : x # {} => g[x] = Step[Max(x)][g[x \ {Max(x)}]]
    BY <2>1 DEF IsFold
  <2>3. ASSUME NEW x \in SUBSET (1..n), x # {}
        PROVE  g[x] = backspace(g[x \ {Max(x)}], append)
    <3>1. Max(x) \in 1..n /\ x \ {Max(x)} \in SUBSET (1..n)
      BY <1>1, <2>3, MaxOfRange
    <3> QED
      BY <1>4, <2>2, <2>3, <3>1
  <2>4. g = Body(g)
    BY <2>2, <2>3
  <2> QED
    BY <2>4
<1>6. h = Body(h)
  <2> HIDE DEF Body
  <2> QED
    BY <1>5
<1>7. h[{}] = c
  BY <1>1, <1>6, EmptyPrefix
<1>8. \A x \in SUBSET (1..n) :
          x # {} /\ h[x \ {Max(x)}] \in V => h[x] = Step[Max(x)][h[x \ {Max(x)}]]
  <2> SUFFICES ASSUME NEW x \in SUBSET (1..n), x # {}, h[x \ {Max(x)}] \in V
               PROVE  h[x] = Step[Max(x)][h[x \ {Max(x)}]]
    OBVIOUS
  <2>1. h[x] = backspace(h[x \ {Max(x)}], append)
    BY <1>6, Zenon
  <2>2. Max(x) \in 1..n
    BY <1>1, MaxOfRange
  <2> QED
    BY <1>4, <2>1, <2>2
<1> HIDE DEF h, Body
<1>9. PICK r : IsChain(r, n, V, c, Step) /\ h[1..n] = r[n]
  <2>1. GoesBy(h, n, V, c, Step)
    BY <1>7, <1>8 DEF GoesBy
  <2>2. n \in Nat
    BY <1>1
  <2>3. c \in V
    OBVIOUS
  <2> QED
    BY ONLY <1>3, <2>1, <2>2, <2>3, FoldSteps
<1>10. \A k \in 1..n : k - 1 \in 0..n
  BY <1>1
<1>11. \A k \in 1..n : r[k] = backspace(r[k - 1], append)
  BY <1>4, <1>9, <1>10 DEF IsChain
<1> QED
  BY <1>2, <1>9, <1>11 DEF n, IsChain, Backspaces

-----------------------------------------------------------------------------
(* The terminal *)

Signal == Char \cup {BS}
Terminal == [cells : Seq(Char), cursor : Int]

(* cells with the first m of w written over them from position p on. *)
Over(cells, p, w, m) ==
    [i \in 1..(IF Len(cells) < p + m THEN p + m ELSE Len(cells)) |->
        IF p < i /\ i <= p + m THEN w[i - p] ELSE cells[i]]

(* A terminal stays one. *)
LEMMA PutcTerminal ==
    ASSUME NEW t \in Terminal, NEW ch \in Signal
    PROVE  cmdputc(t, ch) \in Terminal
<1>1. t.cells \in Seq(Char) /\ t.cursor \in Int /\ t = [cells |-> t.cells, cursor |-> t.cursor]
  BY DEF Terminal
<1>2. CASE ch = BS
  <2>1. cmdputc(t, ch) = [cells |-> t.cells, cursor |-> t.cursor - 1]
    BY <1>1, <1>2 DEF cmdputc
  <2> QED
    BY <1>1, <2>1 DEF Terminal
<1>3. CASE ch # BS
  <2>1. ch \in Char
    BY <1>3 DEF Signal
  <2>2. Append(t.cells, ch) \in Seq(Char)
    BY <1>1, <2>1, AppendProperties
  <2>3. [t.cells EXCEPT ![t.cursor + 1] = ch] \in Seq(Char)
    <3>1. Len(t.cells) \in Nat /\ t.cells \in [1..Len(t.cells) -> Char]
      BY <1>1
    <3>2. [t.cells EXCEPT ![t.cursor + 1] = ch] \in [1..Len(t.cells) -> Char]
      BY <2>1, <3>1
    <3> QED
      BY <3>1, <3>2, SeqDef
  <2> QED
    BY <1>1, <1>3, <2>2, <2>3 DEF Terminal, cmdputc
<1> QED
  BY <1>2, <1>3

(* Written over cells, text makes cells. *)
LEMMA OverIsCells ==
    ASSUME NEW cells \in Seq(Char), NEW p \in 0..Len(cells), NEW w \in Seq(Char),
           NEW m \in 0..Len(w)
    PROVE  /\ Over(cells, p, w, m) \in Seq(Char)
           /\ Len(Over(cells, p, w, m)) = IF Len(cells) < p + m THEN p + m ELSE Len(cells)
           /\ \A i \in 1..Len(Over(cells, p, w, m)) :
                Over(cells, p, w, m)[i] = IF p < i /\ i <= p + m THEN w[i - p] ELSE cells[i]
<1> DEFINE n == IF Len(cells) < p + m THEN p + m ELSE Len(cells)
           e(i) == IF p < i /\ i <= p + m THEN w[i - p] ELSE cells[i]
<1>1. n \in Nat
  OBVIOUS
<1>2. \A i \in 1..n : e(i) \in Char
  <2> SUFFICES ASSUME NEW i \in 1..n PROVE e(i) \in Char
    OBVIOUS
  <2>1. CASE p < i /\ i <= p + m
    <3>1. i - p \in 1..Len(w)
      BY <2>1
    <3> QED
      BY <2>1, <3>1, ElementOfSeq
  <2>2. CASE ~(p < i /\ i <= p + m)
    <3>1. i \in 1..Len(cells)
      BY <2>2
    <3> QED
      BY <2>2, <3>1, ElementOfSeq
  <2> QED
    BY <2>1, <2>2
<1>3. Over(cells, p, w, m) = [i \in 1..n |-> e(i)]
  BY DEF Over
<1> HIDE DEF n, e
<1>4. [i \in 1..n |-> e(i)] \in Seq(Char)
  BY <1>1, <1>2, IsASeq
<1>5. Len([i \in 1..n |-> e(i)]) = n
  BY <1>1
<1> QED
  BY <1>3, <1>4, <1>5 DEF n, e

(* One more character of the text. *)
LEMMA PutOne ==
    ASSUME NEW cells \in Seq(Char), NEW p \in 0..Len(cells), NEW w \in Seq(Char),
           NEW m \in 0..Len(w), m < Len(w)
    PROVE  cmdputc([cells |-> Over(cells, p, w, m), cursor |-> p + m], w[m + 1])
             = [cells |-> Over(cells, p, w, m + 1), cursor |-> p + m + 1]
<1> DEFINE x == Over(cells, p, w, m)
           y == Over(cells, p, w, m + 1)
           ch == w[m + 1]
<1>1. m + 1 \in 1..Len(w) /\ m + 1 \in 0..Len(w)
  OBVIOUS
<1>2. ch \in Char /\ ch # BS
  BY <1>1, ElementOfSeq, FitsAssumption DEF Fits
<1>3. /\ x \in Seq(Char)
      /\ Len(x) = IF Len(cells) < p + m THEN p + m ELSE Len(cells)
      /\ \A i \in 1..Len(x) : x[i] = IF p < i /\ i <= p + m THEN w[i - p] ELSE cells[i]
  BY OverIsCells
<1>4. /\ y \in Seq(Char)
      /\ Len(y) = IF Len(cells) < p + (m + 1) THEN p + (m + 1) ELSE Len(cells)
      /\ \A i \in 1..Len(y) : y[i] = IF p < i /\ i <= p + (m + 1) THEN w[i - p] ELSE cells[i]
  BY <1>1, OverIsCells
<1> DEFINE z == IF p + m < Len(x) THEN [x EXCEPT ![p + m + 1] = ch] ELSE Append(x, ch)
<1>5. cmdputc([cells |-> x, cursor |-> p + m], ch) = [cells |-> z, cursor |-> p + m + 1]
  BY <1>2 DEF cmdputc
<1>6. p + m + 1 - p = m + 1 /\ p \in Nat /\ m \in Nat /\ Len(cells) \in Nat /\ p <= Len(cells)
  OBVIOUS
<1> HIDE DEF x, y, ch
<1>7. z \in Seq(Char) /\ Len(z) = Len(y)
        /\ \A i \in 1..Len(y) : z[i] = IF i = p + m + 1 THEN ch ELSE x[i]
  <2>1. CASE p + m < Len(x)
    <3>1. p + m + 1 \in 1..Len(x) /\ Len(y) = Len(x)
      BY <1>3, <1>4, <1>6, <2>1
    <3> QED
      BY <1>2, <1>3, <2>1, <3>1, ExceptSeq
  <2>2. CASE ~(p + m < Len(x))
    <3>1. p + m = Len(x) /\ Len(y) = Len(x) + 1
      BY <1>3, <1>4, <1>6, <2>2
    <3>2. /\ Append(x, ch) \in Seq(Char) /\ Len(Append(x, ch)) = Len(x) + 1
          /\ \A i \in 1..Len(x) : Append(x, ch)[i] = x[i]
          /\ Append(x, ch)[Len(x) + 1] = ch
      <4>1. x \in Seq(Char)
        BY <1>3
      <4>2. ch \in Char
        BY <1>2
      <4> QED
        BY ONLY <4>1, <4>2, AppendProperties
    <3>3. \A i \in 1..(Len(x) + 1) : i = Len(x) + 1 \/ i \in 1..Len(x)
      <4>1. Len(x) \in Nat
        BY <1>3
      <4> QED
        BY ONLY <4>1
    <3> QED
      BY <2>2, <3>1, <3>2, <3>3
  <2> QED
    BY <2>1, <2>2
<1> HIDE DEF z
<1>8. \A i \in 1..Len(y) : z[i] = y[i]
  <2> SUFFICES ASSUME NEW i \in 1..Len(y) PROVE z[i] = y[i]
    OBVIOUS
  <2>1. CASE i = p + m + 1
    <3>1. y[i] = w[m + 1]
      BY <1>4, <1>6, <2>1
    <3> QED
      BY <1>7, <2>1, <3>1 DEF ch
  <2>2. CASE i # p + m + 1
    <3>1. i \in 1..Len(x)
      BY <1>3, <1>4, <1>6, <2>2
    <3> QED
      BY <1>3, <1>4, <1>6, <1>7, <2>2, <3>1
  <2> QED
    BY <2>1, <2>2
<1>9. z = y
  BY <1>4, <1>7, <1>8, SeqEqual
<1> QED
  BY <1>5, <1>9 DEF x, y, ch

(* s is the text w and b backspaces. *)
Sends(s, w, b) ==
    /\ s \in Seq(Signal)
    /\ Len(s) = Len(w) + b
    /\ \A i \in 1..Len(s) : s[i] = IF i <= Len(w) THEN w[i] ELSE BS

(* A text and backspaces: what they leave on the terminal. *)
LEMMA EchoIs ==
    ASSUME NEW t \in Terminal, t.cursor \in 0..Len(t.cells), NEW w \in Seq(Char), NEW b \in Nat,
           NEW s, Sends(s, w, b)
    PROVE  Echo(t, s) = [cells |-> Over(t.cells, t.cursor, w, Len(w)),
                         cursor |-> t.cursor + Len(w) - b]
<1> DEFINE p == t.cursor
           n == Len(s)
           l == Len(w)
           After(k) == IF k <= l THEN [cells |-> Over(t.cells, p, w, k), cursor |-> p + k]
                       ELSE [cells |-> Over(t.cells, p, w, l), cursor |-> p + 2 * l - k]
<1>1. /\ s \in Seq(Signal) /\ Len(s) = l + b
      /\ \A i \in 1..Len(s) : s[i] = IF i <= l THEN w[i] ELSE BS
  BY DEF Sends
<1>2. \A x \in Terminal, ch \in Signal : cmdputc(x, ch) \in Terminal
  BY PutcTerminal
<1>3. PICK r : Echoes(r, Terminal, t, s) /\ Echo(t, s) = r[Len(s)]
  BY <1>1, <1>2, EchoLoop
<1>4. /\ r[0] = t
      /\ \A k \in 1..n : r[k] = cmdputc(r[k - 1], s[k])
      /\ Echo(t, s) = r[n]
  BY <1>3 DEF Echoes
<1>5. t.cells \in Seq(Char) /\ p \in 0..Len(t.cells) /\ t = [cells |-> t.cells, cursor |-> p]
  BY DEF Terminal
<1>6. l \in Nat /\ n \in Nat /\ n = l + b
  BY <1>1
<1>7. After(0) = t
  <2>1. 0 \in 0..l
    BY <1>6
  <2> DEFINE o == Over(t.cells, p, w, 0)
  <2>2. /\ o \in Seq(Char) /\ Len(o) = IF Len(t.cells) < p + 0 THEN p + 0 ELSE Len(t.cells)
        /\ \A i \in 1..Len(o) : o[i] = IF p < i /\ i <= p + 0 THEN w[i - p] ELSE t.cells[i]
    BY <1>5, <2>1, OverIsCells
  <2> HIDE DEF o
  <2>3. Len(o) = Len(t.cells) /\ \A i \in 1..Len(o) : o[i] = t.cells[i]
    BY <1>5, <2>2
  <2>4. o = t.cells
    BY <1>5, <2>2, <2>3, SeqEqual
  <2> QED
    BY <1>5, <1>6, <2>4 DEF o
<1>8. ASSUME NEW k \in Nat, k + 1 <= n
      PROVE  cmdputc(After(k), s[k + 1]) = After(k + 1)
  <2>1. k + 1 \in 1..n
    BY <1>8, <1>6
  <2>2. CASE k < l
    <3>1. s[k + 1] = w[k + 1] /\ k \in 0..l /\ k <= l /\ k + 1 <= l
      BY <1>1, <1>6, <2>1, <2>2
    <3>2. cmdputc([cells |-> Over(t.cells, p, w, k), cursor |-> p + k], w[k + 1])
             = [cells |-> Over(t.cells, p, w, k + 1), cursor |-> p + k + 1]
      BY <1>5, <2>2, <3>1, PutOne
    <3>3. p + k + 1 = p + (k + 1)
      BY <1>5
    <3> QED
      BY <3>1, <3>2, <3>3
  <2>3. CASE ~(k < l)
    <3>1. s[k + 1] = BS /\ ~(k + 1 <= l)
      BY <1>1, <1>6, <2>1, <2>3
    <3> DEFINE o == Over(t.cells, p, w, l)
               q == p + 2 * l - k
    <3>2. After(k) = [cells |-> o, cursor |-> q]
      <4>1. CASE k = l
        <5>1. q = p + k
          BY <1>5, <1>6, <4>1
        <5> QED
          BY <4>1, <5>1
      <4>2. CASE k # l
        <5>1. ~(k <= l)
          BY <1>6, <2>3, <4>2
        <5> QED
          BY <5>1
      <4> QED
        BY <4>1, <4>2
    <3>3. After(k + 1) = [cells |-> o, cursor |-> q - 1]
      <4>1. p + 2 * l - (k + 1) = q - 1
        BY <1>5, <1>6
      <4> QED
        BY <3>1, <4>1
    <3> HIDE DEF o, q, After
    <3>4. cmdputc([cells |-> o, cursor |-> q], BS) = [cells |-> o, cursor |-> q - 1]
      BY DEF cmdputc
    <3> QED
      BY <3>1, <3>2, <3>3, <3>4
  <2> QED
    BY <1>6, <2>2, <2>3
<1> DEFINE T == {k \in Nat : k <= n => r[k] = After(k)}
<1> HIDE DEF After
<1>9. 0 \in T
  BY <1>4, <1>7
<1>10. ASSUME NEW k \in Nat, k \in T
      PROVE  k + 1 \in T
  <2>1. k + 1 <= n => k + 1 \in 1..n /\ k + 1 - 1 = k /\ k <= n
    BY <1>6
  <2> QED
    BY <1>4, <1>8, <1>10, <2>1
<1>11. n \in T
  <2> HIDE DEF T
  <2> QED
    BY <1>6, <1>9, <1>10, Induction
<1>12. r[n] = After(n)
  BY <1>11
<1>13. After(n) = [cells |-> Over(t.cells, p, w, l), cursor |-> p + l - b]
  <2>1. CASE b = 0
    <3>1. n = l /\ p + n = p + l - b
      BY <1>5, <1>6, <2>1
    <3> QED
      BY <1>6, <3>1 DEF After
  <2>2. CASE b # 0
    <3>1. ~(n <= l) /\ p + 2 * l - n = p + l - b
      BY <1>5, <1>6, <2>2
    <3> QED
      BY <3>1 DEF After
  <2> QED
    BY <2>1, <2>2
<1> QED
  BY <1>4, <1>12, <1>13

(* The terminal t shows the line, with the cursor at position p of it. *)
Shows(t, line, p) ==
    /\ t \in Terminal
    /\ t.cursor = p
    /\ Len(line) <= Len(t.cells)
    /\ \A i \in 1..Len(t.cells) : t.cells[i] = IF i <= Len(line) THEN line[i] ELSE BLANK

(* w, written over a line from position p on, makes it the line new, and a blank
   of what is left of it. *)
Redraws(w, line, p, new) ==
    /\ new \in Seq(Char)
    /\ Len(new) <= Len(line) \/ Len(new) <= p + Len(w)
    /\ Len(line) <= p + Len(w) \/ Len(new) = Len(line)
    /\ \A i \in 1..Len(new) : new[i] = IF p < i /\ i <= p + Len(w) THEN w[i - p] ELSE line[i]
    /\ \A i \in (Len(new) + 1)..(p + Len(w)) : i > p /\ w[i - p] = BLANK

(* What Echo makes of a terminal that shows a line. *)
LEMMA EchoOver ==
    ASSUME NEW line \in Seq(Char), NEW p \in 0..Len(line), NEW t, Shows(t, line, p),
           NEW w \in Seq(Char), NEW b \in Nat,
           NEW s, Sends(s, w, b), NEW new, Redraws(w, line, p, new),
           NEW q \in Int, q = p + Len(w) - b
    PROVE  Shows(Echo(t, s), new, q)
<1>1. /\ t \in Terminal /\ t.cursor = p /\ t.cells \in Seq(Char) /\ Len(line) <= Len(t.cells)
      /\ \A i \in 1..Len(t.cells) : t.cells[i] = IF i <= Len(line) THEN line[i] ELSE BLANK
  BY DEF Shows, Terminal
<1> DEFINE o == Over(t.cells, p, w, Len(w))
<1>2. p \in 0..Len(t.cells) /\ Len(w) \in 0..Len(w)
  BY <1>1
<1>3. Echo(t, s) = [cells |-> o, cursor |-> q]
  BY <1>1, <1>2, EchoIs
<1>4. /\ o \in Seq(Char) /\ Len(o) = IF Len(t.cells) < p + Len(w) THEN p + Len(w) ELSE Len(t.cells)
      /\ \A i \in 1..Len(o) : o[i] = IF p < i /\ i <= p + Len(w) THEN w[i - p] ELSE t.cells[i]
  <2>1. t.cells \in Seq(Char) /\ w \in Seq(Char)
    BY <1>1
  <2> QED
    BY ONLY <1>2, <2>1, OverIsCells
<1> HIDE DEF o
<1>5. /\ new \in Seq(Char)
      /\ Len(new) <= Len(line) \/ Len(new) <= p + Len(w)
      /\ Len(line) <= p + Len(w) \/ Len(new) = Len(line)
      /\ \A i \in 1..Len(new) : new[i] = IF p < i /\ i <= p + Len(w) THEN w[i - p] ELSE line[i]
      /\ \A i \in (Len(new) + 1)..(p + Len(w)) : i > p /\ w[i - p] = BLANK
  BY DEF Redraws
<1>6. /\ Len(line) \in Nat /\ Len(w) \in Nat /\ Len(new) \in Nat /\ Len(t.cells) \in Nat
      /\ Len(o) \in Nat /\ p \in Nat /\ p <= Len(line)
  BY <1>5, <1>1, <1>4
<1>7. Len(new) <= Len(o)
  BY <1>5, <1>1, <1>4, <1>6
<1>8. ASSUME NEW i \in 1..Len(o)
      PROVE  o[i] = IF i <= Len(new) THEN new[i] ELSE BLANK
  <2>1. CASE i <= Len(new) /\ p < i /\ i <= p + Len(w)
    <3>1. i \in 1..Len(new)
      BY <1>5, <1>6, <2>1
    <3> QED
      BY <1>5, <1>4, <2>1, <3>1
  <2>2. CASE i <= Len(new) /\ ~(p < i /\ i <= p + Len(w))
    <3>1. i \in 1..Len(new) /\ i <= Len(line) /\ i \in 1..Len(t.cells)
      BY <1>5, <1>1, <1>6, <2>2
    <3> QED
      BY <1>5, <1>1, <1>4, <2>2, <3>1
  <2>3. CASE ~(i <= Len(new)) /\ p < i /\ i <= p + Len(w)
    <3>1. i \in (Len(new) + 1)..(p + Len(w))
      BY <1>5, <1>6, <2>3
    <3> QED
      BY <1>5, <1>4, <2>3, <3>1
  <2>4. CASE ~(i <= Len(new)) /\ ~(p < i /\ i <= p + Len(w))
    <3>1. i \in (Len(new) + 1)..(p + Len(w)) => p < i /\ i <= p + Len(w)
      BY <1>5, <1>6
    <3>2. ~(i <= p + Len(w))
      BY <1>5, <1>6, <2>4, <3>1
    <3>3. i \in 1..Len(t.cells) /\ ~(i <= Len(line))
      BY <1>5, <1>4, <1>6, <2>4, <3>2
    <3> QED
      BY <1>5, <1>1, <1>4, <2>4, <3>3
  <2> QED
    BY <1>5, <2>1, <2>2, <2>3, <2>4
<1>9. [cells |-> o, cursor |-> q] \in Terminal
  BY <1>5, <1>4 DEF Terminal
<1>10. Shows([cells |-> o, cursor |-> q], new, q)
  BY <1>5, <1>7, <1>8, <1>9 DEF Shows
<1> QED
  BY <1>3, <1>10

(* Backspaces. *)
LEMMA TimesIs ==
    ASSUME NEW m \in Nat
    PROVE  /\ Times(BS, m) \in Seq(Signal) /\ Len(Times(BS, m)) = m
           /\ \A i \in 1..m : Times(BS, m)[i] = BS
<1> DEFINE e(i) == BS
<1>1. \A i \in 1..m : e(i) \in Signal
  BY DEF Signal
<1> HIDE DEF e
<1>2. [i \in 1..m |-> e(i)] \in Seq(Signal)
  BY <1>1, IsASeq
<1> QED
  BY <1>2 DEF Times, e

(* backward: the cursor goes back. *)
LEMMA ShowsBackward ==
    ASSUME NEW line \in Seq(Char), NEW p \in 0..Len(line), NEW t, Shows(t, line, p), NEW m \in 0..p
    PROVE  Shows(Echo(t, Times(BS, m)), line, p - m)
<1> DEFINE s == Times(BS, m)
           w == << >>
<1>1. s \in Seq(Signal) /\ Len(s) = m /\ \A i \in 1..Len(s) : s[i] = BS
  BY TimesIs
<1>2. w \in Seq(Char) /\ Len(w) = 0
  OBVIOUS
<1> HIDE DEF s, w
<1>3. m \in Nat /\ Len(s) = Len(w) + m /\ p - m \in Int /\ p - m = p + Len(w) - m
  BY <1>1, <1>2
<1>4. \A i \in 1..Len(s) : s[i] = IF i <= Len(w) THEN w[i] ELSE BS
  BY <1>1, <1>2
<1>5. \A i \in 1..Len(line) : line[i] = IF p < i /\ i <= p + Len(w) THEN w[i - p] ELSE line[i]
  BY <1>2
<1>6. \A i \in (Len(line) + 1)..(p + Len(w)) : i > p /\ w[i - p] = BLANK
  BY <1>2
<1>7. Sends(s, w, m)
  BY <1>1, <1>3, <1>4 DEF Sends
<1>8. Redraws(w, line, p, line)
  BY <1>5, <1>6 DEF Redraws
<1>9. Shows(Echo(t, s), line, p - m)
  BY <1>2, <1>3, <1>7, <1>8, EchoOver
<1> QED
  BY <1>9 DEF s

(* A part of a line: from position p up to position n. *)
LEMMA PartIs ==
    ASSUME NEW line \in Seq(Char), NEW p \in 0..Len(line), NEW n \in p..Len(line), NEW m, m = p + 1,
           NEW w, w = SubSeq(line, m, n)
    PROVE  w \in Seq(Char) /\ Len(w) = n - p /\ \A i \in 1..(n - p) : w[i] = line[p + i]
<1>1. m \in Int /\ n \in Int /\ \A i \in m..n : line[i] \in Char
  BY ElementOfSeq
<1>2. /\ w \in Seq(Char)
      /\ Len(w) = IF m <= n THEN n - m + 1 ELSE 0
      /\ \A i \in 1..(n - m + 1) : w[i] = line[m + i - 1]
  BY <1>1, SubSeqProperties
<1>3. n - m + 1 = n - p /\ \A i \in 1..(n - p) : m + i - 1 = p + i
  OBVIOUS
<1> QED
  BY <1>2, <1>3, SMTT(30)

(* forward: the characters passed are sent again. *)
LEMMA ShowsForward ==
    ASSUME NEW line \in Seq(Char), NEW p \in 0..Len(line), NEW t, Shows(t, line, p),
           NEW m \in 0..(Len(line) - p)
    PROVE  Shows(Echo(t, SubSeq(line, p + 1, p + m)), line, p + m)
<1> DEFINE w == SubSeq(line, p + 1, p + m)
<1>1. w \in Seq(Char) /\ Len(w) = m /\ \A i \in 1..m : w[i] = line[p + i]
  <2> DEFINE n == p + m
             f == p + 1
  <2>1. n \in p..Len(line) /\ n - p = m /\ f = p + 1
    OBVIOUS
  <2>2. w = SubSeq(line, f, n)
    OBVIOUS
  <2> HIDE DEF n, f, w
  <2> QED
    BY <2>1, <2>2, PartIs, SMTT(30)
<1> HIDE DEF w
<1>2. w \in Seq(Signal)
  BY <1>1, SeqMonotonic DEF Signal
<1>3. 0 \in Nat /\ Len(w) = Len(w) + 0 /\ p + m \in Int /\ p + m = p + Len(w) - 0
  BY <1>1
<1>4. \A i \in 1..Len(w) : w[i] = IF i <= Len(w) THEN w[i] ELSE BS
  BY <1>1
<1>5. \A i \in 1..Len(line) : line[i] = IF p < i /\ i <= p + Len(w) THEN w[i - p] ELSE line[i]
  <2> SUFFICES ASSUME NEW i \in 1..Len(line), p < i, i <= p + Len(w) PROVE line[i] = w[i - p]
    OBVIOUS
  <2>1. i - p \in 1..m /\ p + (i - p) = i
    BY <1>1
  <2> QED
    BY <1>1, <2>1
<1>6. \A i \in (Len(line) + 1)..(p + Len(w)) : i > p /\ w[i - p] = BLANK
  BY <1>1
<1>7. Sends(w, w, 0)
  BY <1>2, <1>3, <1>4 DEF Sends
<1>8. Redraws(w, line, p, line)
  BY <1>5, <1>6 DEF Redraws
<1>9. Shows(Echo(t, w), line, p + m)
  BY <1>1, <1>3, <1>7, <1>8, EchoOver
<1> QED
  BY <1>9 DEF w

(* The line without the character at position p. *)
LEMMA RemoveIs ==
    ASSUME NEW line \in Seq(Char), NEW p \in 0..Len(line), p < Len(line)
    PROVE  /\ RemoveAt(line, p + 1) \in Seq(Char)
           /\ Len(RemoveAt(line, p + 1)) = Len(line) - 1
           /\ \A i \in 1..(Len(line) - 1) :
                RemoveAt(line, p + 1)[i] = IF i <= p THEN line[i] ELSE line[i + 1]
<1> DEFINE a == SubSeq(line, 1, p)
           b == SubSeq(line, p + 2, Len(line))
<1>1. a \in Seq(Char) /\ Len(a) = p /\ \A i \in 1..p : a[i] = line[i]
  <2>1. 0 \in 0..Len(line) /\ p \in 0..Len(line) /\ 1 = 0 + 1 /\ p - 0 = p
    OBVIOUS
  <2>2. a \in Seq(Char) /\ Len(a) = p - 0 /\ \A i \in 1..(p - 0) : a[i] = line[0 + i]
    BY <2>1, PartIs
  <2>3. \A i \in 1..p : 0 + i = i
    OBVIOUS
  <2> HIDE DEF a
  <2> QED
    BY <2>1, <2>2, <2>3
<1>2. /\ b \in Seq(Char) /\ Len(b) = Len(line) - p - 1
      /\ \A i \in 1..(Len(line) - p - 1) : b[i] = line[p + 1 + i]
  <2> DEFINE q == p + 1
             n == Len(line)
  <2>1. q \in 0..Len(line) /\ n \in q..Len(line) /\ p + 2 = q + 1 /\ n - q = Len(line) - p - 1
    OBVIOUS
  <2>2. b = SubSeq(line, p + 2, n)
    OBVIOUS
  <2> HIDE DEF b, q, n
  <2>3. b \in Seq(Char) /\ Len(b) = n - q /\ \A i \in 1..(n - q) : b[i] = line[q + i]
    BY <2>1, <2>2, PartIs
  <2> QED
    BY <2>1, <2>3 DEF q
<1>3. RemoveAt(line, p + 1) = a \o b
  <2> DEFINE j == p + 1
  <2>1. j - 1 = p /\ j + 1 = p + 2
    OBVIOUS
  <2> HIDE DEF j
  <2>2. RemoveAt(line, j) = SubSeq(line, 1, j - 1) \o SubSeq(line, j + 1, Len(line))
    BY DEF RemoveAt
  <2> QED
    BY <2>1, <2>2 DEF j
<1> HIDE DEF a, b
<1>4. /\ a \o b \in Seq(Char) /\ Len(a \o b) = Len(a) + Len(b)
      /\ \A i \in 1..(Len(a) + Len(b)) : (a \o b)[i] = IF i <= Len(a) THEN a[i] ELSE b[i - Len(a)]
  BY <1>1, <1>2, ConcatProperties
<1>5. ASSUME NEW i \in 1..(Len(line) - 1)
      PROVE  (a \o b)[i] = IF i <= p THEN line[i] ELSE line[i + 1]
  <2>1. CASE i <= p
    <3>1. i \in 1..p /\ i \in 1..(Len(a) + Len(b))
      BY <1>1, <1>2, <2>1
    <3> QED
      BY <1>1, <1>4, <2>1, <3>1
  <2>2. CASE ~(i <= p)
    <3>1. i - p \in 1..(Len(line) - p - 1) /\ i \in 1..(Len(a) + Len(b)) /\ p + 1 + (i - p) = i + 1
      BY <1>1, <1>2, <2>2
    <3> QED
      BY <1>1, <1>2, <1>4, <2>2, <3>1
  <2> QED
    BY <2>1, <2>2
<1>6. Len(a) + Len(b) = Len(line) - 1
  BY <1>1, <1>2
<1> QED
  BY <1>3, <1>4, <1>5, <1>6

(* The line with a character put in at position p. *)
LEMMA InsertIs ==
    ASSUME NEW line \in Seq(Char), NEW p \in 0..Len(line), NEW ch \in Char
    PROVE  /\ InsertAt(line, p + 1, ch) \in Seq(Char)
           /\ Len(InsertAt(line, p + 1, ch)) = Len(line) + 1
           /\ \A i \in 1..(Len(line) + 1) :
                InsertAt(line, p + 1, ch)[i] =
                    IF i <= p THEN line[i] ELSE IF i = p + 1 THEN ch ELSE line[i - 1]
<1> DEFINE a == SubSeq(line, 1, p)
           b == SubSeq(line, p + 1, Len(line))
<1>1. a \in Seq(Char) /\ Len(a) = p /\ \A i \in 1..p : a[i] = line[i]
  <2>1. 0 \in 0..Len(line) /\ p \in 0..Len(line) /\ 1 = 0 + 1 /\ p - 0 = p
    OBVIOUS
  <2>2. a \in Seq(Char) /\ Len(a) = p - 0 /\ \A i \in 1..(p - 0) : a[i] = line[0 + i]
    BY <2>1, PartIs
  <2>3. \A i \in 1..p : 0 + i = i
    OBVIOUS
  <2> HIDE DEF a
  <2> QED
    BY <2>1, <2>2, <2>3
<1>2. /\ b \in Seq(Char) /\ Len(b) = Len(line) - p
      /\ \A i \in 1..(Len(line) - p) : b[i] = line[p + i]
  <2>1. Len(line) \in p..Len(line)
    OBVIOUS
  <2> QED
    BY <2>1, PartIs
<1>3. InsertAt(line, p + 1, ch) = (a \o <<ch>>) \o b
  <2> DEFINE j == p + 1
  <2>1. j - 1 = p /\ j + 1 = p + 2
    OBVIOUS
  <2> HIDE DEF j
  <2>2. InsertAt(line, j, ch) = SubSeq(line, 1, j - 1) \o <<ch>> \o SubSeq(line, j, Len(line))
    BY DEF InsertAt
  <2> QED
    BY <2>1, <2>2 DEF j
<1> HIDE DEF a, b
<1> DEFINE d == a \o <<ch>>
<1>4. d \in Seq(Char) /\ Len(d) = p + 1 /\ \A i \in 1..(p + 1) : d[i] = IF i <= p THEN line[i] ELSE ch
  <2>1. <<ch>> \in Seq(Char) /\ Len(<<ch>>) = 1 /\ <<ch>>[1] = ch
    OBVIOUS
  <2>2. /\ d \in Seq(Char) /\ Len(d) = Len(a) + Len(<<ch>>)
        /\ \A i \in 1..(Len(a) + Len(<<ch>>)) : d[i] = IF i <= Len(a) THEN a[i] ELSE <<ch>>[i - Len(a)]
    BY <1>1, <2>1, ConcatProperties
  <2> HIDE DEF d
  <2>3. ASSUME NEW i \in 1..(p + 1)
        PROVE  d[i] = IF i <= p THEN line[i] ELSE ch
    <3>1. CASE i <= p
      BY <1>1, <2>1, <2>2, <3>1
    <3>2. CASE ~(i <= p)
      <4>1. i - Len(a) = 1 /\ i \in 1..(Len(a) + Len(<<ch>>)) /\ ~(i <= Len(a))
        BY <1>1, <2>1, <3>2
      <4> QED
        BY <2>1, <2>2, <3>2, <4>1
    <3> QED
      BY <3>1, <3>2
  <2> QED
    BY <1>1, <2>1, <2>2, <2>3
<1> HIDE DEF d
<1>5. /\ d \o b \in Seq(Char) /\ Len(d \o b) = Len(d) + Len(b)
      /\ \A i \in 1..(Len(d) + Len(b)) : (d \o b)[i] = IF i <= Len(d) THEN d[i] ELSE b[i - Len(d)]
  BY <1>2, <1>4, ConcatProperties
<1>6. ASSUME NEW i \in 1..(Len(line) + 1)
      PROVE  (d \o b)[i] = IF i <= p THEN line[i] ELSE IF i = p + 1 THEN ch ELSE line[i - 1]
  <2>1. CASE i <= p + 1
    <3>1. i \in 1..(p + 1) /\ i \in 1..(Len(d) + Len(b)) /\ i <= Len(d)
      BY <1>2, <1>4, <2>1
    <3> QED
      BY <1>4, <1>5, <2>1, <3>1
  <2>2. CASE ~(i <= p + 1)
    <3>1. /\ i - (p + 1) \in 1..(Len(line) - p) /\ i \in 1..(Len(d) + Len(b))
          /\ ~(i <= Len(d)) /\ p + (i - (p + 1)) = i - 1
      BY <1>2, <1>4, <2>2
    <3>2. ~(i <= p) /\ i # p + 1
      BY <2>2
    <3>3. (d \o b)[i] = b[i - (p + 1)]
      BY <1>4, <1>5, <3>1
    <3> QED
      BY <1>2, <3>1, <3>2, <3>3
  <2> QED
    BY <2>1, <2>2
<1>7. Len(d) + Len(b) = Len(line) + 1
  BY <1>2, <1>4
<1> QED
  BY <1>3, <1>5, <1>6, <1>7 DEF d

(* A text with backspaces behind it. *)
LEMMA ThenBack ==
    ASSUME NEW w \in Seq(Char), NEW b \in Nat, NEW s, s = w \o Times(BS, b)
    PROVE  Sends(s, w, b)
<1> DEFINE x == Times(BS, b)
<1>1. x \in Seq(Signal) /\ Len(x) = b /\ \A i \in 1..b : x[i] = BS
  BY TimesIs
<1>2. w \in Seq(Signal)
  BY SeqMonotonic DEF Signal
<1>3. s = w \o x
  OBVIOUS
<1> HIDE DEF x
<1>4. /\ w \o x \in Seq(Signal) /\ Len(w \o x) = Len(w) + Len(x)
      /\ \A i \in 1..(Len(w) + Len(x)) : (w \o x)[i] = IF i <= Len(w) THEN w[i] ELSE x[i - Len(w)]
  BY <1>1, <1>2, ConcatProperties
<1>5. ASSUME NEW i \in 1..Len(s)
      PROVE  s[i] = IF i <= Len(w) THEN w[i] ELSE BS
  <2>1. ~(i <= Len(w)) => i - Len(w) \in 1..b
    BY <1>1, <1>3, <1>4
  <2> QED
    BY <1>1, <1>3, <1>4, <2>1
<1> QED
  BY <1>1, <1>3, <1>4, <1>5 DEF Sends

(* delete: the rest of the line is sent again, one position earlier, and a blank
   over the last character. *)
LEMMA ShowsDelete ==
    ASSUME NEW line \in Seq(Char), NEW p \in 0..Len(line), p < Len(line),
           NEW t, Shows(t, line, p), NEW rest, rest = SubSeq(line, p + 1, Len(line))
    PROVE  Shows(Echo(t, Tail(rest) \o <<BLANK>> \o Times(BS, Len(rest))), RemoveAt(line, p + 1), p)
<1> DEFINE w == Tail(rest) \o <<BLANK>>
           b == Len(rest)
           s == w \o Times(BS, b)
           new == RemoveAt(line, p + 1)
<1>1. /\ rest \in Seq(Char) /\ b = Len(line) - p
      /\ \A i \in 1..(Len(line) - p) : rest[i] = line[p + i]
  <2>1. Len(line) \in p..Len(line)
    OBVIOUS
  <2> QED
    BY <2>1, PartIs
<1>2. BLANK \in Char
  BY FitsAssumption DEF Fits, Char
<1>3. /\ w \in Seq(Char) /\ Len(w) = b
      /\ \A i \in 1..b : w[i] = IF i < b THEN rest[i + 1] ELSE BLANK
  <2> DEFINE a == Tail(rest)
  <2>1. rest # << >> /\ b \in Nat /\ b > 0
    <3>1. Len(rest) > 0
      BY <1>1
    <3> QED
      BY ONLY <1>1, <3>1
  <2>2. a \in Seq(Char) /\ Len(a) = b - 1 /\ \A i \in 1..(b - 1) : a[i] = rest[i + 1]
    BY <1>1, <2>1, HeadTailProperties
  <2>3. <<BLANK>> \in Seq(Char) /\ Len(<<BLANK>>) = 1 /\ <<BLANK>>[1] = BLANK
    BY <1>2
  <2>4. w = a \o <<BLANK>>
    OBVIOUS
  <2> HIDE DEF a, w, b
  <2>5. /\ a \o <<BLANK>> \in Seq(Char) /\ Len(a \o <<BLANK>>) = Len(a) + Len(<<BLANK>>)
        /\ \A i \in 1..(Len(a) + Len(<<BLANK>>)) :
              (a \o <<BLANK>>)[i] = IF i <= Len(a) THEN a[i] ELSE <<BLANK>>[i - Len(a)]
    BY <2>2, <2>3, ConcatProperties
  <2>6. ASSUME NEW i \in 1..b
        PROVE  w[i] = IF i < b THEN rest[i + 1] ELSE BLANK
    <3>1. i \in 1..(Len(a) + Len(<<BLANK>>))
      BY <2>1, <2>2, <2>3
    <3>2. CASE i < b
      <4>1. i <= Len(a) /\ i \in 1..(b - 1)
        BY <2>1, <2>2, <3>2
      <4> QED
        BY <2>2, <2>4, <2>5, <3>1, <3>2, <4>1
    <3>3. CASE ~(i < b)
      <4>1. ~(i <= Len(a)) /\ i - Len(a) = 1
        BY <2>1, <2>2, <3>3
      <4> QED
        BY <2>3, <2>4, <2>5, <3>1, <3>3, <4>1
    <3> QED
      BY <3>2, <3>3
  <2>7. Len(a) + Len(<<BLANK>>) = b
    BY <2>1, <2>2, <2>3
  <2>8. w \in Seq(Char) /\ Len(w) = b
    BY <2>4, <2>5, <2>7
  <2> QED
    BY <2>6, <2>8
<1>4. /\ new \in Seq(Char) /\ Len(new) = Len(line) - 1
      /\ \A i \in 1..(Len(line) - 1) : new[i] = IF i <= p THEN line[i] ELSE line[i + 1]
  BY RemoveIs
<1>5. s = w \o Times(BS, b) /\ b \in Nat
  BY <1>1
<1> HIDE DEF w, b, new, s
<1>6. Sends(s, w, b)
  <2>1. w \in Seq(Char)
    BY <1>3
  <2> QED
    BY <1>5, <2>1, ThenBack
<1>7. p \in Int /\ p = p + Len(w) - b
  BY <1>3, <1>5
<1>8. ASSUME NEW i \in 1..Len(new)
      PROVE  new[i] = IF p < i /\ i <= p + Len(w) THEN w[i - p] ELSE line[i]
  <2>1. i \in 1..(Len(line) - 1)
    BY <1>4
  <2>2. CASE p < i
    <3>1. /\ i - p \in 1..b /\ i - p < b /\ i <= p + Len(w) /\ ~(i <= p)
          /\ i - p + 1 \in 1..(Len(line) - p) /\ p + (i - p + 1) = i + 1
      BY <1>1, <1>3, <2>1, <2>2
    <3>2. w[i - p] = rest[i - p + 1]
      BY <1>3, <3>1
    <3>3. rest[i - p + 1] = line[p + (i - p + 1)]
      BY <1>1, <3>1
    <3> QED
      BY <1>4, <2>1, <2>2, <3>1, <3>2, <3>3
  <2>3. CASE ~(p < i)
    <3>1. i <= p
      BY <2>1, <2>3
    <3> QED
      BY <1>4, <2>1, <2>3, <3>1
  <2> QED
    BY <2>2, <2>3
<1>9. ASSUME NEW i \in (Len(new) + 1)..(p + Len(w))
      PROVE  i > p /\ w[i - p] = BLANK
  <2>1. i > p /\ i - p = b /\ b \in 1..b
    BY <1>1, <1>3, <1>4
  <2> QED
    BY <1>3, <2>1
<1>10. (Len(new) <= Len(line) \/ Len(new) <= p + Len(w)) /\ Len(line) <= p + Len(w)
  BY <1>1, <1>3, <1>4
<1>11. Shows(Echo(t, s), new, p)
  <2>1. Redraws(w, line, p, new)
    BY <1>4, <1>8, <1>9, <1>10 DEF Redraws
  <2>2. w \in Seq(Char)
    BY <1>3
  <2> QED
    BY <1>5, <1>6, <1>7, <2>1, <2>2, EchoOver
<1> QED
  BY <1>11 DEF s, w, b, new

(* insert: the character and the rest of the line, one position later. *)
LEMMA ShowsInsert ==
    ASSUME NEW line \in Seq(Char), NEW p \in 0..Len(line), NEW ch \in Char,
           NEW t, Shows(t, line, p), NEW rest, rest = SubSeq(line, p + 1, Len(line))
    PROVE  Shows(Echo(t, <<ch>> \o rest \o Times(BS, Len(rest))), InsertAt(line, p + 1, ch), p + 1)
<1> DEFINE w == <<ch>> \o rest
           b == Len(rest)
           s == w \o Times(BS, b)
           new == InsertAt(line, p + 1, ch)
<1>1. /\ rest \in Seq(Char) /\ b = Len(line) - p
      /\ \A i \in 1..(Len(line) - p) : rest[i] = line[p + i]
  <2>1. Len(line) \in p..Len(line)
    OBVIOUS
  <2> QED
    BY <2>1, PartIs
<1>2. /\ w \in Seq(Char) /\ Len(w) = b + 1
      /\ \A i \in 1..(b + 1) : w[i] = IF i = 1 THEN ch ELSE rest[i - 1]
  <2>1. <<ch>> \in Seq(Char) /\ Len(<<ch>>) = 1 /\ <<ch>>[1] = ch /\ b \in Nat
    BY <1>1
  <2>2. /\ w \in Seq(Char) /\ Len(w) = Len(<<ch>>) + Len(rest)
        /\ \A i \in 1..(Len(<<ch>>) + Len(rest)) :
              w[i] = IF i <= Len(<<ch>>) THEN <<ch>>[i] ELSE rest[i - Len(<<ch>>)]
    BY <1>1, <2>1, ConcatProperties
  <2>3. b + 1 = Len(<<ch>>) + Len(rest)
    BY <2>1
  <2> HIDE DEF w
  <2>4. ASSUME NEW i \in 1..(b + 1)
        PROVE  w[i] = IF i = 1 THEN ch ELSE rest[i - 1]
    <3>1. i \in 1..(Len(<<ch>>) + Len(rest)) /\ (i <= Len(<<ch>>) <=> i = 1)
      BY <2>1, <2>3
    <3> QED
      BY <2>1, <2>2, <3>1
  <2> QED
    BY <2>2, <2>3, <2>4
<1>3. /\ new \in Seq(Char) /\ Len(new) = Len(line) + 1
      /\ \A i \in 1..(Len(line) + 1) :
            new[i] = IF i <= p THEN line[i] ELSE IF i = p + 1 THEN ch ELSE line[i - 1]
  BY InsertIs, ZenonT(30)
<1>4. s = w \o Times(BS, b) /\ b \in Nat
  BY <1>1
<1> HIDE DEF w, b, new, s
<1>5. Sends(s, w, b)
  <2>1. w \in Seq(Char)
    BY <1>2
  <2> QED
    BY <1>4, <2>1, ThenBack
<1>6. p + 1 \in Int /\ p + 1 = p + Len(w) - b /\ p + Len(w) = Len(line) + 1
  BY <1>1, <1>2, <1>4
<1>7. ASSUME NEW i \in 1..Len(new)
      PROVE  new[i] = IF p < i /\ i <= p + Len(w) THEN w[i - p] ELSE line[i]
  <2>1. i \in 1..(Len(line) + 1)
    BY <1>3
  <2>2. CASE p < i
    <3>1. i - p \in 1..(b + 1) /\ i <= p + Len(w) /\ ~(i <= p) /\ (i - p = 1 <=> i = p + 1)
      BY <1>1, <1>2, <2>1, <2>2
    <3>2. i # p + 1 => i - p - 1 \in 1..(Len(line) - p) /\ p + (i - p - 1) = i - 1
      BY <2>1, <2>2
    <3>3. i # p + 1 => w[i - p] = line[i - 1]
      BY <1>1, <1>2, <3>1, <3>2
    <3>4. i = p + 1 => w[i - p] = ch
      BY <1>2, <3>1
    <3> QED
      BY <1>3, <2>1, <2>2, <3>1, <3>3, <3>4
  <2>3. CASE ~(p < i)
    <3>1. i <= p
      BY <2>1, <2>3
    <3> QED
      BY <1>3, <2>1, <2>3, <3>1
  <2> QED
    BY <2>2, <2>3
<1>8. \A i \in (Len(new) + 1)..(p + Len(w)) : i > p /\ w[i - p] = BLANK
  BY <1>3, <1>6
<1>9. (Len(new) <= Len(line) \/ Len(new) <= p + Len(w)) /\ Len(line) <= p + Len(w)
  BY <1>3, <1>6
<1>10. Shows(Echo(t, s), new, p + 1)
  <2>1. Redraws(w, line, p, new)
    BY <1>3, <1>7, <1>8, <1>9 DEF Redraws
  <2>2. w \in Seq(Char)
    BY <1>2
  <2> QED
    BY <1>4, <1>5, <1>6, <2>1, <2>2, EchoOver
<1> QED
  BY <1>10 DEF s, w, b, new

-----------------------------------------------------------------------------
(* The struct *)

History == [HistIndex -> Char \cup {NUL}]
PrefixStates == {"none", "esc", "cex"}

Editor == [line : Seq(Char), pos : Int, mark : Int, validmark : BOOLEAN, prefix : PrefixStates,
           killbuf : Seq(Char), histbuf : History, histptr : HistIndex,
           histcur : HistIndex \cup {-1}, hist_pending : BOOLEAN, term : Terminal]

(* The ring: a NUL lies before histptr, and none of its lines is longer than a
   line may be. *)
RingOK(buf, ptr) ==
    /\ buf[HISTPTR_BACKWARD(ptr)] = NUL
    /\ \A i \in HistIndex : \E n \in 0..LINESIZE : buf[Around(i, n)] = NUL

(* The inductive invariant: what every key finds and leaves. *)
Good ==
    {c \in Editor :
        /\ Len(c.line) <= LINESIZE
        /\ Len(c.killbuf) <= LINESIZE
        /\ c.pos \in 0..Len(c.line)
        /\ c.mark \in 0..Len(c.line)
        /\ Shows(c.term, c.line, c.pos)
        /\ RingOK(c.histbuf, c.histptr)}

(* c with the fields that editing changes. *)
With(c, line, pos, mark, killbuf, term) ==
    [line |-> line, pos |-> pos, mark |-> mark, validmark |-> c.validmark, prefix |-> c.prefix,
     killbuf |-> killbuf, histbuf |-> c.histbuf, histptr |-> c.histptr,
     histcur |-> c.histcur, hist_pending |-> c.hist_pending, term |-> term]

(* The fields that editing leaves alone. *)
SameHistory(c, d) ==
    /\ d.histbuf = c.histbuf /\ d.histptr = c.histptr /\ d.histcur = c.histcur
    /\ d.hist_pending = c.hist_pending /\ d.prefix = c.prefix

(* What a struct is made of. *)
LEMMA GoodFields ==
    ASSUME NEW c \in Good
    PROVE  /\ c.line \in Seq(Char) /\ Len(c.line) <= LINESIZE /\ Len(c.line) \in Nat
           /\ c.killbuf \in Seq(Char) /\ Len(c.killbuf) <= LINESIZE
           /\ c.pos \in 0..Len(c.line) /\ c.mark \in 0..Len(c.line)
           /\ Shows(c.term, c.line, c.pos)
           /\ c = With(c, c.line, c.pos, c.mark, c.killbuf, c.term)
           /\ c \in Editor
<1>1. c \in Editor
  BY DEF Good
<1>2. c = With(c, c.line, c.pos, c.mark, c.killbuf, c.term)
  BY <1>1 DEF Editor, With
<1>3. c.line \in Seq(Char) /\ c.killbuf \in Seq(Char)
  BY <1>1 DEF Editor
<1> QED
  BY <1>1, <1>2, <1>3 DEF Good

(* A struct with another line is one. *)
LEMMA WithGood ==
    ASSUME NEW c \in Good, NEW line \in Seq(Char), Len(line) <= LINESIZE,
           NEW pos \in 0..Len(line), NEW mark \in 0..Len(line),
           NEW killbuf \in Seq(Char), Len(killbuf) <= LINESIZE,
           NEW term, Shows(term, line, pos)
    PROVE  With(c, line, pos, mark, killbuf, term) \in Good
<1> DEFINE d == With(c, line, pos, mark, killbuf, term)
<1>1. c \in Editor /\ RingOK(c.histbuf, c.histptr)
  BY DEF Good
<1>2. term \in Terminal /\ pos \in Int /\ mark \in Int
  BY DEF Shows
<1>3. d \in Editor
  <2> HIDE DEF PrefixStates, History, Terminal, HistIndex
  <2> QED
    BY <1>1, <1>2 DEF Editor, With
<1>4. /\ d.line = line /\ d.pos = pos /\ d.mark = mark /\ d.killbuf = killbuf /\ d.term = term
      /\ d.histbuf = c.histbuf /\ d.histptr = c.histptr
  BY DEF With
<1> HIDE DEF d
<1>5. d \in Good
  BY <1>1, <1>3, <1>4 DEF Good
<1> QED
  BY <1>5 DEF d

(* The fields of such a struct. *)
LEMMA WithFields ==
    ASSUME NEW c, NEW line, NEW pos, NEW mark, NEW killbuf, NEW term,
           NEW d, d = With(c, line, pos, mark, killbuf, term)
    PROVE  /\ d.line = line /\ d.pos = pos /\ d.mark = mark /\ d.killbuf = killbuf
           /\ d.term = term /\ d.validmark = c.validmark /\ SameHistory(c, d)
BY DEF With, SameHistory

(* Putting such structs one behind the other. *)
LEMMA SameHistoryTransitive ==
    ASSUME NEW c, NEW d, NEW e, SameHistory(c, d), SameHistory(d, e)
    PROVE  SameHistory(c, e)
BY DEF SameHistory

(* The smaller of two. *)
LEMMA MinOfTwo ==
    ASSUME NEW a \in Int, NEW b \in Int
    PROVE  Min({a, b}) = IF a <= b THEN a ELSE b
<1> DEFINE s == {a, b}
           x == IF a <= b THEN a ELSE b
<1>1. x \in s /\ \A y \in s : x <= y
  OBVIOUS
<1>2. Min(s) \in s /\ \A y \in s : Min(s) <= y
  BY <1>1 DEF Min
<1> DEFINE m == Min(s)
<1>3. m \in Int /\ x \in Int /\ m <= x /\ x <= m
  BY <1>1, <1>2
<1> HIDE DEF m, x
<1>4. m = x
  BY <1>3
<1> QED
  BY <1>4 DEF m, x

(* backward moves the cursor and nothing else. *)
LEMMA BackwardIs ==
    ASSUME NEW c \in Good, NEW n \in Nat,
           NEW m, m = IF n <= c.pos THEN n ELSE c.pos
    PROVE  \E t : /\ Shows(t, c.line, c.pos - m)
                  /\ backward(c, n) = With(c, c.line, c.pos - m, c.mark, c.killbuf, t)
<1> DEFINE t == Echo(c.term, Times(BS, m))
<1>1. /\ c.line \in Seq(Char) /\ Len(c.line) \in Nat /\ c.pos \in 0..Len(c.line)
      /\ Shows(c.term, c.line, c.pos) /\ c \in Editor
  BY GoodFields
<1>2. c.pos \in Int /\ n \in Int /\ m \in 0..c.pos
  BY <1>1
<1>3. Min({n, c.pos}) = m
  BY <1>2, MinOfTwo
<1>4. Shows(t, c.line, c.pos - m)
  BY <1>1, <1>2, ShowsBackward
<1>5. backward(c, n) = With(c, c.line, c.pos - m, c.mark, c.killbuf, t)
  <2> HIDE DEF t
  <2>1. backward(c, n) = [c EXCEPT !.pos = @ - m, !.term = t]
    BY <1>3, Zenon DEF backward, t
  <2> QED
    BY <1>1, <2>1 DEF Editor, With
<1> QED
  BY <1>4, <1>5

(* So does forward. *)
LEMMA ForwardIs ==
    ASSUME NEW c \in Good, NEW n \in Nat,
           NEW m, m = IF n <= Len(c.line) - c.pos THEN n ELSE Len(c.line) - c.pos
    PROVE  \E t : /\ Shows(t, c.line, c.pos + m)
                  /\ forward(c, n) = With(c, c.line, c.pos + m, c.mark, c.killbuf, t)
<1> DEFINE t == Echo(c.term, SubSeq(c.line, c.pos + 1, c.pos + m))
<1>1. /\ c.line \in Seq(Char) /\ Len(c.line) \in Nat /\ c.pos \in 0..Len(c.line)
      /\ Shows(c.term, c.line, c.pos) /\ c \in Editor
  BY GoodFields
<1>2. Len(c.line) - c.pos \in Int /\ n \in Int /\ m \in 0..(Len(c.line) - c.pos)
  BY <1>1
<1>3. Min({n, len(c) - c.pos}) = m
  BY <1>2, MinOfTwo DEF len
<1>4. Shows(t, c.line, c.pos + m)
  BY <1>1, <1>2, ShowsForward
<1>5. forward(c, n) = With(c, c.line, c.pos + m, c.mark, c.killbuf, t)
  <2> HIDE DEF t
  <2>1. forward(c, n) = [c EXCEPT !.pos = @ + m, !.term = t]
    BY <1>3, Zenon DEF forward, t
  <2> QED
    BY <1>1, <2>1 DEF Editor, With
<1> QED
  BY <1>4, <1>5

(* What the kill buffer becomes. *)
LEMMA AppendkillIs ==
    ASSUME NEW kill \in Seq(Char), Len(kill) <= LINESIZE, NEW ch \in Char, NEW append
    PROVE  /\ appendkillbuffer(kill, ch, append) \in Seq(Char)
           /\ Len(appendkillbuffer(kill, ch, append)) <= LINESIZE
           /\ append = "NOAPPEND" => appendkillbuffer(kill, ch, append) = kill
<1>1. CASE append = "NOAPPEND" \/ Len(kill) >= LINESIZE
  BY <1>1 DEF appendkillbuffer
<1>2. CASE ~(append = "NOAPPEND" \/ Len(kill) >= LINESIZE)
  <2>1. LINESIZE \in Nat /\ Len(kill) \in Nat /\ Len(kill) + 1 <= LINESIZE
    BY <1>2, FitsAssumption DEF Fits
  <2>2. CASE append = "APPENDTOKILL"
    <3>1. appendkillbuffer(kill, ch, append) = Append(kill, ch)
      BY <1>2, <2>2, Zenon DEF appendkillbuffer
    <3>2. Append(kill, ch) \in Seq(Char) /\ Len(Append(kill, ch)) = Len(kill) + 1
      BY AppendProperties
    <3> QED
      BY <1>2, <2>1, <3>1, <3>2
  <2>3. CASE append # "APPENDTOKILL"
    <3>1. appendkillbuffer(kill, ch, append) = <<ch>> \o kill
      BY <1>2, <2>3, Zenon DEF appendkillbuffer
    <3>2. <<ch>> \in Seq(Char) /\ Len(<<ch>>) = 1
      OBVIOUS
    <3>3. <<ch>> \o kill \in Seq(Char) /\ Len(<<ch>> \o kill) = Len(<<ch>>) + Len(kill)
      BY <3>2, ConcatProperties
    <3> QED
      BY <1>2, <2>1, <3>1, <3>2, <3>3
  <2> QED
    BY <2>2, <2>3
<1> QED
  BY <1>1, <1>2

(* At the end of the line delete does nothing. *)
LEMMA NothingToDelete ==
    ASSUME NEW c \in Good, NEW append, c.pos = Len(c.line)
    PROVE  delete(c, append) = c
<1>1. c.line \in Seq(Char) /\ c.pos \in 0..Len(c.line) /\ Len(c.line) \in c.pos..Len(c.line)
  BY GoodFields
<1>2. Rest(c) = SubSeq(c.line, c.pos + 1, Len(c.line))
  BY DEF Rest, len
<1> DEFINE w == Rest(c)
<1>3. w \in Seq(Char) /\ Len(w) = Len(c.line) - c.pos
  <2> HIDE DEF w
  <2>1. w = SubSeq(c.line, c.pos + 1, Len(c.line))
    BY <1>2 DEF w
  <2> QED
    BY <1>1, <2>1, PartIs
<1>4. w = << >>
  <2> HIDE DEF w
  <2>1. Len(w) = 0
    BY <1>1, <1>3
  <2> QED
    BY ONLY <1>3, <2>1
<1> QED
  BY <1>4 DEF delete

(* Before it the character at the cursor goes, from the screen too. *)
LEMMA DeleteIs ==
    ASSUME NEW c \in Good, NEW append, c.pos < Len(c.line)
    PROVE  \E t : /\ Shows(t, RemoveAt(c.line, c.pos + 1), c.pos)
                  /\ delete(c, append) =
                        With(c, RemoveAt(c.line, c.pos + 1), c.pos,
                             IF c.pos < c.mark THEN c.mark - 1 ELSE c.mark,
                             appendkillbuffer(c.killbuf, c.line[c.pos + 1], append), t)
<1> DEFINE w == Rest(c)
           t == Echo(c.term, Tail(w) \o <<BLANK>> \o Times(BS, Len(w)))
<1>1. /\ c.line \in Seq(Char) /\ c.pos \in 0..Len(c.line) /\ Len(c.line) \in c.pos..Len(c.line)
      /\ Shows(c.term, c.line, c.pos) /\ c \in Editor
  BY GoodFields
<1>2. w = SubSeq(c.line, c.pos + 1, Len(c.line))
  BY DEF Rest, len
<1> HIDE DEF w
<1>3. /\ w \in Seq(Char) /\ Len(w) = Len(c.line) - c.pos
      /\ \A i \in 1..(Len(c.line) - c.pos) : w[i] = c.line[c.pos + i]
  BY <1>1, <1>2, PartIs, SMTT(30)
<1>4. w # << >> /\ Head(w) = c.line[c.pos + 1]
  <2>1. Len(w) > 0 /\ 1 \in 1..(Len(c.line) - c.pos)
    BY <1>1, <1>3
  <2>2. w \in Seq(Char)
    BY <1>3
  <2>3. w # << >>
    BY ONLY <2>1, <2>2
  <2>4. Head(w) = w[1]
    BY ONLY <2>2, <2>3
  <2>5. w[1] = c.line[c.pos + 1]
    BY <1>3, <2>1
  <2> QED
    BY <2>3, <2>4, <2>5
<1>5. Shows(t, RemoveAt(c.line, c.pos + 1), c.pos)
  BY <1>1, <1>2, ShowsDelete
<1> DEFINE line == RemoveAt(c.line, c.pos + 1)
           mark == IF c.pos < c.mark THEN c.mark - 1 ELSE c.mark
           kill == appendkillbuffer(c.killbuf, Head(w), append)
<1>6. delete(c, append) = [c EXCEPT !.killbuf = kill, !.line = line, !.term = t, !.mark = mark]
  BY <1>4, Zenon DEF delete, w
<1> HIDE DEF t, line, mark, kill
<1>7. delete(c, append) = With(c, line, c.pos, mark, kill, t)
  BY <1>1, <1>6 DEF Editor, With
<1> QED
  BY <1>4, <1>5, <1>7 DEF line, mark, kill

(* The line without a character is one. *)
LEMMA DeleteGood ==
    ASSUME NEW c \in Good, NEW append
    PROVE  /\ delete(c, append) \in Good /\ SameHistory(c, delete(c, append))
           /\ append = "NOAPPEND" => delete(c, append).killbuf = c.killbuf
<1>1. /\ c.line \in Seq(Char) /\ Len(c.line) <= LINESIZE /\ Len(c.line) \in Nat
      /\ c.killbuf \in Seq(Char) /\ Len(c.killbuf) <= LINESIZE
      /\ c.pos \in 0..Len(c.line) /\ c.mark \in 0..Len(c.line)
  BY GoodFields
<1>2. CASE c.pos = Len(c.line)
  BY <1>2, NothingToDelete DEF SameHistory
<1>3. CASE c.pos # Len(c.line)
  <2> DEFINE line == RemoveAt(c.line, c.pos + 1)
             mark == IF c.pos < c.mark THEN c.mark - 1 ELSE c.mark
             kill == appendkillbuffer(c.killbuf, c.line[c.pos + 1], append)
  <2>1. c.pos < Len(c.line)
    BY <1>1, <1>3
  <2>2. PICK t : Shows(t, line, c.pos) /\ delete(c, append) = With(c, line, c.pos, mark, kill, t)
    BY <2>1, DeleteIs
  <2>3. line \in Seq(Char) /\ Len(line) = Len(c.line) - 1
    BY <1>1, <2>1, RemoveIs
  <2>4. c.line[c.pos + 1] \in Char
    <3>1. c.pos + 1 \in 1..Len(c.line)
      BY <1>1, <2>1
    <3> QED
      BY <1>1, <3>1, ElementOfSeq
  <2>5. /\ kill \in Seq(Char) /\ Len(kill) <= LINESIZE
        /\ append = "NOAPPEND" => kill = c.killbuf
    BY <1>1, <2>4, AppendkillIs
  <2> DEFINE d == delete(c, append)
  <2> HIDE DEF line, mark, kill
  <2>6. Len(line) <= LINESIZE /\ c.pos \in 0..Len(line) /\ mark \in 0..Len(line)
    BY <1>1, <2>1, <2>3, FitsAssumption DEF Fits, mark
  <2>7. d \in Good
    BY <2>2, <2>3, <2>5, <2>6, WithGood
  <2>8. SameHistory(c, d) /\ d.killbuf = kill
    BY <2>2, WithFields
  <2> QED
    BY <2>5, <2>7, <2>8
<1> QED
  BY <1>2, <1>3

(* backward keeps the struct in order. *)
LEMMA BackwardGood ==
    ASSUME NEW c \in Good, NEW n \in Nat
    PROVE  /\ backward(c, n) \in Good /\ SameHistory(c, backward(c, n))
           /\ backward(c, n).line = c.line /\ backward(c, n).killbuf = c.killbuf
           /\ backward(c, n).pos = IF n <= c.pos THEN c.pos - n ELSE 0
<1> DEFINE m == IF n <= c.pos THEN n ELSE c.pos
           d == backward(c, n)
<1>1. /\ c.line \in Seq(Char) /\ Len(c.line) <= LINESIZE /\ Len(c.line) \in Nat
      /\ c.killbuf \in Seq(Char) /\ Len(c.killbuf) <= LINESIZE
      /\ c.pos \in 0..Len(c.line) /\ c.mark \in 0..Len(c.line)
  BY GoodFields
<1>2. c.pos - m \in 0..Len(c.line) /\ c.pos - m = IF n <= c.pos THEN c.pos - n ELSE 0
  BY <1>1
<1>3. m = IF n <= c.pos THEN n ELSE c.pos
  OBVIOUS
<1> HIDE DEF m, d
<1>4. PICK t : Shows(t, c.line, c.pos - m) /\ d = With(c, c.line, c.pos - m, c.mark, c.killbuf, t)
  BY <1>3, BackwardIs DEF d
<1>5. d \in Good
  BY <1>1, <1>2, <1>4, WithGood
<1>6. SameHistory(c, d) /\ d.line = c.line /\ d.killbuf = c.killbuf /\ d.pos = c.pos - m
  BY <1>4, WithFields
<1> QED
  BY <1>2, <1>5, <1>6 DEF d

(* forward does, too. *)
LEMMA ForwardGood ==
    ASSUME NEW c \in Good, NEW n \in Nat
    PROVE  /\ forward(c, n) \in Good /\ SameHistory(c, forward(c, n))
           /\ forward(c, n).line = c.line /\ forward(c, n).killbuf = c.killbuf
           /\ forward(c, n).pos = IF n <= Len(c.line) - c.pos THEN c.pos + n ELSE Len(c.line)
<1> DEFINE m == IF n <= Len(c.line) - c.pos THEN n ELSE Len(c.line) - c.pos
           d == forward(c, n)
<1>1. /\ c.line \in Seq(Char) /\ Len(c.line) <= LINESIZE /\ Len(c.line) \in Nat
      /\ c.killbuf \in Seq(Char) /\ Len(c.killbuf) <= LINESIZE
      /\ c.pos \in 0..Len(c.line) /\ c.mark \in 0..Len(c.line)
  BY GoodFields
<1>2. /\ c.pos + m \in 0..Len(c.line)
      /\ c.pos + m = IF n <= Len(c.line) - c.pos THEN c.pos + n ELSE Len(c.line)
  BY <1>1
<1>3. m = IF n <= Len(c.line) - c.pos THEN n ELSE Len(c.line) - c.pos
  OBVIOUS
<1> HIDE DEF m, d
<1>4. PICK t : Shows(t, c.line, c.pos + m) /\ d = With(c, c.line, c.pos + m, c.mark, c.killbuf, t)
  BY <1>3, ForwardIs DEF d
<1>5. d \in Good
  BY <1>1, <1>2, <1>4, WithGood
<1>6. SameHistory(c, d) /\ d.line = c.line /\ d.killbuf = c.killbuf /\ d.pos = c.pos + m
  BY <1>4, WithFields
<1> QED
  BY <1>2, <1>5, <1>6 DEF d

(* backspace is a delete one position earlier. *)
LEMMA BackspaceGood ==
    ASSUME NEW c \in Good, NEW append
    PROVE  /\ backspace(c, append) \in Good /\ SameHistory(c, backspace(c, append))
           /\ append = "NOAPPEND" => backspace(c, append).killbuf = c.killbuf
<1>1. CASE c.pos = 0
  BY <1>1 DEF backspace, SameHistory
<1>2. CASE c.pos # 0
  <2> DEFINE b == backward(c, 1)
  <2>1. b \in Good /\ SameHistory(c, b) /\ b.killbuf = c.killbuf
    BY BackwardGood
  <2>2. backspace(c, append) = delete(b, append)
    BY <1>2 DEF backspace
  <2> HIDE DEF b
  <2>3. /\ delete(b, append) \in Good /\ SameHistory(b, delete(b, append))
        /\ append = "NOAPPEND" => delete(b, append).killbuf = b.killbuf
    BY <2>1, DeleteGood
  <2> QED
    BY <2>1, <2>2, <2>3, SameHistoryTransitive
<1> QED
  BY <1>1, <1>2

(* insert: nothing at the limit, and before it the character. *)
LEMMA InsertKeeps ==
    ASSUME NEW c \in Good, NEW ch \in Char, NEW d, d = insert(c, ch)
    PROVE  /\ d \in Good /\ SameHistory(c, d) /\ d.killbuf = c.killbuf
           /\ Len(c.line) < LINESIZE =>
                d.pos = c.pos + 1 /\ d.line = InsertAt(c.line, c.pos + 1, ch)
<1>1. /\ c.line \in Seq(Char) /\ Len(c.line) <= LINESIZE /\ Len(c.line) \in Nat
      /\ c.killbuf \in Seq(Char) /\ Len(c.killbuf) <= LINESIZE
      /\ c.pos \in 0..Len(c.line) /\ c.mark \in 0..Len(c.line)
      /\ Shows(c.term, c.line, c.pos) /\ c \in Editor
  BY GoodFields
<1>2. LINESIZE \in Nat
  BY FitsAssumption DEF Fits
<1>3. CASE Len(c.line) >= LINESIZE
  BY <1>1, <1>2, <1>3 DEF insert, len, SameHistory
<1>4. CASE ~(Len(c.line) >= LINESIZE)
  <2> DEFINE w == Rest(c)
             t == Echo(c.term, <<ch>> \o w \o Times(BS, Len(w)))
             line == InsertAt(c.line, c.pos + 1, ch)
             mark == IF c.mark > c.pos + 1 THEN c.mark + 1 ELSE c.mark
  <2>1. w = SubSeq(c.line, c.pos + 1, Len(c.line))
    BY DEF Rest, len
  <2>2. d = [c EXCEPT !.line = line, !.term = t, !.pos = @ + 1, !.mark = mark]
    BY <1>4, Zenon DEF insert, len
  <2> HIDE DEF w
  <2>3. Shows(t, line, c.pos + 1)
    BY <1>1, <2>1, ShowsInsert
  <2>4. line \in Seq(Char) /\ Len(line) = Len(c.line) + 1
    BY <1>1, InsertIs
  <2> HIDE DEF t, line, mark
  <2>5. d = With(c, line, c.pos + 1, mark, c.killbuf, t)
    BY <1>1, <2>2 DEF Editor, With
  <2>6. Len(line) <= LINESIZE /\ c.pos + 1 \in 0..Len(line) /\ mark \in 0..Len(line)
    BY <1>1, <1>2, <1>4, <2>4 DEF mark
  <2>7. d \in Good
    BY <1>1, <2>3, <2>4, <2>5, <2>6, WithGood
  <2>8. SameHistory(c, d) /\ d.killbuf = c.killbuf /\ d.pos = c.pos + 1 /\ d.line = line
    BY <2>5, WithFields
  <2> QED
    BY <2>7, <2>8 DEF line
<1> QED
  BY <1>3, <1>4

-----------------------------------------------------------------------------
(* Killing and yanking *)

(* old is what is before position p of the line, what was killed, and what is
   from p on. *)
CutOut(old, line, p, kill) ==
    /\ Len(old) = Len(line) + Len(kill)
    /\ \A i \in 1..p : old[i] = line[i]
    /\ \A i \in 1..Len(kill) : old[p + i] = kill[i]
    /\ \A i \in (p + 1)..Len(line) : old[Len(kill) + i] = line[i]

(* The line that was there before the kill. *)
Kills(old, c) == CutOut(old, c.line, c.pos, c.killbuf)

(* With an empty kill buffer that is the line itself. *)
LEMMA KillsNothing ==
    ASSUME NEW c \in Good, c.killbuf = << >>
    PROVE  Kills(c.line, c)
<1>1. Len(c.killbuf) = 0 /\ c.line \in Seq(Char) /\ c.pos \in 0..Len(c.line)
  BY GoodFields
<1>2. Len(c.line) \in Nat
  BY <1>1
<1> QED
  BY <1>1, <1>2 DEF Kills, CutOut

(* new is line, of m characters, without the one at p; more is kill, of n, with
   ch behind it, or in front of it. *)
Without(new, line, m, p) ==
    /\ Len(new) = m - 1
    /\ \A i \in 1..(m - 1) : new[i] = IF i <= p THEN line[i] ELSE line[i + 1]
MoreBehind(more, kill, n, ch) ==
    /\ Len(more) = n + 1 /\ more[n + 1] = ch
    /\ \A i \in 1..n : more[i] = kill[i]
MoreInFront(more, kill, n, ch) ==
    /\ Len(more) = n + 1 /\ more[1] = ch
    /\ \A i \in 1..n : more[i + 1] = kill[i]

(* The character at p goes from the line to the end of the kill buffer. *)
LEMMA CutForward ==
    ASSUME NEW m \in Nat, NEW n \in Nat, NEW p \in 0..m, p < m,
           NEW old, NEW line, NEW kill, NEW new, NEW more, CutOut(old, line, p, kill),
           Len(line) = m, Len(kill) = n, Without(new, line, m, p),
           MoreBehind(more, kill, n, line[p + 1])
    PROVE  CutOut(old, new, p, more)
<1> USE DEF Without, MoreBehind
<1>1. /\ Len(old) = m + n
      /\ \A i \in 1..p : old[i] = line[i]
      /\ \A i \in 1..n : old[p + i] = kill[i]
      /\ \A i \in (p + 1)..m : old[n + i] = line[i]
  BY DEF CutOut
<1>2. Len(old) = Len(new) + Len(more)
  BY <1>1
<1>3. \A i \in 1..p : old[i] = new[i]
  <2>1. \A i \in 1..p : i \in 1..(m - 1) /\ i <= p
    OBVIOUS
  <2> QED
    BY <1>1, <2>1
<1>4. ASSUME NEW i \in 1..(n + 1)
      PROVE  old[p + i] = more[i]
  <2>1. CASE i \in 1..n
    BY <1>1, <2>1
  <2>2. CASE i = n + 1
    <3>1. p + 1 \in (p + 1)..m /\ n + (p + 1) = p + i
      BY <2>2
    <3>2. old[n + (p + 1)] = line[p + 1]
      BY <1>1, <3>1
    <3> QED
      BY <2>2, <3>1, <3>2
  <2> QED
    BY <2>1, <2>2
<1>5. ASSUME NEW i \in (p + 1)..(m - 1)
      PROVE  old[n + 1 + i] = new[i]
  <2>1. i + 1 \in (p + 1)..m /\ n + (i + 1) = n + 1 + i /\ i \in 1..(m - 1) /\ ~(i <= p)
    OBVIOUS
  <2>2. old[n + (i + 1)] = line[i + 1]
    BY <1>1, <2>1
  <2> QED
    BY <2>1, <2>2
<1> QED
  BY <1>2, <1>3, <1>4, <1>5 DEF CutOut

(* The character before q goes from the line to the front of the kill buffer. *)
LEMMA CutBackward ==
    ASSUME NEW m \in Nat, NEW n \in Nat, NEW p \in 0..m, p < m, NEW q, q = p + 1,
           NEW old, NEW line, NEW kill, NEW new, NEW more, CutOut(old, line, q, kill),
           Len(line) = m, Len(kill) = n, Without(new, line, m, p),
           MoreInFront(more, kill, n, line[p + 1])
    PROVE  CutOut(old, new, p, more)
<1> USE DEF Without, MoreInFront
<1>1. /\ Len(old) = m + n
      /\ \A i \in 1..q : old[i] = line[i]
      /\ \A i \in 1..n : old[q + i] = kill[i]
      /\ \A i \in (q + 1)..m : old[n + i] = line[i]
  BY DEF CutOut
<1>2. Len(old) = Len(new) + Len(more)
  BY <1>1
<1>3. \A i \in 1..p : old[i] = new[i]
  <2>1. \A i \in 1..p : i \in 1..(m - 1) /\ i <= p /\ i \in 1..q
    OBVIOUS
  <2> QED
    BY <1>1, <2>1
<1>4. ASSUME NEW i \in 1..(n + 1)
      PROVE  old[p + i] = more[i]
  <2>1. CASE i = 1
    <3>1. q \in 1..q
      OBVIOUS
    <3> QED
      BY <1>1, <2>1, <3>1
  <2>2. CASE i # 1
    <3>1. i - 1 \in 1..n /\ q + (i - 1) = p + i /\ i - 1 + 1 = i
      BY <2>2
    <3>2. old[q + (i - 1)] = kill[i - 1] /\ more[i - 1 + 1] = kill[i - 1]
      BY <1>1, <3>1
    <3> QED
      BY <3>1, <3>2
  <2> QED
    BY <2>1, <2>2
<1>5. ASSUME NEW i \in (p + 1)..(m - 1)
      PROVE  old[n + 1 + i] = new[i]
  <2>1. i + 1 \in (q + 1)..m /\ n + (i + 1) = n + 1 + i /\ i \in 1..(m - 1) /\ ~(i <= p)
    OBVIOUS
  <2>2. old[n + (i + 1)] = line[i + 1]
    BY <1>1, <2>1
  <2> QED
    BY <2>1, <2>2
<1> QED
  BY <1>2, <1>3, <1>4, <1>5 DEF CutOut

(* As long as there is something to delete there is room in the kill buffer. *)
LEMMA RoomToKill ==
    ASSUME NEW m \in Nat, NEW n \in Nat, NEW old, NEW line, NEW kill, NEW p,
           CutOut(old, line, p, kill), Len(line) = m, Len(kill) = n, m > 0, Len(old) <= LINESIZE
    PROVE  ~(Len(kill) >= LINESIZE)
<1>1. Len(old) = m + n
  BY DEF CutOut
<1>2. LINESIZE \in Nat
  BY FitsAssumption DEF Fits
<1> QED
  BY <1>1, <1>2

(* A character deleted forward goes to the end of the kill buffer. *)
LEMMA DeleteKills ==
    ASSUME NEW c \in Good, NEW old \in Seq(Char), Len(old) <= LINESIZE, Kills(old, c)
    PROVE  Kills(old, delete(c, "APPENDTOKILL"))
<1> DEFINE m == Len(c.line)
           n == Len(c.killbuf)
           p == c.pos
<1>1. c.line \in Seq(Char) /\ m \in Nat /\ c.killbuf \in Seq(Char) /\ n \in Nat /\ p \in 0..m
  BY GoodFields
<1>2. CASE p = m
  BY <1>2, NothingToDelete
<1>3. CASE p # m
  <2> DEFINE line == RemoveAt(c.line, p + 1)
             mark == IF p < c.mark THEN c.mark - 1 ELSE c.mark
             kill == appendkillbuffer(c.killbuf, c.line[p + 1], "APPENDTOKILL")
             d == delete(c, "APPENDTOKILL")
  <2>1. p < m /\ p + 1 \in 1..m /\ m > 0
    BY <1>1, <1>3
  <2>2. PICK t : Shows(t, line, p) /\ d = With(c, line, p, mark, kill, t)
    BY <2>1, DeleteIs
  <2>3. /\ Len(line) = m - 1
        /\ \A i \in 1..(m - 1) : line[i] = IF i <= p THEN c.line[i] ELSE c.line[i + 1]
    BY <1>1, <2>1, RemoveIs
  <2>4. c.line[p + 1] \in Char
    BY <1>1, <2>1, ElementOfSeq
  <2>5. CutOut(old, c.line, p, c.killbuf)
    BY DEF Kills
  <2>6. kill = Append(c.killbuf, c.line[p + 1])
    <3>1. ~(Len(c.killbuf) >= LINESIZE)
      BY <1>1, <2>1, <2>5, RoomToKill
    <3> QED
      BY <3>1 DEF appendkillbuffer
  <2>7. d.line = line /\ d.pos = p /\ d.killbuf = kill
    BY <2>2, WithFields
  <2> DEFINE ch == c.line[p + 1]
             old_kill == c.killbuf
             old_line == c.line
  <2>8. kill = Append(old_kill, ch) /\ ch \in Char /\ old_kill \in Seq(Char) /\ Len(old_kill) = n
    BY <1>1, <2>4, <2>6
  <2> HIDE DEF d, line, kill, mark, ch, old_kill
  <2>9. /\ Len(kill) = Len(old_kill) + 1 /\ kill[Len(old_kill) + 1] = ch
        /\ \A i \in 1..Len(old_kill) : kill[i] = old_kill[i]
    BY <2>8, AppendProperties
  <2> HIDE DEF n, m, p
  <2>10. Len(kill) = n + 1 /\ kill[n + 1] = ch /\ \A i \in 1..n : kill[i] = old_kill[i]
    BY <2>8, <2>9
  <2>11. Len(old_line) = m
    BY DEF m
  <2>12. CutOut(old, old_line, p, old_kill) /\ ch = old_line[p + 1]
    BY <2>5 DEF old_kill, ch
  <2>13. \A i \in 1..(m - 1) : line[i] = IF i <= p THEN old_line[i] ELSE old_line[i + 1]
    BY <2>3
  <2> HIDE DEF old_line
  <2>14. CutOut(old, line, p, kill)
    <3>1. Without(line, old_line, m, p)
      BY <2>3, <2>13 DEF Without
    <3>2. MoreBehind(kill, old_kill, n, old_line[p + 1])
      BY <2>10, <2>12 DEF MoreBehind
    <3> QED
      BY <1>1, <2>1, <2>8, <2>11, <2>12, <3>1, <3>2, CutForward
  <2>15. Kills(old, d)
    BY <2>7, <2>14 DEF Kills
  <2> QED
    BY <2>15 DEF d
<1> QED
  BY <1>2, <1>3

(* One deleted backward goes to the front of it. *)
LEMMA BackspaceKills ==
    ASSUME NEW c \in Good, NEW old \in Seq(Char), Len(old) <= LINESIZE, Kills(old, c)
    PROVE  Kills(old, backspace(c, "APPENDTOKILLREV"))
<1> DEFINE m == Len(c.line)
           n == Len(c.killbuf)
           q == c.pos
<1>1. c.line \in Seq(Char) /\ m \in Nat /\ c.killbuf \in Seq(Char) /\ n \in Nat /\ q \in 0..m
  BY GoodFields
<1>2. CASE q = 0
  BY <1>2 DEF backspace
<1>3. CASE q # 0
  <2> DEFINE b == backward(c, 1)
             p == q - 1
             line == RemoveAt(c.line, p + 1)
             mark == IF p < b.mark THEN b.mark - 1 ELSE b.mark
             kill == appendkillbuffer(c.killbuf, c.line[p + 1], "APPENDTOKILLREV")
             d == delete(b, "APPENDTOKILLREV")
  <2>1. backspace(c, "APPENDTOKILLREV") = d
    BY <1>3 DEF backspace
  <2>2. p \in 0..m /\ p < m /\ p + 1 \in 1..m /\ q = p + 1 /\ m > 0
    BY <1>1, <1>3
  <2>3. b \in Good /\ b.line = c.line /\ b.killbuf = c.killbuf /\ b.pos = p
    <3>1. 1 \in Nat /\ 1 <= c.pos
      BY <1>1, <1>3
    <3> QED
      BY <3>1, BackwardGood
  <2> HIDE DEF b, p
  <2>4. PICK t : Shows(t, line, p) /\ d = With(b, line, p, mark, kill, t)
    <3>1. b.pos < Len(b.line)
      BY <2>2, <2>3
    <3> QED
      BY <2>3, <3>1, DeleteIs
  <2>5. /\ Len(line) = m - 1
        /\ \A i \in 1..(m - 1) : line[i] = IF i <= p THEN c.line[i] ELSE c.line[i + 1]
    BY <1>1, <2>2, RemoveIs
  <2>6. c.line[p + 1] \in Char
    BY <1>1, <2>2, ElementOfSeq
  <2>7. CutOut(old, c.line, q, c.killbuf)
    BY DEF Kills
  <2> DEFINE ch == c.line[p + 1]
             old_kill == c.killbuf
             old_line == c.line
  <2>8. kill = <<ch>> \o old_kill
    <3>1. ~(Len(c.killbuf) >= LINESIZE)
      BY <1>1, <2>2, <2>7, RoomToKill
    <3> QED
      BY <3>1 DEF appendkillbuffer
  <2>9. d.line = line /\ d.pos = p /\ d.killbuf = kill
    BY <2>4, WithFields
  <2>10. ch \in Char /\ old_kill \in Seq(Char) /\ Len(old_kill) = n
    BY <1>1, <2>6
  <2> HIDE DEF d, line, kill, mark, ch, old_kill
  <2>11. <<ch>> \in Seq(Char) /\ Len(<<ch>>) = 1 /\ <<ch>>[1] = ch
    BY <2>10
  <2>12. /\ Len(kill) = Len(<<ch>>) + Len(old_kill)
         /\ \A i \in 1..(Len(<<ch>>) + Len(old_kill)) :
               kill[i] = IF i <= Len(<<ch>>) THEN <<ch>>[i] ELSE old_kill[i - Len(<<ch>>)]
    BY <2>8, <2>10, <2>11, ConcatProperties
  <2>13. CutOut(old, old_line, q, old_kill) /\ ch = old_line[p + 1] /\ Len(old_line) = m
    BY <2>7 DEF old_kill, ch
  <2>14. \A i \in 1..(m - 1) : line[i] = IF i <= p THEN old_line[i] ELSE old_line[i + 1]
    BY <2>5
  <2> HIDE DEF n, m, q, old_line
  <2>15. Len(kill) = n + 1 /\ kill[1] = ch
    <3>1. 1 \in 1..(1 + n) /\ 1 + n = n + 1
      BY <1>1
    <3> QED
      BY <2>10, <2>11, <2>12, <3>1
  <2>16. ASSUME NEW i \in 1..n
         PROVE  kill[i + 1] = old_kill[i]
    <3>1. i + 1 \in 1..(1 + n) /\ ~(i + 1 <= 1) /\ i + 1 - 1 = i
      BY <1>1
    <3> QED
      BY <2>10, <2>11, <2>12, <3>1
  <2>17. CutOut(old, line, p, kill)
    <3>1. Without(line, old_line, m, p)
      BY <2>5, <2>14 DEF Without
    <3>2. MoreInFront(kill, old_kill, n, old_line[p + 1])
      BY <2>13, <2>15, <2>16 DEF MoreInFront
    <3> QED
      BY <1>1, <2>2, <2>10, <2>13, <3>1, <3>2, CutBackward
  <2>18. Kills(old, d)
    BY <2>9, <2>17 DEF Kills
  <2> QED
    BY <2>1, <2>18
<1> QED
  BY <1>2, <1>3


-----------------------------------------------------------------------------
(* Deleting, killing and inserting many *)

(* What editing leads to, and editing that leaves the kill buffer alone. *)
Edited(c) == {x \in Good : SameHistory(c, x)}
Moved(c) == {x \in Good : SameHistory(c, x) /\ x.killbuf = c.killbuf}

(* Killing, with what is killed so far in the kill buffer. *)
Killing(c, old) == {x \in Good : SameHistory(c, x) /\ Kills(old, x)}

(* The last value of a loop is one of those it goes through. *)
LEMMA LastOfLoop ==
    ASSUME NEW V, NEW m \in Nat, NEW r \in [0..m -> V]
    PROVE  r[m] \in V
OBVIOUS

(* A struct is where its own editing starts. *)
LEMMA NotEdited ==
    ASSUME NEW c \in Good
    PROVE  c \in Edited(c) /\ c \in Moved(c)
BY DEF Edited, Moved, SameHistory

(* Editing goes on from what editing led to. *)
LEMMA MovedOn ==
    ASSUME NEW c \in Good, NEW d \in Moved(c)
    PROVE  Moved(d) \subseteq Moved(c) /\ d \in Good /\ Moved(c) \subseteq Edited(c)
BY SameHistoryTransitive DEF Moved, Edited

(* Deleting n characters that are not killed, and n that are, forward. *)
LEMMA DeleteTimesGood ==
    ASSUME NEW c \in Good, NEW m \in Nat
    PROVE  DeleteTimes(c, "NOAPPEND", m) \in Moved(c)
<1> DEFINE V == Moved(c)
<1>1. c \in V
  BY NotEdited
<1>2. ASSUME NEW x \in V
      PROVE  delete(x, "NOAPPEND") \in V
  <2>1. x \in Good /\ SameHistory(c, x) /\ x.killbuf = c.killbuf
    BY DEF Moved
  <2> DEFINE y == delete(x, "NOAPPEND")
  <2>2. y \in Good /\ SameHistory(x, y) /\ y.killbuf = x.killbuf
    BY <2>1, DeleteGood
  <2> HIDE DEF y
  <2>3. SameHistory(c, y)
    BY <2>1, <2>2, SameHistoryTransitive
  <2>4. y \in V
    BY <2>1, <2>2, <2>3 DEF Moved
  <2> QED
    BY <2>4 DEF y
<1> HIDE DEF V
<1>3. PICK r : Deletes(r, V, c, "NOAPPEND", m) /\ DeleteTimes(c, "NOAPPEND", m) = r[m]
  BY <1>1, <1>2, DeleteLoop
<1>4. r[m] \in V
  BY <1>3, LastOfLoop DEF Deletes
<1> QED
  BY <1>3, <1>4 DEF V

(* The same with a kill buffer that collects them. *)
LEMMA DeleteTimesKills ==
    ASSUME NEW c \in Good, NEW m \in Nat, NEW old \in Seq(Char), Len(old) <= LINESIZE, Kills(old, c)
    PROVE  DeleteTimes(c, "APPENDTOKILL", m) \in Killing(c, old)
<1> DEFINE V == Killing(c, old)
<1>1. c \in V
  BY DEF Killing, SameHistory
<1>2. ASSUME NEW x \in V
      PROVE  delete(x, "APPENDTOKILL") \in V
  <2>1. x \in Good /\ SameHistory(c, x) /\ Kills(old, x)
    BY DEF Killing
  <2> DEFINE y == delete(x, "APPENDTOKILL")
  <2>2. y \in Good /\ SameHistory(x, y)
    BY <2>1, DeleteGood
  <2>3. Kills(old, y)
    BY <2>1, DeleteKills
  <2> HIDE DEF y
  <2>4. SameHistory(c, y)
    BY <2>1, <2>2, SameHistoryTransitive
  <2>5. y \in V
    BY <2>2, <2>3, <2>4 DEF Killing
  <2> QED
    BY <2>5 DEF y
<1> HIDE DEF V
<1>3. PICK r : Deletes(r, V, c, "APPENDTOKILL", m) /\ DeleteTimes(c, "APPENDTOKILL", m) = r[m]
  BY <1>1, <1>2, DeleteLoop
<1>4. r[m] \in V
  BY <1>3, LastOfLoop DEF Deletes
<1> QED
  BY <1>3, <1>4 DEF V

(* And backward. *)
LEMMA BackspaceTimesKills ==
    ASSUME NEW c \in Good, NEW m \in Nat, NEW old \in Seq(Char), Len(old) <= LINESIZE, Kills(old, c)
    PROVE  BackspaceTimes(c, "APPENDTOKILLREV", m) \in Killing(c, old)
<1> DEFINE V == Killing(c, old)
<1>1. c \in V
  BY DEF Killing, SameHistory
<1>2. ASSUME NEW x \in V
      PROVE  backspace(x, "APPENDTOKILLREV") \in V
  <2>1. x \in Good /\ SameHistory(c, x) /\ Kills(old, x)
    BY DEF Killing
  <2> DEFINE y == backspace(x, "APPENDTOKILLREV")
  <2>2. y \in Good /\ SameHistory(x, y)
    BY <2>1, BackspaceGood
  <2>3. Kills(old, y)
    BY <2>1, BackspaceKills
  <2> HIDE DEF y
  <2>4. SameHistory(c, y)
    BY <2>1, <2>2, SameHistoryTransitive
  <2>5. y \in V
    BY <2>2, <2>3, <2>4 DEF Killing
  <2> QED
    BY <2>5 DEF y
<1> HIDE DEF V
<1>3. PICK r : /\ Backspaces(r, V, c, "APPENDTOKILLREV", m)
               /\ BackspaceTimes(c, "APPENDTOKILLREV", m) = r[m]
  BY <1>1, <1>2, BackspaceLoop
<1>4. r[m] \in V
  BY <1>3, LastOfLoop DEF Backspaces
<1> QED
  BY <1>3, <1>4 DEF V

(* What backspace leaves of the line and the position. *)
LEMMA BackspaceShortens ==
    ASSUME NEW c \in Good, NEW append, c.pos # 0, NEW d, d = backspace(c, append)
    PROVE  Len(d.line) = Len(c.line) - 1 /\ d.pos = c.pos - 1
<1> DEFINE b == backward(c, 1)
           line == RemoveAt(c.line, b.pos + 1)
<1>1. c.line \in Seq(Char) /\ Len(c.line) \in Nat /\ c.pos \in 0..Len(c.line) /\ 1 <= c.pos
  BY GoodFields
<1>2. b \in Good /\ b.line = c.line /\ b.killbuf = c.killbuf /\ b.pos = c.pos - 1
  BY <1>1, BackwardGood
<1>3. d = delete(b, append)
  BY DEF backspace
<1> HIDE DEF b
<1>4. b.pos \in 0..Len(c.line) /\ b.pos < Len(c.line)
  BY <1>1, <1>2
<1>5. PICK t, mark, kill : d = With(b, line, b.pos, mark, kill, t)
  BY <1>2, <1>3, <1>4, DeleteIs
<1>6. Len(line) = Len(c.line) - 1
  BY <1>1, <1>4, RemoveIs
<1> HIDE DEF line
<1>7. d.line = line /\ d.pos = b.pos
  BY <1>5, WithFields
<1> QED
  BY <1>2, <1>6, <1>7

(* From the end of the line backward until nothing is left. *)
LEMMA BackspaceAll ==
    ASSUME NEW c \in Good, c.pos = Len(c.line)
    PROVE  LET d == BackspaceTimes(c, "NOAPPEND", Len(c.line))
           IN  d \in Moved(c) /\ d.line = << >>
<1> DEFINE V == Moved(c)
           m == Len(c.line)
<1>1. c \in V
  BY NotEdited
<1>2. ASSUME NEW x \in V
      PROVE  backspace(x, "NOAPPEND") \in V /\ x \in Good
  <2>1. x \in Good /\ SameHistory(c, x) /\ x.killbuf = c.killbuf
    BY DEF Moved
  <2> DEFINE y == backspace(x, "NOAPPEND")
  <2>2. y \in Good /\ SameHistory(x, y) /\ y.killbuf = x.killbuf
    BY <2>1, BackspaceGood
  <2> HIDE DEF y
  <2>3. SameHistory(c, y)
    BY <2>1, <2>2, SameHistoryTransitive
  <2>4. y \in V
    BY <2>1, <2>2, <2>3 DEF Moved
  <2> QED
    BY <2>1, <2>4 DEF y
<1>3. m \in Nat /\ c.pos = m
  BY GoodFields
<1> HIDE DEF V, m
<1>4. PICK r : Backspaces(r, V, c, "NOAPPEND", m) /\ BackspaceTimes(c, "NOAPPEND", m) = r[m]
  BY <1>1, <1>2, <1>3, BackspaceLoop
<1> DEFINE Left(k) == Len(r[k].line) = m - k /\ r[k].pos = m - k
           T == {k \in Nat : k <= m => Left(k)}
<1>5. 0 \in T
  BY <1>3, <1>4 DEF Backspaces, m
<1>6. ASSUME NEW k \in Nat, k \in T
      PROVE  k + 1 \in T
  <2> SUFFICES ASSUME k + 1 <= m PROVE Left(k + 1)
    OBVIOUS
  <2>1. k \in 0..m /\ k + 1 \in 1..m /\ k + 1 - 1 = k
    BY <1>3
  <2>2. r[k] \in Good /\ r[k + 1] = backspace(r[k], "NOAPPEND")
    BY <1>2, <1>4, <2>1 DEF Backspaces
  <2>3. Len(r[k].line) = m - k /\ r[k].pos = m - k /\ m - k # 0
    BY <1>6, <2>1, <1>3
  <2> DEFINE x == r[k]
             y == r[k + 1]
  <2> HIDE DEF x, y
  <2>4. x \in Good /\ x.pos # 0 /\ y = backspace(x, "NOAPPEND")
    BY <2>2, <2>3 DEF x, y
  <2>5. Len(y.line) = Len(x.line) - 1 /\ y.pos = x.pos - 1
    BY <2>4, BackspaceShortens
  <2> QED
    BY <1>3, <2>3, <2>5 DEF x, y
<1>7. m \in T
  <2> HIDE DEF T
  <2> QED
    BY <1>3, <1>5, <1>6, Induction
<1>8. Len(r[m].line) = 0
  BY <1>3, <1>7
<1>9. r[m] \in V
  BY <1>3, <1>4, LastOfLoop DEF Backspaces
<1>10. r[m].line = << >>
  <2>1. r[m].line \in Seq(Char)
    BY <1>2, <1>9, GoodFields
  <2> QED
    BY ONLY <1>8, <2>1
<1> QED
  BY <1>4, <1>9, <1>10 DEF V, m

-----------------------------------------------------------------------------
(* Inserting and yanking *)

(* new is line, of m characters, with ch put in at p. *)
Wider(new, line, m, p, ch) ==
    /\ Len(new) = m + 1
    /\ \A i \in 1..(m + 1) :
          new[i] = IF i <= p THEN line[i] ELSE IF i = p + 1 THEN ch ELSE line[i - 1]

(* That is what InsertAt makes. *)
LEMMA InsertWidens ==
    ASSUME NEW line \in Seq(Char), NEW p \in 0..Len(line), NEW ch \in Char
    PROVE  Wider(InsertAt(line, p + 1, ch), line, Len(line), p, ch)
BY InsertIs, ZenonT(30) DEF Wider

(* new is line with the first k characters of s put in at p. *)
Widened(new, line, m, p, s, k) ==
    /\ Len(new) = m + k
    /\ \A i \in 1..p : new[i] = line[i]
    /\ \A i \in 1..k : new[p + i] = s[i]
    /\ \A i \in (p + 1)..m : new[k + i] = line[i]

(* The next character comes behind those put in. *)
LEMMA WidenOne ==
    ASSUME NEW m \in Nat, NEW k \in Nat, NEW p \in 0..m, NEW s, NEW line, NEW old, NEW new,
           Widened(old, line, m, p, s, k), NEW q, q = p + k, NEW n, n = m + k,
           Wider(new, old, n, q, s[k + 1])
    PROVE  Widened(new, line, m, p, s, k + 1)
<1>1. Len(new) = m + (k + 1)
  BY DEF Wider
<1>2. /\ \A i \in 1..p : old[i] = line[i]
      /\ \A i \in 1..k : old[p + i] = s[i]
      /\ \A i \in (p + 1)..m : old[k + i] = line[i]
  BY DEF Widened
<1>3. \A i \in 1..(n + 1) :
          new[i] = IF i <= q THEN old[i] ELSE IF i = q + 1 THEN s[k + 1] ELSE old[i - 1]
  BY DEF Wider
<1>4. ASSUME NEW i \in 1..p
      PROVE  new[i] = line[i]
  <2>1. i \in 1..(n + 1) /\ i <= q
    OBVIOUS
  <2> QED
    BY <1>2, <1>3, <2>1
<1>5. ASSUME NEW i \in 1..(k + 1)
      PROVE  new[p + i] = s[i]
  <2>1. p + i \in 1..(n + 1)
    OBVIOUS
  <2>2. CASE i \in 1..k
    <3>1. p + i <= q
      BY <2>2
    <3> QED
      BY <1>2, <1>3, <2>1, <2>2, <3>1
  <2>3. CASE i = k + 1
    <3>1. p + i = q + 1 /\ ~(p + i <= q)
      BY <2>3
    <3> QED
      BY <1>3, <2>1, <2>3, <3>1
  <2> QED
    BY <2>2, <2>3
<1>6. ASSUME NEW i \in (p + 1)..m
      PROVE  new[k + 1 + i] = line[i]
  <2>1. /\ k + 1 + i \in 1..(n + 1) /\ ~(k + 1 + i <= q) /\ k + 1 + i # q + 1
        /\ k + 1 + i - 1 = k + i
    OBVIOUS
  <2> QED
    BY <1>2, <1>3, <2>1
<1> QED
  BY <1>1, <1>4, <1>5, <1>6 DEF Widened

(* insertstr leaves the rest of the struct alone, however much of s it takes. *)
LEMMA InsertstrGood ==
    ASSUME NEW c \in Good, NEW s \in Seq(Char)
    PROVE  insertstr(c, s) \in Moved(c)
<1> DEFINE V == Moved(c)
<1>1. c \in V
  BY NotEdited
<1>2. ASSUME NEW x \in V, NEW ch \in Char
      PROVE  insert(x, ch) \in V
  <2>1. x \in Good /\ SameHistory(c, x) /\ x.killbuf = c.killbuf
    BY DEF Moved
  <2> DEFINE y == insert(x, ch)
  <2>2. y \in Good /\ SameHistory(x, y) /\ y.killbuf = x.killbuf
    BY <2>1, InsertKeeps
  <2> HIDE DEF y
  <2>3. SameHistory(c, y)
    BY <2>1, <2>2, SameHistoryTransitive
  <2>4. y \in V
    BY <2>1, <2>2, <2>3 DEF Moved
  <2> QED
    BY <2>4 DEF y
<1> HIDE DEF V
<1>3. PICK r : Inserts(r, V, c, s) /\ insertstr(c, s) = r[Len(s)]
  BY <1>1, <1>2, InsertLoop
<1>4. r[Len(s)] \in V
  <2>1. Len(s) \in Nat
    OBVIOUS
  <2> QED
    BY <1>3, <2>1, LastOfLoop DEF Inserts
<1> QED
  BY <1>3, <1>4 DEF V

(* Where there is room it inserts the whole of it. *)
LEMMA InsertstrIs ==
    ASSUME NEW c \in Good, NEW s \in Seq(Char), Len(c.line) + Len(s) <= LINESIZE
    PROVE  Widened(insertstr(c, s).line, c.line, Len(c.line), c.pos, s, Len(s))
<1> DEFINE m == Len(c.line)
           n == Len(s)
           p == c.pos
<1>1. m \in Nat /\ p \in 0..m /\ n \in Nat /\ m + n <= LINESIZE /\ LINESIZE \in Nat
  BY GoodFields, FitsAssumption DEF Fits
<1>2. c \in Good /\ \A x \in Good, ch \in Char : insert(x, ch) \in Good
  BY InsertKeeps
<1>3. PICK r : Inserts(r, Good, c, s) /\ insertstr(c, s) = r[n]
  BY <1>2, InsertLoop
<1> HIDE DEF m, n, p
<1>4. r \in [0..n -> Good] /\ r[0] = c /\ \A k \in 1..n : r[k] = insert(r[k - 1], s[k])
  BY <1>3 DEF Inserts, n
<1> DEFINE Done(k) == Widened(r[k].line, c.line, m, p, s, k) /\ r[k].pos = p + k
           T == {k \in Nat : k <= n => Done(k)}
<1>5. 0 \in T
  <2>1. Widened(c.line, c.line, m, p, s, 0)
    BY <1>1 DEF m, Widened
  <2>2. c.pos = p + 0
    BY <1>1 DEF p
  <2> QED
    BY <1>4, <2>1, <2>2
<1>6. ASSUME NEW k \in Nat, k \in T
      PROVE  k + 1 \in T
  <2> SUFFICES ASSUME k + 1 <= n PROVE Done(k + 1)
    OBVIOUS
  <2> DEFINE x == r[k]
             y == r[k + 1]
             j == k + 1
  <2>1. x \in Good /\ y = insert(x, s[k + 1]) /\ s[k + 1] \in Char
    <3>1. k \in 0..n /\ k + 1 \in 1..n /\ k + 1 - 1 = k
      BY <1>1
    <3>2. s[k + 1] \in Char
      BY <3>1, ElementOfSeq DEF n
    <3> QED
      BY <1>4, <3>1, <3>2
  <2>2. Widened(x.line, c.line, m, p, s, k) /\ x.pos = p + k
    BY <1>1, <1>6
  <2> HIDE DEF x, y
  <2>3. Len(x.line) = m + k /\ Len(x.line) < LINESIZE
    BY <1>1, <2>2 DEF Widened
  <2>4. y.pos = x.pos + 1 /\ y.line = InsertAt(x.line, x.pos + 1, s[k + 1])
    BY <2>1, <2>3, InsertKeeps
  <2>5. x.line \in Seq(Char) /\ x.pos \in 0..Len(x.line)
    BY <2>1, GoodFields
  <2>6. Wider(y.line, x.line, m + k, p + k, s[k + 1])
    <3> DEFINE ch == s[k + 1]
               new == InsertAt(x.line, x.pos + 1, ch)
    <3>1. ch \in Char
      BY <2>1
    <3> HIDE DEF ch
    <3>2. Wider(new, x.line, Len(x.line), x.pos, ch)
      BY <2>5, <3>1, InsertWidens
    <3> HIDE DEF new
    <3>3. y.line = new
      BY <2>4 DEF new, ch
    <3> QED
      BY <2>2, <2>3, <3>2, <3>3 DEF ch
  <2>7. Widened(y.line, c.line, m, p, s, k + 1)
    BY <1>1, <2>2, <2>6, WidenOne
  <2> QED
    BY <1>1, <2>2, <2>4, <2>7 DEF x, y
<1>7. n \in T
  <2> HIDE DEF T
  <2> QED
    BY <1>1, <1>5, <1>6, Induction
<1>8. Widened(r[n].line, c.line, m, p, s, n)
  BY <1>1, <1>7
<1> QED
  BY <1>3, <1>8 DEF m, n, p

(* There is one line that a cut can come from. *)
LEMMA CutOnce ==
    ASSUME NEW line \in Seq(Char), NEW kill \in Seq(Char), NEW p \in 0..Len(line),
           NEW a \in Seq(Char), NEW b \in Seq(Char), CutOut(a, line, p, kill), CutOut(b, line, p, kill)
    PROVE  a = b
<1> DEFINE m == Len(line)
           n == Len(kill)
<1>1. m \in Nat /\ n \in Nat /\ p \in 0..m /\ Len(a) = m + n /\ Len(b) = m + n
  BY DEF CutOut
<1>2. ASSUME NEW i \in 1..(m + n)
      PROVE  a[i] = b[i]
  <2>1. CASE i <= p
    <3>1. i \in 1..p
      BY <1>1, <2>1
    <3> QED
      BY <3>1 DEF CutOut
  <2>2. CASE p < i /\ i <= p + n
    <3> DEFINE j == i - p
    <3>1. j \in 1..n /\ p + j = i
      BY <1>1, <2>2
    <3>2. a[p + j] = kill[j] /\ b[p + j] = kill[j]
      BY <3>1 DEF CutOut
    <3> QED
      BY <3>1, <3>2
  <2>3. CASE p + n < i
    <3> DEFINE j == i - n
    <3>1. j \in (p + 1)..m /\ n + j = i
      BY <1>1, <2>3
    <3>2. a[n + j] = line[j] /\ b[n + j] = line[j]
      BY <3>1 DEF CutOut
    <3> QED
      BY <3>1, <3>2
  <2> QED
    BY <1>1, <2>1, <2>2, <2>3
<1> QED
  BY <1>1, <1>2, SeqEqual

(* What was killed out of a line comes back. *)
LEMMA YankRestores ==
    ASSUME NEW c \in Good, NEW old \in Seq(Char), Len(old) <= LINESIZE, Kills(old, c)
    PROVE  yank(c).line = old
<1>1. /\ c.line \in Seq(Char) /\ c.killbuf \in Seq(Char) /\ c.pos \in 0..Len(c.line)
      /\ CutOut(old, c.line, c.pos, c.killbuf)
  BY GoodFields DEF Kills
<1>2. Len(c.line) + Len(c.killbuf) <= LINESIZE
  BY <1>1 DEF CutOut
<1> DEFINE d == yank(c)
           kill == c.killbuf
<1>3. d \in Good /\ d.line \in Seq(Char)
  <2>1. d \in Moved(c)
    BY <1>1, InsertstrGood DEF yank
  <2> HIDE DEF d
  <2>2. d \in Good
    BY <2>1 DEF Moved
  <2> QED
    BY <2>2, GoodFields
<1>4. Widened(d.line, c.line, Len(c.line), c.pos, kill, Len(kill))
  BY <1>1, <1>2, InsertstrIs DEF yank
<1> HIDE DEF d
<1>5. CutOut(d.line, c.line, c.pos, c.killbuf)
  BY <1>4 DEF Widened, CutOut
<1>6. d.line = old
  BY <1>1, <1>3, <1>5, CutOnce
<1> QED
  BY <1>6 DEF d

-----------------------------------------------------------------------------
(* Words, regions and the mark *)

(* The next position of a kind is not before the one it is looked for from. *)
LEMMA NextInIs ==
    ASSUME NEW c \in Good, NEW S \in SUBSET (0..Len(c.line)), NEW p \in 0..Len(c.line)
    PROVE  NextIn(c, S, p) \in p..Len(c.line)
<1> DEFINE n == Len(c.line)
           s == {q \in S : q >= p} \cup {n}
<1>1. n \in Nat
  BY GoodFields
<1>2. s \in SUBSET Nat /\ s # {} /\ s \in SUBSET (p..n)
  <2>1. n \in s
    OBVIOUS
  <2>2. \A q \in s : q \in Nat /\ q \in p..n
    <3> HIDE DEF n
    <3> QED
      BY <1>1 DEF n
  <2> HIDE DEF s
  <2> QED
    BY <2>1, <2>2
<1>3. NextIn(c, S, p) = Min(s)
  BY DEF NextIn, len
<1> HIDE DEF s
<1>4. \E x \in s : \A y \in s : x <= y
  BY <1>2, LeastNumber
<1>5. Min(s) \in s
  BY <1>4 DEF Min
<1> QED
  BY <1>2, <1>3, <1>5

(* The last position of a kind lies before the one it is looked for from. *)
LEMMA AfterLastInIs ==
    ASSUME NEW n \in Nat, NEW S \in SUBSET (0..n), NEW p \in 0..n
    PROVE  AfterLastIn(S, p) \in 0..p
<1> DEFINE s == {q + 1 : q \in {r \in S : r < p}} \cup {0}
<1>1. s \in SUBSET (0..p) /\ s # {}
  OBVIOUS
<1>2. AfterLastIn(S, p) = Max(s)
  BY DEF AfterLastIn
<1> HIDE DEF s
<1>3. Max(s) \in s
  BY <1>1, MaxUpto
<1> QED
  BY <1>1, <1>2, <1>3

(* Positions in words and between them. *)
LEMMA InAndOut ==
    ASSUME NEW c \in Good
    PROVE  In(c) \in SUBSET (0..Len(c.line)) /\ Out(c) \in SUBSET (0..Len(c.line))
BY DEF In, Out, len

(* Going to a position. *)
LEMMA MoveToIs ==
    ASSUME NEW c \in Good, NEW p \in Int
    PROVE  MoveTo(c, p) \in Moved(c) /\ MoveTo(c, p).line = c.line
<1>1. c.pos \in Int
  BY GoodFields
<1>2. CASE p < c.pos
  <2> DEFINE d == backward(c, c.pos - p)
  <2>1. MoveTo(c, p) = d /\ c.pos - p \in Nat
    BY <1>1, <1>2 DEF MoveTo
  <2>2. d \in Good /\ SameHistory(c, d) /\ d.line = c.line /\ d.killbuf = c.killbuf
    BY <2>1, BackwardGood
  <2> QED
    BY <2>1, <2>2 DEF Moved
<1>3. CASE ~(p < c.pos)
  <2> DEFINE d == forward(c, p - c.pos)
  <2>1. MoveTo(c, p) = d /\ p - c.pos \in Nat
    BY <1>1, <1>3 DEF MoveTo
  <2>2. d \in Good /\ SameHistory(c, d) /\ d.line = c.line /\ d.killbuf = c.killbuf
    BY <2>1, ForwardGood
  <2> QED
    BY <2>1, <2>2 DEF Moved
<1> QED
  BY <1>2, <1>3

(* Over words. *)
LEMMA ForwardWordIs ==
    ASSUME NEW c \in Good
    PROVE  forward_word(c) \in Moved(c)
<1> DEFINE p == NextIn(c, Out(c), c.pos)
           q == NextIn(c, In(c), p)
<1>1. c.pos \in 0..Len(c.line) /\ Len(c.line) \in Nat
  BY GoodFields
<1>2. p \in c.pos..Len(c.line)
  BY <1>1, InAndOut, NextInIs
<1>3. q \in p..Len(c.line)
  <2> HIDE DEF p
  <2>1. p \in 0..Len(c.line)
    BY <1>1, <1>2
  <2> QED
    BY <2>1, InAndOut, NextInIs
<1>4. forward_word(c) = MoveTo(c, q)
  BY DEF forward_word
<1> HIDE DEF p, q
<1> QED
  BY <1>1, <1>2, <1>3, <1>4, MoveToIs

(* Where a word deleted forward ends, and one deleted backward begins. *)
LEMMA WordEnd ==
    ASSUME NEW c \in Good
    PROVE  NextIn(c, Out(c), NextIn(c, In(c), c.pos)) \in c.pos..Len(c.line)
<1> DEFINE p == NextIn(c, In(c), c.pos)
<1>1. c.pos \in 0..Len(c.line) /\ Len(c.line) \in Nat
  BY GoodFields
<1>2. p \in c.pos..Len(c.line)
  BY <1>1, InAndOut, NextInIs
<1> HIDE DEF p
<1>3. p \in 0..Len(c.line)
  BY <1>1, <1>2
<1>4. NextIn(c, Out(c), p) \in p..Len(c.line)
  BY <1>3, InAndOut, NextInIs
<1>5. NextIn(c, Out(c), p) \in c.pos..Len(c.line)
  BY <1>1, <1>2, <1>4
<1> QED
  BY <1>5 DEF p

(* The same backward. *)
LEMMA WordStart ==
    ASSUME NEW c \in Good
    PROVE  AfterLastIn(Out(c), AfterLastIn(In(c), c.pos)) \in 0..c.pos
<1> DEFINE p == AfterLastIn(In(c), c.pos)
           n == Len(c.line)
<1>1. c.pos \in 0..n /\ n \in Nat
  BY GoodFields
<1>2. In(c) \in SUBSET (0..n) /\ Out(c) \in SUBSET (0..n)
  BY InAndOut
<1> HIDE DEF n
<1>3. p \in 0..c.pos
  BY <1>1, <1>2, AfterLastInIs
<1> HIDE DEF p
<1>4. p \in 0..n
  BY <1>1, <1>3
<1>5. AfterLastIn(Out(c), p) \in 0..p
  BY <1>1, <1>2, <1>4, AfterLastInIs
<1>6. AfterLastIn(Out(c), p) \in 0..c.pos
  BY <1>1, <1>3, <1>5
<1> QED
  BY <1>6 DEF p

(* Over words backward. *)
LEMMA BackwardWordIs ==
    ASSUME NEW c \in Good
    PROVE  backward_word(c) \in Moved(c)
<1> DEFINE q == AfterLastIn(Out(c), AfterLastIn(In(c), c.pos))
<1>1. q \in 0..c.pos
  BY WordStart
<1>2. q \in Int
  BY <1>1
<1>3. backward_word(c) = c \/ backward_word(c) = MoveTo(c, q)
  BY DEF backward_word
<1> HIDE DEF q
<1> QED
  BY <1>2, <1>3, MoveToIs, NotEdited

(* The mark is set where the cursor is. *)
LEMMA SetmarkIs ==
    ASSUME NEW c \in Good
    PROVE  setmark(c) \in Moved(c) /\ setmark(c).line = c.line
<1> DEFINE d == setmark(c)
<1>1. /\ c \in Editor /\ Len(c.line) <= LINESIZE /\ Len(c.killbuf) <= LINESIZE
      /\ c.pos \in 0..Len(c.line) /\ Shows(c.term, c.line, c.pos) /\ RingOK(c.histbuf, c.histptr)
  BY DEF Good
<1>2. d = [c EXCEPT !.validmark = TRUE, !.mark = c.pos]
  BY DEF setmark
<1>3. d \in Editor
  BY <1>1, <1>2 DEF Editor
<1>4. /\ d.line = c.line /\ d.killbuf = c.killbuf /\ d.pos = c.pos /\ d.mark = c.pos
      /\ d.term = c.term /\ SameHistory(c, d)
  BY <1>1, <1>2 DEF Editor, SameHistory
<1> HIDE DEF d
<1>5. d \in Good
  BY <1>1, <1>3, <1>4 DEF Good, SameHistory
<1>6. d \in Moved(c)
  BY <1>4, <1>5 DEF Moved
<1> QED
  BY <1>4, <1>6 DEF d

(* The cursor goes to the mark and the mark to the cursor. *)
LEMMA SwapmarkIs ==
    ASSUME NEW c \in Good
    PROVE  swapmark(c) \in Moved(c)
<1> DEFINE d == setmark(c)
           p == getmark(c)
<1>1. d \in Moved(c)
  BY SetmarkIs
<1>2. p \in Int
  BY GoodFields DEF getmark, len
<1>3. swapmark(c) = c \/ swapmark(c) = MoveTo(d, p)
  BY DEF swapmark
<1> HIDE DEF d, p
<1>4. d \in Good /\ Moved(d) \subseteq Moved(c)
  BY <1>1, MovedOn
<1>5. MoveTo(d, p) \in Moved(d)
  BY <1>2, <1>4, MoveToIs
<1> QED
  BY <1>3, <1>4, <1>5, NotEdited

-----------------------------------------------------------------------------
(* The keys that kill *)

(* What a key that kills leaves: the line without what is in the kill buffer. *)
Killed(c) == Killing(c, c.line)

(* They begin with an empty kill buffer. *)
LEMMA ClearIs ==
    ASSUME NEW c \in Good, NEW d, d = clearkillbuffer(c)
    PROVE  /\ d \in Killed(c) /\ d \in Good
           /\ d.line = c.line /\ d.killbuf = << >> /\ Kills(c.line, d)
<1>1. /\ c \in Editor /\ c.line \in Seq(Char) /\ Len(c.line) <= LINESIZE
      /\ c.pos \in 0..Len(c.line) /\ c.mark \in 0..Len(c.line)
      /\ Shows(c.term, c.line, c.pos)
  BY GoodFields
<1> DEFINE kill == << >>
<1>2. kill \in Seq(Char) /\ Len(kill) <= LINESIZE
  BY FitsAssumption DEF Fits
<1>3. d = [c EXCEPT !.killbuf = kill]
  BY DEF clearkillbuffer
<1> HIDE DEF kill
<1>4. d = With(c, c.line, c.pos, c.mark, kill, c.term)
  BY <1>1, <1>3 DEF Editor, With
<1>5. d.line = c.line /\ d.pos = c.pos /\ d.killbuf = kill /\ SameHistory(c, d)
  BY <1>4, WithFields
<1>6. d \in Good
  BY <1>1, <1>2, <1>4, WithGood
<1>7. Kills(c.line, d)
  BY <1>5, <1>6, KillsNothing DEF kill
<1> QED
  BY <1>5, <1>6, <1>7 DEF Killed, Killing, kill

(* Killing goes on from there. *)
LEMMA KilledOn ==
    ASSUME NEW c \in Good, NEW d \in Killed(c), NEW e \in Killing(d, c.line)
    PROVE  e \in Killed(c)
BY SameHistoryTransitive DEF Killed, Killing

(* A number of characters, forward or backward. *)
LEMMA KillForward ==
    ASSUME NEW c \in Good, NEW m \in Nat
    PROVE  DeleteTimes(clearkillbuffer(c), "APPENDTOKILL", m) \in Killed(c)
<1> DEFINE d == clearkillbuffer(c)
<1>1. c.line \in Seq(Char) /\ Len(c.line) <= LINESIZE
  BY GoodFields
<1>2. d \in Killed(c) /\ d \in Good /\ Kills(c.line, d)
  BY ClearIs
<1> HIDE DEF d
<1>3. DeleteTimes(d, "APPENDTOKILL", m) \in Killing(d, c.line)
  BY <1>1, <1>2, DeleteTimesKills
<1>4. DeleteTimes(d, "APPENDTOKILL", m) \in Killed(c)
  BY <1>2, <1>3, KilledOn
<1> QED
  BY <1>4 DEF d

(* The other way. *)
LEMMA KillBackward ==
    ASSUME NEW c \in Good, NEW m \in Nat
    PROVE  BackspaceTimes(clearkillbuffer(c), "APPENDTOKILLREV", m) \in Killed(c)
<1> DEFINE d == clearkillbuffer(c)
<1>1. c.line \in Seq(Char) /\ Len(c.line) <= LINESIZE
  BY GoodFields
<1>2. d \in Killed(c) /\ d \in Good /\ Kills(c.line, d)
  BY ClearIs
<1> HIDE DEF d
<1>3. BackspaceTimes(d, "APPENDTOKILLREV", m) \in Killing(d, c.line)
  BY <1>1, <1>2, BackspaceTimesKills
<1>4. BackspaceTimes(d, "APPENDTOKILLREV", m) \in Killed(c)
  BY <1>2, <1>3, KilledOn
<1> QED
  BY <1>4 DEF d

(* ESC d, ESC ^H, ^K and ^W kill, or find nothing to kill. *)
LEMMA DeleteWordIs ==
    ASSUME NEW c \in Good
    PROVE  delete_word(c) \in Moved(c) \cup Killed(c)
<1> DEFINE end == NextIn(c, Out(c), NextIn(c, In(c), c.pos))
<1>1. c.pos \in Nat /\ end \in c.pos..Len(c.line)
  BY GoodFields, WordEnd
<1>2. \/ delete_word(c) = c
      \/ delete_word(c) = DeleteTimes(clearkillbuffer(c), "APPENDTOKILL", end - c.pos)
  BY Zenon DEF delete_word, DeleteTimes
<1> HIDE DEF end
<1>3. end - c.pos \in Nat
  BY <1>1
<1> QED
  BY <1>2, <1>3, KillForward, NotEdited

(* The word before the cursor. *)
LEMMA BackwardDeleteWordIs ==
    ASSUME NEW c \in Good
    PROVE  backward_delete_word(c) \in Moved(c) \cup Killed(c)
<1> DEFINE start == AfterLastIn(Out(c), AfterLastIn(In(c), c.pos))
<1>1. c.pos \in Nat /\ start \in 0..c.pos
  BY GoodFields, WordStart
<1>2. \/ backward_delete_word(c) = c
      \/ backward_delete_word(c)
            = BackspaceTimes(clearkillbuffer(c), "APPENDTOKILLREV", c.pos - start)
  BY Zenon DEF backward_delete_word, BackspaceTimes
<1> HIDE DEF start
<1>3. c.pos - start \in Nat
  BY <1>1
<1> QED
  BY <1>2, <1>3, KillBackward, NotEdited

(* What is between mark and cursor. *)
LEMMA KillregionIs ==
    ASSUME NEW c \in Good
    PROVE  killregion(c) \in Moved(c) \cup Killed(c)
<1> DEFINE r == getmark(c) - c.pos
<1>1. r \in Int
  BY GoodFields DEF getmark, len
<1>2. \/ killregion(c) = c
      \/ /\ r < 0
         /\ killregion(c) = BackspaceTimes(clearkillbuffer(c), "APPENDTOKILLREV", -r)
      \/ /\ ~(r < 0)
         /\ killregion(c) = DeleteTimes(clearkillbuffer(c), "APPENDTOKILL", r)
  BY Zenon DEF killregion, BackspaceTimes, DeleteTimes
<1> HIDE DEF r
<1>3. CASE r < 0
  <2>1. -r \in Nat /\ ~ ~(r < 0)
    BY <1>1, <1>3
  <2> QED
    BY <1>2, <2>1, KillBackward, NotEdited
<1>4. CASE ~(r < 0)
  <2>1. r \in Nat
    BY <1>1, <1>4
  <2> QED
    BY <1>2, <1>4, <2>1, KillForward, NotEdited
<1> QED
  BY <1>3, <1>4

(* What is behind the cursor. *)
LEMMA KilltoendIs ==
    ASSUME NEW c \in Good
    PROVE  killtoend(c) \in Moved(c) \cup Killed(c)
<1> DEFINE m == len(c) - c.pos
<1>1. m \in Nat
  BY GoodFields DEF len
<1>2. killtoend(c) = c \/ killtoend(c) = DeleteTimes(clearkillbuffer(c), "APPENDTOKILL", m)
  BY Zenon DEF killtoend, DeleteTimes
<1> HIDE DEF m
<1> QED
  BY <1>1, <1>2, KillForward, NotEdited

(* The end of the line. *)
LEMMA EndOfLineIs ==
    ASSUME NEW c \in Good, NEW d, d = end_of_line(c)
    PROVE  d \in Moved(c) /\ d.line = c.line /\ d.pos = Len(c.line)
<1> DEFINE n == len(c) - c.pos
<1>1. n \in Nat /\ n = Len(c.line) - c.pos /\ c.pos \in Int
  BY GoodFields DEF len
<1>2. d = forward(c, n)
  BY DEF end_of_line
<1> HIDE DEF n
<1>3. /\ d \in Good /\ SameHistory(c, d) /\ d.line = c.line /\ d.killbuf = c.killbuf
      /\ d.pos = IF n <= Len(c.line) - c.pos THEN c.pos + n ELSE Len(c.line)
  BY <1>1, <1>2, ForwardGood
<1>4. d.pos = Len(c.line)
  <2>1. n <= Len(c.line) - c.pos
    BY <1>1
  <2> QED
    BY <1>1, <1>3, <2>1
<1> QED
  BY <1>3, <1>4 DEF Moved

(* killline takes the line from its end. *)
LEMMA KilllineIs ==
    ASSUME NEW c \in Good, NEW cut \in BOOLEAN, len(c) # 0,
           NEW append, append = IF cut THEN "APPENDTOKILLREV" ELSE "NOAPPEND",
           NEW d, d = IF cut THEN clearkillbuffer(c) ELSE c
    PROVE  killline(c, cut) = BackspaceTimes(end_of_line(d), append, len(c))
<1>1. killline(c, cut) = BackspaceTimes(end_of_line(IF cut THEN clearkillbuffer(c) ELSE c),
                             IF cut THEN "APPENDTOKILLREV" ELSE "NOAPPEND", len(c))
  BY Zenon DEF killline, BackspaceTimes
<1> QED
  BY <1>1

(* ^U kills the whole line. *)
LEMMA KilllineCuts ==
    ASSUME NEW c \in Good
    PROVE  killline(c, TRUE) \in Moved(c) \cup Killed(c)
<1> DEFINE d == clearkillbuffer(c)
           e == end_of_line(d)
<1>1. CASE len(c) = 0
  BY <1>1, NotEdited DEF killline
<1>2. CASE len(c) # 0
  <2>1. d \in Killed(c) /\ d \in Good /\ d.line = c.line /\ d.killbuf = << >>
    BY ClearIs
  <2>2. c.line \in Seq(Char) /\ Len(c.line) <= LINESIZE /\ len(c) \in Nat
    BY GoodFields DEF len
  <2>3. killline(c, TRUE) = BackspaceTimes(e, "APPENDTOKILLREV", len(c))
    BY <1>2, KilllineIs
  <2> HIDE DEF d
  <2>4. e \in Moved(d) /\ e.line = d.line
    BY <2>1, EndOfLineIs
  <2> HIDE DEF e
  <2>5. e \in Good /\ e.killbuf = << >> /\ SameHistory(d, e)
    BY <2>1, <2>4 DEF Moved
  <2>6. Kills(c.line, e)
    BY <2>1, <2>4, <2>5, KillsNothing
  <2> DEFINE m == len(c)
             f == BackspaceTimes(e, "APPENDTOKILLREV", m)
  <2>7. m \in Nat
    BY <2>2
  <2> HIDE DEF m
  <2>8. f \in Killing(e, c.line)
    BY <2>2, <2>5, <2>6, <2>7, BackspaceTimesKills
  <2> HIDE DEF f
  <2>9. f \in Good /\ SameHistory(e, f) /\ Kills(c.line, f)
    BY <2>8 DEF Killing
  <2>10. SameHistory(c, d)
    BY <2>1 DEF Killed, Killing
  <2>11. SameHistory(c, e)
    BY <2>5, <2>10, SameHistoryTransitive
  <2>12. SameHistory(c, f)
    BY <2>9, <2>11, SameHistoryTransitive
  <2>13. f \in Killed(c)
    BY <2>9, <2>12 DEF Killed, Killing
  <2> QED
    BY <2>3, <2>13 DEF f, m
<1> QED
  BY <1>1, <1>2

(* A recalled line finds nothing on the line. *)
LEMMA KilllineEmpties ==
    ASSUME NEW c \in Good
    PROVE  killline(c, FALSE) \in Moved(c) /\ killline(c, FALSE).line = << >>
<1> DEFINE e == end_of_line(c)
<1>1. CASE len(c) = 0
  <2>1. c.line \in Seq(Char) /\ Len(c.line) = 0
    BY <1>1, GoodFields DEF len
  <2>2. c.line = << >>
    BY ONLY <2>1
  <2> QED
    BY <1>1, <2>2, NotEdited DEF killline
<1>2. CASE len(c) # 0
  <2>1. killline(c, FALSE) = BackspaceTimes(e, "NOAPPEND", len(c))
    BY <1>2, KilllineIs
  <2>2. e \in Moved(c) /\ e.line = c.line /\ e.pos = Len(c.line)
    BY EndOfLineIs
  <2> HIDE DEF e
  <2>3. e \in Good /\ e.pos = Len(e.line) /\ len(c) = Len(e.line)
    BY <2>2 DEF Moved, len
  <2> DEFINE f == BackspaceTimes(e, "NOAPPEND", Len(e.line))
  <2>4. f \in Moved(e) /\ f.line = << >>
    BY <2>3, BackspaceAll
  <2>5. killline(c, FALSE) = f
    BY <2>1, <2>3
  <2> HIDE DEF f
  <2>6. f \in Moved(c)
    BY <2>2, <2>4, MovedOn
  <2> QED
    BY <2>4, <2>5, <2>6
<1> QED
  BY <1>1, <1>2

-----------------------------------------------------------------------------
(* The ring *)

(* What the constants are like. *)
LEMMA Sizes ==
    /\ LINESIZE \in Nat /\ LINESIZE > 0
    /\ HISTSIZE \in Nat /\ HISTSIZE >= LINESIZE + LINESIZE + 2
    /\ HistIndex \subseteq Nat /\ 0 \in HistIndex
BY FitsAssumption DEF Fits, HistIndex

(* Going round once. *)
LEMMA ModOnce ==
    ASSUME NEW d \in Nat, d > 0, NEW x \in 0..(d + d - 1)
    PROVE  x % d = IF x < d THEN x ELSE x - d
<1> DEFINE q == x \div d
           r == x % d
<1>1. q \in Int /\ r \in Int /\ x = d * q + r /\ 0 <= r /\ r < d
  OBVIOUS
<1> HIDE DEF q, r
<1>2. CASE q < 0
  <2>1. d * q <= d * (-1)
    BY <1>1, <1>2
  <2> QED
    BY <1>1, <2>1
<1>3. CASE q = 0
  BY <1>1, <1>3 DEF r
<1>4. CASE q = 1
  BY <1>1, <1>4 DEF r
<1>5. CASE q > 1
  <2>1. d * q >= d * 2
    BY <1>1, <1>5
  <2> QED
    BY <1>1, <2>1
<1> QED
  BY <1>1, <1>2, <1>3, <1>4, <1>5

(* n steps round the ring. *)
LEMMA AroundIs ==
    ASSUME NEW i \in HistIndex, NEW n \in 0..HISTSIZE
    PROVE  /\ Around(i, n) = IF i + n < HISTSIZE THEN i + n ELSE i + n - HISTSIZE
           /\ Around(i, n) \in HistIndex
<1> DEFINE x == i + n
<1>1. HISTSIZE \in Nat /\ HISTSIZE > 0 /\ i \in 0..(HISTSIZE - 1)
  BY Sizes DEF HistIndex
<1>2. x \in 0..(HISTSIZE + HISTSIZE - 1)
  BY <1>1
<1> HIDE DEF x
<1>3. x % HISTSIZE = IF x < HISTSIZE THEN x ELSE x - HISTSIZE
  BY <1>1, <1>2, ModOnce
<1>4. Around(i, n) = IF x < HISTSIZE THEN x ELSE x - HISTSIZE
  BY <1>3 DEF Around, x
<1> QED
  BY <1>1, <1>2, <1>4 DEF x, HistIndex

(* One step round it. *)
LEMMA StepIs ==
    ASSUME NEW i \in HistIndex
    PROVE  /\ HISTPTR_FORWARD(i) \in HistIndex /\ HISTPTR_BACKWARD(i) \in HistIndex
           /\ HISTPTR_BACKWARD(HISTPTR_FORWARD(i)) = i
BY Sizes DEF HISTPTR_FORWARD, HISTPTR_BACKWARD, HistIndex

(* The least of a set of numbers. *)
LEMMA LeastIs ==
    ASSUME NEW S \in SUBSET Nat, S # {}
    PROVE  Min(S) \in S /\ \A y \in S : Min(S) <= y
<1>1. \E x \in S : \A y \in S : x <= y
  BY LeastNumber
<1> QED
  BY <1>1 DEF Min

(* From one place in the ring every other is ahead, and behind. *)
LEMMA ReachesAll ==
    ASSUME NEW i \in HistIndex, NEW j \in HistIndex
    PROVE  /\ \E n \in HistIndex : Around(i, n) = j
           /\ \E n \in HistIndex : Around(i, HISTSIZE - n) = j
<1>1. HISTSIZE \in Nat /\ HISTSIZE > 0 /\ i \in 0..(HISTSIZE - 1) /\ j \in 0..(HISTSIZE - 1)
  BY Sizes DEF HistIndex
<1> DEFINE n == IF i <= j THEN j - i ELSE j - i + HISTSIZE
           m == IF j <= i THEN i - j ELSE i - j + HISTSIZE
           k == HISTSIZE - m
<1>2. n \in HistIndex /\ m \in HistIndex /\ n \in 0..HISTSIZE /\ k \in 0..HISTSIZE
  BY <1>1 DEF HistIndex
<1>3. j = IF i + n < HISTSIZE THEN i + n ELSE i + n - HISTSIZE
  BY <1>1
<1>4. j = IF i + k < HISTSIZE THEN i + k ELSE i + k - HISTSIZE
  BY <1>1
<1> HIDE DEF n, k
<1>5. Around(i, n) = j
  BY <1>2, <1>3, AroundIs
<1>6. Around(i, k) = j
  BY <1>2, <1>4, AroundIs
<1> QED
  BY <1>2, <1>5, <1>6 DEF k

(* The nearest NUL ahead. *)
LEMMA ToNulIs ==
    ASSUME NEW buf, NEW i \in HistIndex, NEW j \in HistIndex, buf[j] = NUL
    PROVE  /\ ToNul(buf, i) \in HistIndex /\ buf[Around(i, ToNul(buf, i))] = NUL
           /\ \A n \in HistIndex : buf[Around(i, n)] = NUL => ToNul(buf, i) <= n
<1> DEFINE S == {n \in HistIndex : buf[Around(i, n)] = NUL}
<1>1. S # {}
  BY ReachesAll
<1>2. S \in SUBSET Nat
  BY Sizes
<1>3. ToNul(buf, i) = Min(S)
  BY DEF ToNul
<1>4. \A n : n \in S <=> n \in HistIndex /\ buf[Around(i, n)] = NUL
  OBVIOUS
<1> HIDE DEF S
<1>5. Min(S) \in S /\ \A y \in S : Min(S) <= y
  BY <1>1, <1>2, LeastIs
<1> QED
  BY <1>3, <1>4, <1>5

(* The nearest one behind. *)
LEMMA BackToNulIs ==
    ASSUME NEW buf, NEW i \in HistIndex, NEW j \in HistIndex, buf[j] = NUL
    PROVE  /\ BackToNul(buf, i) \in HistIndex
           /\ buf[Around(i, HISTSIZE - BackToNul(buf, i))] = NUL
<1> DEFINE S == {n \in HistIndex : buf[Around(i, HISTSIZE - n)] = NUL}
<1>1. S # {}
  BY ReachesAll
<1>2. S \in SUBSET Nat
  BY Sizes
<1>3. BackToNul(buf, i) = Min(S)
  BY DEF BackToNul
<1>4. \A n : n \in S <=> n \in HistIndex /\ buf[Around(i, HISTSIZE - n)] = NUL
  OBVIOUS
<1> HIDE DEF S
<1>5. Min(S) \in S
  BY <1>1, <1>2, LeastIs
<1> QED
  BY <1>3, <1>4, <1>5

(* A line begins behind a NUL. *)
LEMMA LineBeforeIs ==
    ASSUME NEW buf, NEW i \in HistIndex, NEW j \in HistIndex, buf[j] = NUL
    PROVE  LineBefore(buf, i) \in HistIndex /\ buf[HISTPTR_BACKWARD(LineBefore(buf, i))] = NUL
<1> DEFINE last == HISTPTR_BACKWARD(HISTPTR_BACKWARD(i))
           n == BackToNul(buf, last)
           k == HISTSIZE - n
           nul == Around(last, k)
<1>1. last \in HistIndex
  BY StepIs
<1> HIDE DEF last
<1>2. n \in HistIndex /\ buf[nul] = NUL
  BY <1>1, BackToNulIs
<1> HIDE DEF n
<1>3. k \in 0..HISTSIZE
  BY <1>2, Sizes DEF HistIndex
<1> HIDE DEF k
<1>4. nul \in HistIndex
  BY <1>1, <1>3, AroundIs
<1> HIDE DEF nul
<1>5. LineBefore(buf, i) = HISTPTR_FORWARD(nul)
  BY DEF LineBefore, last, n, k, nul
<1> QED
  BY <1>2, <1>4, <1>5, StepIs

(* A line of n characters written at start, with a NUL behind it, leaves the ring
   in order: what it overwrites lies between two NULs. *)
LEMMA WriteKeepsRing ==
    ASSUME NEW buf, NEW start \in HistIndex, RingOK(buf, start), NEW n \in 1..LINESIZE,
           NEW end, end = Around(start, n), NEW new, new[end] = NUL,
           \A i \in HistIndex :
                Around(i, HISTSIZE - start) >= n /\ buf[i] = NUL => new[i] = NUL
    PROVE  RingOK(new, HISTPTR_FORWARD(end)) /\ end \in HistIndex
<1> DEFINE O(i) == IF i >= start THEN i - start ELSE i - start + HISTSIZE
           back == HISTPTR_BACKWARD(start)
<1>1. /\ LINESIZE \in Nat /\ HISTSIZE \in Nat /\ HISTSIZE >= LINESIZE + LINESIZE + 2
      /\ start \in 0..(HISTSIZE - 1) /\ n \in 0..HISTSIZE
  BY Sizes DEF HistIndex
<1>2. /\ end \in HistIndex
      /\ end = IF start + n < HISTSIZE THEN start + n ELSE start + n - HISTSIZE
  BY <1>1, AroundIs
<1>3. ASSUME NEW i \in HistIndex
      PROVE  Around(i, HISTSIZE - start) = O(i) /\ O(i) \in 0..(HISTSIZE - 1) /\ i \in 0..(HISTSIZE - 1)
  <2> DEFINE k == HISTSIZE - start
  <2>1. k \in 0..HISTSIZE /\ i \in 0..(HISTSIZE - 1)
    BY <1>1 DEF HistIndex
  <2>2. O(i) = IF i + k < HISTSIZE THEN i + k ELSE i + k - HISTSIZE
    BY <1>1, <2>1
  <2> HIDE DEF k
  <2>3. Around(i, k) = O(i)
    BY <2>1, <2>2, AroundIs
  <2> QED
    BY <1>1, <2>1, <2>3 DEF k
<1>4. \A i \in HistIndex : O(i) >= n /\ buf[i] = NUL => new[i] = NUL
  BY <1>3
<1>5. back \in HistIndex /\ O(back) = HISTSIZE - 1 /\ buf[back] = NUL
  BY <1>1, StepIs DEF RingOK, HISTPTR_BACKWARD
<1>6. new[back] = NUL
  BY <1>1, <1>4, <1>5
<1>7. ASSUME NEW i \in HistIndex
      PROVE  \E m \in 0..LINESIZE : new[Around(i, m)] = NUL
  <2>1. PICK m \in 0..LINESIZE : buf[Around(i, m)] = NUL
    BY DEF RingOK
  <2> DEFINE j == Around(i, m)
  <2>2. m \in 0..HISTSIZE
    BY <1>1
  <2>3. j \in HistIndex /\ j = IF i + m < HISTSIZE THEN i + m ELSE i + m - HISTSIZE
    BY <2>2, AroundIs
  <2>4. i \in 0..(HISTSIZE - 1) /\ O(i) \in 0..(HISTSIZE - 1)
    BY <1>3
  <2> HIDE DEF j
  <2>5. CASE O(i) < n
    <3> DEFINE k == n - O(i)
    <3>1. k \in 0..LINESIZE /\ k \in 0..HISTSIZE
      BY <1>1, <2>4, <2>5
    <3>2. end = IF i + k < HISTSIZE THEN i + k ELSE i + k - HISTSIZE
      BY <1>1, <1>2, <2>4, <2>5
    <3> HIDE DEF k
    <3>3. Around(i, k) = end
      BY <3>1, <3>2, AroundIs
    <3> QED
      BY <3>1, <3>3
  <2>6. CASE O(i) >= n /\ O(j) >= n
    BY <1>4, <2>1, <2>3, <2>6 DEF j
  <2>7. CASE O(i) >= n /\ O(j) < n
    <3> DEFINE k == HISTSIZE - 1 - O(i)
    <3>1. k \in 0..HISTSIZE /\ k <= m
      BY <1>1, <2>3, <2>4, <2>7
    <3>2. back = IF i + k < HISTSIZE THEN i + k ELSE i + k - HISTSIZE
      BY <1>1, <2>4 DEF HISTPTR_BACKWARD
    <3>3. k \in 0..LINESIZE
      BY <1>1, <3>1
    <3> HIDE DEF k
    <3>4. Around(i, k) = back
      BY <3>1, <3>2, AroundIs
    <3> QED
      BY <1>6, <3>3, <3>4
  <2>8. n \in Int /\ O(i) \in Int /\ O(j) \in Int
    BY <1>1, <1>3, <2>3
  <2> QED
    BY <2>5, <2>6, <2>7, <2>8
<1>8. new[HISTPTR_BACKWARD(HISTPTR_FORWARD(end))] = NUL
  BY <1>2, StepIs
<1> QED
  BY <1>2, <1>7, <1>8 DEF RingOK

-----------------------------------------------------------------------------
(* The history *)

(* c with another ring. *)
WithRing(c, buf, ptr, cur, pending) ==
    [line |-> c.line, pos |-> c.pos, mark |-> c.mark, validmark |-> c.validmark,
     prefix |-> c.prefix, killbuf |-> c.killbuf, histbuf |-> buf, histptr |-> ptr,
     histcur |-> cur, hist_pending |-> pending, term |-> c.term]

(* The fields that the history leaves alone. *)
SameLine(c, d) ==
    /\ d.line = c.line /\ d.pos = c.pos /\ d.mark = c.mark /\ d.killbuf = c.killbuf
    /\ d.term = c.term /\ d.prefix = c.prefix

(* A struct with another ring is one. *)
LEMMA RingGood ==
    ASSUME NEW c \in Good, NEW buf \in History, NEW ptr \in HistIndex, RingOK(buf, ptr),
           NEW cur \in HistIndex \cup {-1}, NEW pending \in BOOLEAN,
           NEW d, d = WithRing(c, buf, ptr, cur, pending)
    PROVE  /\ d \in Good /\ SameLine(c, d)
           /\ d.histbuf = buf /\ d.histptr = ptr /\ d.histcur = cur /\ d.hist_pending = pending
<1>1. /\ c \in Editor /\ Len(c.line) <= LINESIZE /\ Len(c.killbuf) <= LINESIZE
      /\ c.pos \in 0..Len(c.line) /\ c.mark \in 0..Len(c.line)
      /\ Shows(c.term, c.line, c.pos)
  BY DEF Good
<1>2. SameLine(c, d) /\ d.histbuf = buf /\ d.histptr = ptr /\ d.histcur = cur
      /\ d.hist_pending = pending
  BY DEF WithRing, SameLine
<1>3. d \in Editor
  <2> HIDE DEF PrefixStates, History, Terminal, HistIndex
  <2> QED
    BY <1>1 DEF Editor, WithRing
<1> HIDE DEF Shows, RingOK
<1>4. d \in Good
  BY <1>1, <1>2, <1>3 DEF Good, SameLine
<1> QED
  BY <1>2, <1>4

(* The ring of a struct. *)
LEMMA RingFields ==
    ASSUME NEW c \in Good
    PROVE  /\ c.histbuf \in History /\ c.histptr \in HistIndex
           /\ c.histcur \in HistIndex \cup {-1} /\ c.hist_pending \in BOOLEAN
           /\ RingOK(c.histbuf, c.histptr)
           /\ c.histbuf[HISTPTR_BACKWARD(c.histptr)] = NUL
           /\ HISTPTR_BACKWARD(c.histptr) \in HistIndex
<1>1. c \in Editor /\ RingOK(c.histbuf, c.histptr)
  BY DEF Good
<1>2. c.histptr \in HistIndex
  BY <1>1 DEF Editor
<1> QED
  BY <1>1, <1>2, StepIs DEF Editor, RingOK

(* addhist writes a line into the ring and leaves the line that is edited alone. *)
LEMMA AddhistIs ==
    ASSUME NEW c \in Good, NEW s \in Seq(Char), Len(s) <= LINESIZE
    PROVE  \E buf \in History, ptr \in HistIndex, cur \in HistIndex \cup {-1} :
                RingOK(buf, ptr) /\ addhist(c, s) = WithRing(c, buf, ptr, cur, FALSE)
<1> DEFINE start == IF c.hist_pending THEN LineBefore(c.histbuf, c.histptr) ELSE c.histptr
           n == Len(s)
           end == Around(start, n)
           written == [i \in HistIndex |-> IF Around(i, HISTSIZE - start) < n
                                           THEN s[Around(i, HISTSIZE - start) + 1]
                                           ELSE c.histbuf[i]]
           oldest == {Around(end, k) : k \in 0..ToNul(written, end)}
           new == [i \in HistIndex |-> IF i \in oldest THEN NUL ELSE written[i]]
           d == [c EXCEPT !.histptr = start, !.hist_pending = FALSE]
<1>1. /\ c \in Editor /\ c.histbuf \in History /\ c.histptr \in HistIndex
      /\ c.histcur \in HistIndex \cup {-1}
      /\ RingOK(c.histbuf, c.histptr) /\ c.histbuf[HISTPTR_BACKWARD(c.histptr)] = NUL
      /\ HISTPTR_BACKWARD(c.histptr) \in HistIndex
  BY RingFields DEF Good
<1>2. start \in HistIndex /\ c.histbuf[HISTPTR_BACKWARD(start)] = NUL
  BY <1>1, LineBeforeIs
<1>3. RingOK(c.histbuf, start)
  BY <1>1, <1>2 DEF RingOK
<1>4. addhist(c, s) = IF allspace(s) THEN d
                      ELSE [d EXCEPT !.histbuf = new, !.histptr = HISTPTR_FORWARD(end), !.histcur = -1]
  BY Zenon DEF addhist
<1> HIDE DEF start
<1>5. CASE allspace(s)
  <2>1. addhist(c, s) = [c EXCEPT !.histptr = start, !.hist_pending = FALSE]
    BY <1>4, <1>5
  <2> HIDE DEF d, end, written, oldest, new, n
  <2>2. addhist(c, s) = WithRing(c, c.histbuf, start, c.histcur, FALSE)
    BY <1>1, <2>1 DEF Editor, WithRing
  <2> QED
    BY <1>1, <1>2, <1>3, <2>2
<1>6. CASE ~allspace(s)
  <2>1. n \in 1..LINESIZE
    BY <1>6, Sizes DEF allspace
  <2> HIDE DEF n
  <2>2. \A i \in HistIndex :
            written[i] = IF Around(i, HISTSIZE - start) < n
                         THEN s[Around(i, HISTSIZE - start) + 1] ELSE c.histbuf[i]
    BY Zenon
  <2>3. \A i \in HistIndex : Around(i, HISTSIZE - start) \in Nat
    <3> SUFFICES ASSUME NEW i \in HistIndex PROVE Around(i, HISTSIZE - start) \in Nat
      OBVIOUS
    <3> DEFINE k == HISTSIZE - start
    <3>1. k \in 0..HISTSIZE
      BY <1>2, Sizes DEF HistIndex
    <3> HIDE DEF k
    <3>2. Around(i, k) \in Nat
      BY <3>1, AroundIs, Sizes
    <3> QED
      BY <3>2 DEF k
  <2>4. written \in History
    <3> SUFFICES ASSUME NEW i \in HistIndex PROVE written[i] \in Char \cup {NUL}
      BY DEF History
    <3> DEFINE k == Around(i, HISTSIZE - start)
    <3>1. k \in Nat /\ written[i] = IF k < n THEN s[k + 1] ELSE c.histbuf[i]
      BY <2>2, <2>3
    <3> HIDE DEF k, written
    <3>2. CASE k < n
      <4>1. k + 1 \in 1..Len(s)
        BY <2>1, <3>1, <3>2 DEF n
      <4>2. s[k + 1] \in Char
        BY <4>1, ElementOfSeq
      <4> QED
        BY <3>1, <3>2, <4>2
    <3>3. CASE ~(k < n)
      BY <1>1, <3>1, <3>3 DEF History
    <3> QED
      BY <3>2, <3>3
  <2>5. \A i \in HistIndex :
            Around(i, HISTSIZE - start) >= n /\ c.histbuf[i] = NUL => written[i] = NUL
    <3>1. n \in Nat
      BY <2>1
    <3> QED
      BY <2>2, <2>3, <3>1
  <2> HIDE DEF written
  <2>6. end \in HistIndex
    BY <1>2, <2>1, AroundIs, Sizes
  <2> HIDE DEF end
  <2>7. end \in oldest
    <3> DEFINE j == HISTPTR_BACKWARD(start)
               k == HISTSIZE - start
    <3>1. j \in HistIndex /\ c.histbuf[j] = NUL /\ k \in 0..HISTSIZE
      <4>1. j \in HistIndex
        BY <1>2, StepIs
      <4>2. k \in 0..HISTSIZE
        BY <1>2, Sizes DEF HistIndex
      <4> QED
        BY <1>2, <4>1, <4>2
    <3>2. Around(j, k) = HISTSIZE - 1
      <4>1. (IF j + k < HISTSIZE THEN j + k ELSE j + k - HISTSIZE) = HISTSIZE - 1
        BY <1>2, <3>1, Sizes DEF HISTPTR_BACKWARD, HistIndex
      <4> HIDE DEF j, k
      <4> QED
        BY <3>1, <4>1, AroundIs
    <3>3. written[j] = NUL
      <4>1. HISTSIZE - 1 >= n
        BY <2>1, Sizes
      <4> HIDE DEF j
      <4> QED
        BY <2>5, <3>1, <3>2, <4>1 DEF k
    <3> HIDE DEF j
    <3>4. ToNul(written, end) \in Nat
      BY <2>6, <3>1, <3>3, ToNulIs, Sizes
    <3>5. Around(end, 0) = end
      BY <2>6, AroundIs, Sizes DEF HistIndex
    <3>6. 0 \in 0..ToNul(written, end)
      BY <3>4
    <3> QED
      BY <3>5, <3>6
  <2> HIDE DEF oldest
  <2>8. new \in History /\ \A i \in HistIndex : new[i] = IF i \in oldest THEN NUL ELSE written[i]
    BY <2>4 DEF History
  <2> HIDE DEF new
  <2>9. new[end] = NUL /\ \A i \in HistIndex :
            Around(i, HISTSIZE - start) >= n /\ c.histbuf[i] = NUL => new[i] = NUL
    BY <2>5, <2>6, <2>7, <2>8
  <2>10. RingOK(new, HISTPTR_FORWARD(end)) /\ HISTPTR_FORWARD(end) \in HistIndex
    BY <1>2, <1>3, <2>1, <2>6, <2>9, WriteKeepsRing, StepIs DEF end
  <2> DEFINE ptr == HISTPTR_FORWARD(end)
  <2>11. addhist(c, s) = [d EXCEPT !.histbuf = new, !.histptr = ptr, !.histcur = -1]
    BY <1>4, <1>6
  <2>12. ptr \in HistIndex /\ RingOK(new, ptr)
    BY <2>10
  <2> HIDE DEF ptr
  <2>13. addhist(c, s) = WithRing(c, new, ptr, -1, FALSE)
    BY <1>1, <2>11 DEF Editor, WithRing
  <2> QED
    BY <2>8, <2>12, <2>13
<1> QED
  BY <1>5, <1>6

(* The line being edited is left; what is on it stays there. *)
LEMMA LeaveIs ==
    ASSUME NEW c \in Good, NEW d, d = Leave(c)
    PROVE  d \in Good /\ SameLine(c, d) /\ d.histcur \in HistIndex
<1>1. /\ c \in Editor /\ c.line \in Seq(Char) /\ Len(c.line) <= LINESIZE
      /\ c.histbuf \in History /\ c.histptr \in HistIndex /\ RingOK(c.histbuf, c.histptr)
      /\ c.histcur \in HistIndex \cup {-1} /\ c.hist_pending \in BOOLEAN
  BY GoodFields, RingFields
<1>2. CASE c.histcur >= 0
  <2>1. d = c /\ c.histcur # -1
    BY <1>2 DEF Leave
  <2> QED
    BY <1>1, <2>1 DEF SameLine
<1>3. CASE ~(c.histcur >= 0) /\ allspace(c.line)
  <2>1. d = [c EXCEPT !.histcur = c.histptr]
    BY <1>3 DEF Leave
  <2>2. d = WithRing(c, c.histbuf, c.histptr, c.histptr, c.hist_pending)
    BY <1>1, <2>1 DEF Editor, WithRing
  <2> QED
    BY <1>1, <2>2, RingGood
<1>4. CASE ~(c.histcur >= 0) /\ ~allspace(c.line)
  <2>1. PICK buf \in History, ptr \in HistIndex, cur \in HistIndex \cup {-1} :
            RingOK(buf, ptr) /\ addhist(c, c.line) = WithRing(c, buf, ptr, cur, FALSE)
    BY <1>1, AddhistIs
  <2> DEFINE e == addhist(c, c.line)
             yes == TRUE
             at == c.histptr
  <2>2. d = [e EXCEPT !.hist_pending = yes, !.histcur = at]
    BY <1>4 DEF Leave
  <2>3. e = WithRing(c, buf, ptr, cur, FALSE) /\ yes \in BOOLEAN /\ at \in HistIndex
    BY <1>1, <2>1
  <2> HIDE DEF e, yes, at
  <2>4. d = WithRing(c, buf, ptr, at, yes)
    BY <2>2, <2>3 DEF WithRing
  <2> QED
    BY <2>1, <2>3, <2>4, RingGood
<1> QED
  BY <1>2, <1>3, <1>4

(* The line at i of the ring is read without turning round. *)
StaysBelow(buf, i) == HISTSIZE - 1 \notin {Around(i, n) : n \in 0..ToNul(buf, i)}

(* Then fetch_from_history's index is that of the ring. *)
LEMMA FetchedInRing ==
    ASSUME NEW i \in HistIndex, NEW m \in HistIndex, NEW n \in 0..m,
           HISTSIZE - 1 \notin {Around(i, k) : k \in 0..m}
    PROVE  FetchIndex(i, n) = Around(i, n)
<1>1. HISTSIZE \in Nat /\ HISTSIZE > 3 /\ i \in 0..(HISTSIZE - 1) /\ m \in 0..(HISTSIZE - 1)
  BY Sizes DEF HistIndex
<1>2. \A k \in 0..m : Around(i, k) # HISTSIZE - 1
  OBVIOUS
<1>3. i + m < HISTSIZE - 1
  <2> SUFFICES ASSUME i + m >= HISTSIZE - 1
               PROVE  FALSE
    BY <1>1
  <2> DEFINE k == HISTSIZE - 1 - i
  <2>1. k \in 0..m /\ k \in 0..HISTSIZE /\ i + k = HISTSIZE - 1
    BY <1>1
  <2> HIDE DEF k
  <2>2. Around(i, k) = i + k
    BY <1>1, <2>1, AroundIs
  <2> QED
    BY <1>2, <2>1, <2>2
<1>4. Around(i, n) = i + n
  BY <1>1, <1>3, AroundIs
<1>5. (i + n) % (HISTSIZE - 1) = i + n
  <2> DEFINE x == i + n
             d == HISTSIZE - 1
  <2>1. x \in 0..(d + d - 1) /\ x < d /\ d \in Nat /\ d > 0
    BY <1>1, <1>3
  <2> HIDE DEF x, d
  <2>2. x % d = x
    BY <2>1, ModOnce
  <2> QED
    BY <2>2 DEF x, d
<1>6. i # HISTSIZE - 1
  BY <1>1, <1>3
<1> QED
  BY <1>1, <1>4, <1>5, <1>6 DEF FetchIndex

(* Wherever it begins, it comes to a NUL. *)
LEMMA FetchEnds ==
    ASSUME NEW buf \in History, NEW ptr, RingOK(buf, ptr), NEW i \in HistIndex
    PROVE  \E n \in 0..HISTSIZE : buf[FetchIndex(i, n)] = NUL
<1>1. /\ HISTSIZE \in Nat /\ HISTSIZE > 3 /\ i \in 0..(HISTSIZE - 1) /\ LINESIZE \in Nat
      /\ HISTSIZE >= LINESIZE + LINESIZE + 2
  BY Sizes DEF HistIndex
<1>2. PICK j \in 0..LINESIZE : buf[Around(0, j)] = NUL
  BY Sizes DEF RingOK
<1>3. buf[j] = NUL
  <2>1. j \in 0..HISTSIZE /\ 0 + j < HISTSIZE /\ 0 \in HistIndex /\ 0 + j = j
    BY <1>1, Sizes
  <2>2. Around(0, j) = j
    BY <2>1, AroundIs
  <2> QED
    BY <1>2, <2>2
<1> DEFINE d == HISTSIZE - 1
<1>4. d \in Nat /\ d > 0 /\ j \in 0..(d - 1)
  BY <1>1
<1>5. CASE i = HISTSIZE - 1
  <2> DEFINE n == j + 1
  <2>1. n \in 0..HISTSIZE /\ n # 0 /\ n - 1 = j
    BY <1>1
  <2>2. j % d = j
    BY <1>4, ModOnce
  <2> HIDE DEF n
  <2>3. FetchIndex(i, n) = j
    BY <1>5, <2>1, <2>2 DEF FetchIndex
  <2> QED
    BY <1>3, <2>1, <2>3
<1>6. CASE i # HISTSIZE - 1
  <2> DEFINE n == IF i <= j THEN j - i ELSE j - i + d
             x == i + n
  <2>1. n \in 0..HISTSIZE
    BY <1>1, <1>4, <1>6
  <2>2. x \in 0..(d + d - 1) /\ j = IF x < d THEN x ELSE x - d
    BY <1>1, <1>4, <1>6
  <2>3. n = 0 => i = j
    BY <1>1, <1>4, <1>6
  <2> HIDE DEF n
  <2>4. x % d = j
    <3> HIDE DEF x, d
    <3> QED
      BY <1>4, <2>2, ModOnce
  <2>5. FetchIndex(i, n) = j
    BY <1>6, <2>3, <2>4 DEF FetchIndex
  <2> QED
    BY <1>3, <2>1, <2>5
<1> QED
  BY <1>5, <1>6

(* What is fetched is text; without a turn it is the line at histcur, as long as a
   line may be. *)
LEMMA FetchIs ==
    ASSUME NEW c \in Good, c.histcur \in HistIndex
    PROVE  \E s \in Seq(Char) :
                /\ fetch_from_history(c) = insertstr(c, s)
                /\ StaysBelow(c.histbuf, c.histcur) =>
                        s = LineAt(c.histbuf, c.histcur) /\ Len(s) <= LINESIZE
<1> DEFINE buf == c.histbuf
           i == c.histcur
           S == {m \in 0..HISTSIZE : buf[FetchIndex(i, m)] = NUL}
           n == Min(S)
           s == [k \in 1..n |-> buf[FetchIndex(i, k - 1)]]
           m == ToNul(buf, i)
<1>1. /\ buf \in History /\ i \in HistIndex /\ RingOK(buf, c.histptr)
      /\ buf[HISTPTR_BACKWARD(c.histptr)] = NUL /\ HISTPTR_BACKWARD(c.histptr) \in HistIndex
  BY RingFields
<1>2. fetch_from_history(c) = insertstr(c, s)
  BY Zenon DEF fetch_from_history
<1> HIDE DEF buf, i
<1>3. S # {} /\ S \in SUBSET Nat
  BY <1>1, FetchEnds, Sizes
<1>4. n \in S /\ \A y \in S : n <= y
  <2> HIDE DEF S
  <2> QED
    BY <1>3, LeastIs
<1>5. n \in 0..HISTSIZE /\ buf[FetchIndex(i, n)] = NUL
  BY <1>4
<1>6. \A y \in 0..HISTSIZE : buf[FetchIndex(i, y)] = NUL => n <= y
  BY <1>4
<1> HIDE DEF n
<1>7. ASSUME NEW k \in 1..n
      PROVE  buf[FetchIndex(i, k - 1)] \in Char
  <2>1. k - 1 \in 0..HISTSIZE /\ ~(n <= k - 1) /\ k - 1 \in Nat
    BY <1>5, Sizes
  <2>2. FetchIndex(i, k - 1) \in HistIndex
    <3> DEFINE y == k - 1
               d == HISTSIZE - 1
    <3>1. y \in Nat /\ d \in Nat /\ d > 0 /\ i \in Nat
      BY <1>1, <2>1, Sizes
    <3>2. \A x \in Nat : x % d \in 0..(d - 1)
      <4> HIDE DEF d
      <4> QED
        BY <3>1
    <3>3. y # 0 => y - 1 \in Nat
      BY <3>1
    <3>4. i + y \in Nat
      BY <3>1
    <3> HIDE DEF y
    <3>5. FetchIndex(i, y) = i \/ FetchIndex(i, y) \in 0..(d - 1)
      BY <3>2, <3>3, <3>4 DEF FetchIndex
    <3>6. 0..(d - 1) \subseteq HistIndex
      BY Sizes DEF HistIndex
    <3> QED
      BY <1>1, <3>5, <3>6 DEF y
  <2> QED
    BY <1>1, <1>6, <2>1, <2>2 DEF History
<1>8. s \in Seq(Char) /\ Len(s) = n
  <2>1. n \in Nat
    BY <1>5, Sizes
  <2> QED
    BY <1>7, <2>1
<1>9. ASSUME StaysBelow(buf, i)
      PROVE  s = LineAt(buf, i) /\ Len(s) <= LINESIZE
  <2>1. /\ m \in HistIndex /\ buf[Around(i, m)] = NUL
        /\ \A y \in HistIndex : buf[Around(i, y)] = NUL => m <= y
    BY <1>1, ToNulIs
  <2>2. HISTSIZE - 1 \notin {Around(i, k) : k \in 0..m}
    BY <1>9 DEF StaysBelow
  <2>3. LineAt(buf, i) = [k \in 1..m |-> buf[Around(i, k - 1)]]
    BY DEF LineAt
  <2> HIDE DEF m, s, S
  <2>4. m \in Nat /\ m \in 0..m /\ m \in 0..HISTSIZE /\ n \in Nat
    BY <1>5, <2>1, Sizes DEF HistIndex
  <2>5. \A k \in 0..m : FetchIndex(i, k) = Around(i, k)
    BY <1>1, <2>1, <2>2, FetchedInRing
  <2>6. n = m
    <3>1. n <= m
      BY <1>6, <2>1, <2>4, <2>5
    <3>2. n \in 0..m /\ n \in HistIndex
      BY <2>1, <2>4, <3>1, Sizes DEF HistIndex
    <3>3. m <= n
      BY <1>5, <2>1, <2>5, <3>2
    <3> QED
      BY <2>4, <3>1, <3>3
  <2>7. \A k \in 1..m : k - 1 \in 0..m
    BY <2>4
  <2>8. s = LineAt(buf, i)
    BY <2>3, <2>5, <2>6, <2>7 DEF s
  <2>9. m <= LINESIZE
    <3>1. PICK y \in 0..LINESIZE : buf[Around(i, y)] = NUL
      BY <1>1 DEF RingOK
    <3>2. y \in HistIndex
      BY Sizes DEF HistIndex
    <3>3. m <= y
      BY <2>1, <3>1, <3>2
    <3> QED
      BY <2>4, <3>3, Sizes
  <2> QED
    BY <1>8, <2>6, <2>8, <2>9
<1> QED
  BY <1>2, <1>8, <1>9 DEF buf, i

(* A text put into an empty line is the line. *)
LEMMA WidenNothing ==
    ASSUME NEW s \in Seq(Char), NEW new \in Seq(Char), Widened(new, << >>, 0, 0, s, Len(s))
    PROVE  new = s
<1>1. Len(s) \in Nat /\ Len(new) = Len(s)
  BY DEF Widened
<1>2. ASSUME NEW i \in 1..Len(s)
      PROVE  new[i] = s[i]
  <2>1. 0 + i = i
    BY <1>1
  <2>2. new[0 + i] = s[i]
    BY DEF Widened
  <2> QED
    BY <2>1, <2>2
<1> QED
  BY <1>1, <1>2, SeqEqual

(* The ring is left alone. *)
SameRing(c, d) ==
    d.histbuf = c.histbuf /\ d.histptr = c.histptr /\ d.hist_pending = c.hist_pending

(* What Recall leaves. *)
LEMMA RecallIs ==
    ASSUME NEW c \in Good, NEW start \in HistIndex, NEW d, d = Recall(c, start)
    PROVE  /\ d \in Good /\ d.killbuf = c.killbuf
           /\ d.histcur = start /\ SameRing(c, d)
           /\ StaysBelow(c.histbuf, start) => d.line = LineAt(c.histbuf, start)
<1> DEFINE e == [c EXCEPT !.histcur = start]
           f == killline(e, FALSE)
<1>1. d = fetch_from_history(f)
  BY DEF Recall
<1>2. e \in Good /\ e.killbuf = c.killbuf /\ e.histcur = start /\ SameRing(c, e)
  <2>1. c \in Editor
    BY DEF Good
  <2>2. e = WithRing(c, c.histbuf, c.histptr, start, c.hist_pending)
    BY <2>1 DEF Editor, WithRing
  <2> HIDE DEF e
  <2>3. /\ c.histbuf \in History /\ c.histptr \in HistIndex /\ RingOK(c.histbuf, c.histptr)
        /\ c.hist_pending \in BOOLEAN
    BY RingFields
  <2>4. /\ e \in Good /\ SameLine(c, e) /\ e.histbuf = c.histbuf /\ e.histcur = start
        /\ e.histptr = c.histptr /\ e.hist_pending = c.hist_pending
    BY <2>2, <2>3, RingGood
  <2> QED
    BY <2>4 DEF SameLine, SameRing
<1> HIDE DEF e
<1>3. f \in Moved(e) /\ f.line = << >>
  BY <1>2, KilllineEmpties
<1> HIDE DEF f
<1>4. f \in Good /\ f.killbuf = c.killbuf /\ f.histcur = start /\ SameRing(c, f)
  BY <1>2, <1>3 DEF Moved, SameHistory, SameRing
<1>5. PICK s \in Seq(Char) :
          /\ d = insertstr(f, s)
          /\ StaysBelow(c.histbuf, start) => s = LineAt(c.histbuf, start) /\ Len(s) <= LINESIZE
  BY <1>1, <1>4, FetchIs DEF SameRing
<1>6. d \in Moved(f)
  BY <1>4, <1>5, InsertstrGood
<1>7. d \in Good /\ d.killbuf = c.killbuf /\ d.histcur = start /\ SameRing(c, d)
  BY <1>4, <1>6 DEF Moved, SameHistory, SameRing
<1>8. ASSUME StaysBelow(c.histbuf, start)
      PROVE  d.line = LineAt(c.histbuf, start)
  <2>1. s = LineAt(c.histbuf, start) /\ Len(s) <= LINESIZE
    BY <1>5, <1>8
  <2>2. Len(f.line) = 0 /\ f.pos = 0
    <3>1. f.pos \in 0..Len(f.line) /\ Len(f.line) = 0
      BY <1>3, <1>4, GoodFields
    <3> QED
      BY <3>1
  <2>3. Len(f.line) + Len(s) <= LINESIZE
    BY <2>1, <2>2
  <2>4. Widened(d.line, << >>, 0, 0, s, Len(s))
    BY <1>3, <1>4, <1>5, <2>2, <2>3, InsertstrIs
  <2>5. d.line \in Seq(Char)
    BY <1>7, GoodFields
  <2> QED
    BY <2>1, <2>4, <2>5, WidenNothing
<1> QED
  BY <1>7, <1>8

(* What a key of the history leaves: a line that is not the one that was there
   before is one of the ring. *)
Recalled(c, d) ==
    /\ d \in Good /\ d.killbuf = c.killbuf
    /\ d.line # c.line /\ StaysBelow(d.histbuf, d.histcur) =>
            d.line = LineAt(d.histbuf, d.histcur)

(* ^P goes to the line before. *)
LEMMA PrevhistIs ==
    ASSUME NEW c \in Good
    PROVE  Recalled(c, prevhist(c))
<1> DEFINE d == Leave(c)
           p == LineBefore(d.histbuf, d.histcur)
<1>1. d \in Good /\ SameLine(c, d) /\ d.histcur \in HistIndex
  BY LeaveIs
<1>2. prevhist(c) = c \/ prevhist(c) = d \/ prevhist(c) = Recall(d, p)
  BY DEF prevhist
<1> HIDE DEF d
<1>3. p \in HistIndex
  BY <1>1, RingFields, LineBeforeIs
<1> HIDE DEF p
<1> DEFINE e == Recall(d, p)
<1>4. /\ e \in Good /\ e.killbuf = d.killbuf /\ e.histcur = p /\ SameRing(d, e)
      /\ StaysBelow(d.histbuf, p) => e.line = LineAt(d.histbuf, p)
  BY <1>1, <1>3, RecallIs
<1> HIDE DEF e
<1>5. Recalled(c, e)
  BY <1>1, <1>4 DEF Recalled, SameLine, SameRing
<1>6. Recalled(c, d) /\ Recalled(c, c)
  BY <1>1 DEF Recalled, SameLine
<1> QED
  BY <1>2, <1>5, <1>6 DEF e

(* ^N goes to the next one. *)
LEMMA NexthistIs ==
    ASSUME NEW c \in Good
    PROVE  Recalled(c, nexthist(c))
<1> DEFINE n == ToNul(c.histbuf, c.histcur)
           next == Around(c.histcur, n + 1)
           e == Recall(c, next)
<1>1. c.histcur \in HistIndex \cup {-1}
  BY RingFields
<1>2. nexthist(c) = c \/ (c.histcur \in HistIndex /\ nexthist(c) = e)
  <2>1. c.histcur < 0 \/ c.histcur \in HistIndex
    BY <1>1
  <2> HIDE DEF e
  <2>2. nexthist(c) = IF c.histcur < 0 \/ next = c.histptr THEN c ELSE e
    BY DEF nexthist, e
  <2> QED
    BY <2>1, <2>2
<1>3. Recalled(c, c)
  BY DEF Recalled
<1>4. ASSUME c.histcur \in HistIndex
      PROVE  Recalled(c, e)
  <2>1. n \in HistIndex
    BY <1>4, RingFields, ToNulIs
  <2> HIDE DEF n
  <2> DEFINE k == n + 1
  <2>2. k \in 0..HISTSIZE
    BY <2>1, Sizes DEF HistIndex
  <2> HIDE DEF k
  <2>3. next \in HistIndex
    BY <1>4, <2>2, AroundIs DEF k
  <2> HIDE DEF next
  <2>4. /\ e \in Good /\ e.killbuf = c.killbuf /\ e.histcur = next /\ SameRing(c, e)
        /\ StaysBelow(c.histbuf, next) => e.line = LineAt(c.histbuf, next)
    BY <2>3, RecallIs
  <2> HIDE DEF e
  <2> QED
    BY <2>4 DEF Recalled, SameRing
<1> QED
  BY <1>2, <1>3, <1>4

-----------------------------------------------------------------------------
(* The keys *)

(* What a key may do: what it takes from the line is in the kill buffer if that
   changes, and another line comes from the history. *)
Steps(c, d) ==
    /\ d \in Good
    /\ d.killbuf = c.killbuf \/ Kills(c.line, d)
    /\ d.histcur = c.histcur \/ Recalled(c, d)

(* Editing, moving and killing are such steps. *)
LEMMA EditSteps ==
    ASSUME NEW c \in Good, NEW d \in Moved(c) \cup Killed(c)
    PROVE  Steps(c, d)
BY DEF Steps, Moved, Killed, Killing, SameHistory

(* So are the keys of the history. *)
LEMMA RecallSteps ==
    ASSUME NEW c \in Good, NEW d, Recalled(c, d)
    PROVE  Steps(c, d)
BY DEF Steps, Recalled

(* A struct with another prefix. *)
LEMMA PrefixIs ==
    ASSUME NEW c \in Good, NEW p \in PrefixStates, NEW d, d = [c EXCEPT !.prefix = p]
    PROVE  /\ d \in Good /\ d.line = c.line /\ d.pos = c.pos /\ d.killbuf = c.killbuf
           /\ d.histcur = c.histcur /\ SameRing(c, d)
<1>1. /\ c \in Editor /\ Len(c.line) <= LINESIZE /\ Len(c.killbuf) <= LINESIZE
      /\ c.pos \in 0..Len(c.line) /\ c.mark \in 0..Len(c.line)
      /\ Shows(c.term, c.line, c.pos) /\ RingOK(c.histbuf, c.histptr)
  BY DEF Good
<1>2. /\ d.line = c.line /\ d.pos = c.pos /\ d.mark = c.mark /\ d.killbuf = c.killbuf
      /\ d.term = c.term /\ d.histbuf = c.histbuf /\ d.histptr = c.histptr
      /\ d.histcur = c.histcur /\ d.hist_pending = c.hist_pending
  BY <1>1 DEF Editor
<1>3. d \in Editor
  BY <1>1 DEF Editor
<1>4. d \in Good
  BY <1>1, <1>2, <1>3 DEF Good
<1> QED
  BY <1>2, <1>4 DEF SameRing

(* What a key struck plainly does. *)
LEMMA PlainIs ==
    ASSUME NEW c \in Good, NEW key
    PROVE  \/ Plain(c, key) \in Moved(c) \cup Killed(c)
           \/ Plain(c, key) \in {prevhist(c), nexthist(c)}
           \/ \E p \in PrefixStates : Plain(c, key) = [c EXCEPT !.prefix = p]
<1>1. c \in Moved(c)
  BY NotEdited
<1>2. CASE key = "ESC" \/ key = "^X"
  <2> DEFINE p == IF key = "ESC" THEN "esc" ELSE "cex"
  <2>1. p \in PrefixStates /\ Plain(c, key) = [c EXCEPT !.prefix = p]
    BY <1>2 DEF Plain, PrefixStates
  <2> HIDE DEF p
  <2> QED
    BY <2>1
<1>3. CASE key \in {"^@", "^A", "^B", "^E", "^F"}
  <2>1. setmark(c) \in Moved(c)
    BY SetmarkIs
  <2>2. beginning_of_line(c) \in Moved(c)
    <3> DEFINE n == c.pos
    <3>1. n \in Nat
      BY GoodFields
    <3> HIDE DEF n
    <3>2. backward(c, n) \in Moved(c)
      BY <3>1, BackwardGood DEF Moved
    <3> QED
      BY <3>2 DEF n, beginning_of_line
  <2>3. backward(c, 1) \in Moved(c)
    BY BackwardGood DEF Moved
  <2>4. forward(c, 1) \in Moved(c)
    BY ForwardGood DEF Moved
  <2>5. end_of_line(c) \in Moved(c)
    BY EndOfLineIs
  <2>6. Plain(c, key) \in Moved(c)
    BY <1>3, <2>1, <2>2, <2>3, <2>4, <2>5 DEF Plain
  <2> QED
    BY <2>6
<1>4. CASE key \in {"^D", "^H", "^Y"}
  <2>1. delete(c, "NOAPPEND") \in Moved(c)
    BY DeleteGood DEF Moved
  <2>2. backspace(c, "NOAPPEND") \in Moved(c)
    BY BackspaceGood DEF Moved
  <2>3. yank(c) \in Moved(c)
    BY GoodFields, InsertstrGood DEF yank
  <2>4. Plain(c, key) \in Moved(c)
    BY <1>4, <2>1, <2>2, <2>3 DEF Plain
  <2> QED
    BY <2>4
<1>5. CASE key \in {"^K", "^U", "^W"}
  BY <1>5, KilltoendIs, KilllineCuts, KillregionIs DEF Plain
<1>6. CASE key \in {"^N", "^P"}
  BY <1>6 DEF Plain
<1>7. CASE key \notin {"ESC", "^X", "^@", "^A", "^B", "^E", "^F", "^D", "^H", "^Y", "^K", "^U",
                       "^W", "^N", "^P"}
  <2>1. Plain(c, key) = IF key \in Char THEN insert(c, key) ELSE c
    BY <1>7 DEF Plain
  <2>2. key \in Char => insert(c, key) \in Moved(c)
    BY InsertKeeps DEF Moved
  <2> QED
    BY <1>1, <2>1, <2>2
<1> QED
  BY <1>2, <1>3, <1>4, <1>5, <1>6, <1>7

(* And one behind a prefix. *)
LEMMA PrefixedIs ==
    ASSUME NEW c \in Good, NEW key
    PROVE  Prefixed(c, key) \in Moved(c) \cup Killed(c)
<1>1. c \in Moved(c) /\ swapmark(c) \in Moved(c) /\ forward_word(c) \in Moved(c)
      /\ backward_word(c) \in Moved(c)
  BY NotEdited, SwapmarkIs, ForwardWordIs, BackwardWordIs
<1>2. /\ delete_word(c) \in Moved(c) \cup Killed(c)
      /\ backward_delete_word(c) \in Moved(c) \cup Killed(c)
  BY DeleteWordIs, BackwardDeleteWordIs
<1>3. \/ Prefixed(c, key) = swapmark(c) \/ Prefixed(c, key) = forward_word(c)
      \/ Prefixed(c, key) = backward_word(c) \/ Prefixed(c, key) = delete_word(c)
      \/ Prefixed(c, key) = backward_delete_word(c) \/ Prefixed(c, key) = c
  BY DEF Prefixed
<1> QED
  BY <1>1, <1>2, <1>3

(* Every key struck plainly is such a step. *)
LEMMA PlainSteps ==
    ASSUME NEW c \in Good, NEW key
    PROVE  Steps(c, Plain(c, key))
<1>1. CASE Plain(c, key) \in Moved(c) \cup Killed(c)
  BY <1>1, EditSteps
<1>2. CASE Plain(c, key) \in {prevhist(c), nexthist(c)}
  <2>1. Recalled(c, Plain(c, key))
    BY <1>2, PrevhistIs, NexthistIs
  <2> QED
    BY <2>1, RecallSteps
<1>3. ASSUME NEW p \in PrefixStates, Plain(c, key) = [c EXCEPT !.prefix = p]
      PROVE  Steps(c, Plain(c, key))
  BY <1>3, PrefixIs DEF Steps
<1> QED
  BY <1>1, <1>2, <1>3, PlainIs

(* And every key behind a prefix. *)
LEMMA PrefixedSteps ==
    ASSUME NEW c \in Good, NEW key
    PROVE  Steps(c, Prefixed(c, key))
BY PrefixedIs, EditSteps

-----------------------------------------------------------------------------
(* The editor *)

(* It starts with an empty line and an empty ring. *)
LEMMA InitGood ==
    Init => cmdline \in Good
<1> SUFFICES ASSUME Init PROVE cmdline \in Good
  OBVIOUS
<1> DEFINE buf == [i \in HistIndex |-> NUL]
           empty == << >>
<1>1. cmdline = [line |-> empty, pos |-> 0, mark |-> 0, validmark |-> FALSE, prefix |-> "none",
                 killbuf |-> empty, histbuf |-> buf, histptr |-> 0, histcur |-> -1,
                 hist_pending |-> FALSE, term |-> ClearTerminal]
  BY DEF Init, cmdline_reset, cmdline_init, HistIndex
<1>2. empty \in Seq(Char) /\ Len(empty) = 0 /\ 0 \in HistIndex
  BY Sizes
<1>3. buf \in History /\ \A i \in HistIndex : buf[i] = NUL
  BY DEF History
<1>4. Shows(ClearTerminal, empty, 0)
  BY DEF Shows, Terminal, ClearTerminal
<1> HIDE DEF buf, empty
<1>5. RingOK(buf, 0)
  <2>1. \A i \in HistIndex : Around(i, 0) \in HistIndex /\ 0 \in 0..LINESIZE
    BY AroundIs, Sizes
  <2> QED
    BY <1>2, <1>3, <2>1, StepIs DEF RingOK
<1>6. ClearTerminal \in Terminal
  BY <1>4 DEF Shows
<1>7. cmdline \in Editor
  <2> HIDE DEF History, HistIndex, Terminal
  <2> QED
    BY <1>1, <1>2, <1>3, <1>6 DEF Editor, PrefixStates
<1>8. /\ cmdline.line = empty /\ cmdline.pos = 0 /\ cmdline.mark = 0
      /\ cmdline.killbuf = empty /\ cmdline.histbuf = buf /\ cmdline.histptr = 0
      /\ cmdline.term = ClearTerminal
  BY <1>1
<1> QED
  BY <1>2, <1>4, <1>5, <1>7, <1>8, Sizes DEF Good

(* A new line begins. *)
LEMMA ResetIs ==
    ASSUME NEW c \in Good, NEW d, d = cmdline_reset(c)
    PROVE  d \in Good /\ d.killbuf = c.killbuf /\ d.histcur = -1
<1> DEFINE empty == << >>
           blank == ClearTerminal
           no == FALSE
           none == "none"
<1>1. c \in Editor /\ Len(c.killbuf) <= LINESIZE /\ RingOK(c.histbuf, c.histptr)
  BY DEF Good
<1>2. empty \in Seq(Char) /\ Len(empty) = 0 /\ no \in BOOLEAN /\ none \in PrefixStates
  BY DEF PrefixStates
<1>3. Shows(blank, empty, 0)
  BY DEF Shows, Terminal, ClearTerminal
<1>4. blank \in Terminal
  BY <1>3 DEF Shows
<1>5. d = [c EXCEPT !.line = empty, !.pos = 0, !.mark = 0, !.validmark = no, !.prefix = none,
                    !.histcur = -1, !.term = blank]
  BY DEF cmdline_reset
<1> HIDE DEF empty, blank, no, none
<1>6. /\ d.line = empty /\ d.pos = 0 /\ d.mark = 0 /\ d.killbuf = c.killbuf
      /\ d.histbuf = c.histbuf /\ d.histptr = c.histptr /\ d.histcur = -1 /\ d.term = blank
  BY <1>1, <1>5 DEF Editor
<1>7. d \in Editor
  <2>1. d = [line |-> empty, pos |-> 0, mark |-> 0, validmark |-> no, prefix |-> none,
             killbuf |-> c.killbuf, histbuf |-> c.histbuf, histptr |-> c.histptr,
             histcur |-> -1, hist_pending |-> c.hist_pending, term |-> blank]
    BY <1>1, <1>5 DEF Editor
  <2>2. /\ c.killbuf \in Seq(Char) /\ c.histbuf \in History /\ c.histptr \in HistIndex
        /\ c.hist_pending \in BOOLEAN
    BY <1>1 DEF Editor
  <2> HIDE DEF History, HistIndex, Terminal, PrefixStates
  <2> QED
    BY <1>2, <1>4, <2>1, <2>2 DEF Editor
<1>8. Len(d.line) <= LINESIZE /\ d.pos \in 0..Len(d.line) /\ d.mark \in 0..Len(d.line)
  BY <1>2, <1>6, Sizes
<1> QED
  BY <1>1, <1>3, <1>6, <1>7, <1>8 DEF Good

(* ENTER puts the line into the history and begins another. *)
LEMMA EnterIs ==
    ASSUME NEW c \in Good, NEW d, d = cmdline_reset(addhist(c, c.line))
    PROVE  d \in Good /\ d.killbuf = c.killbuf /\ d.histcur = -1
<1> DEFINE e == addhist(c, c.line)
           no == FALSE
<1>1. c.line \in Seq(Char) /\ Len(c.line) <= LINESIZE
  BY GoodFields
<1>2. PICK buf \in History, ptr \in HistIndex, cur \in HistIndex \cup {-1} :
          RingOK(buf, ptr) /\ e = WithRing(c, buf, ptr, cur, FALSE)
  BY <1>1, AddhistIs
<1>3. d = cmdline_reset(e) /\ e = WithRing(c, buf, ptr, cur, no) /\ no \in BOOLEAN
  BY <1>2
<1>4. cur \in HistIndex \cup {-1} /\ RingOK(buf, ptr)
  BY <1>2
<1> HIDE DEF e, no
<1>5. e \in Good /\ SameLine(c, e)
  BY <1>3, <1>4, RingGood
<1>6. e.killbuf = c.killbuf
  BY <1>5 DEF SameLine
<1> QED
  BY <1>3, <1>5, <1>6, ResetIs

(* A key while a line is edited. *)
LEMMA EditIs ==
    ASSUME cmdline \in Good, NEW key, Edit(key)
    PROVE  Steps(cmdline, cmdline')
<1> DEFINE d == Prefixed(cmdline, key)
<1>1. CASE cmdline.prefix = "none"
  <2>1. cmdline' = Plain(cmdline, key)
    BY <1>1 DEF Edit
  <2> QED
    BY <2>1, PlainSteps
<1>2. CASE cmdline.prefix # "none"
  <2>1. Steps(cmdline, d)
    BY PrefixedSteps
  <2>2. cmdline' = [d EXCEPT !.prefix = "none"]
    BY <1>2 DEF Edit
  <2> HIDE DEF d
  <2>3. d \in Good
    BY <2>1 DEF Steps
  <2>4. /\ cmdline' \in Good /\ cmdline'.line = d.line /\ cmdline'.pos = d.pos
        /\ cmdline'.killbuf = d.killbuf /\ cmdline'.histcur = d.histcur
        /\ cmdline'.histbuf = d.histbuf
    BY <2>2, <2>3, PrefixIs DEF PrefixStates, SameRing
  <2>5. d.killbuf = cmdline.killbuf \/ Kills(cmdline.line, d)
    BY <2>1 DEF Steps
  <2>6. Kills(cmdline.line, d) => Kills(cmdline.line, cmdline')
    BY <2>4 DEF Kills
  <2>7. Recalled(cmdline, d) => Recalled(cmdline, cmdline')
    BY <2>4 DEF Recalled
  <2> QED
    BY <2>1, <2>4, <2>5, <2>6, <2>7 DEF Steps
<1> QED
  BY <1>1, <1>2

(* What a step of the editor does. *)
LEMMA StepGood ==
    ASSUME cmdline \in Good, [cmdline_input]_vars
    PROVE  \/ Steps(cmdline, cmdline')
           \/ cmdline' \in Good /\ cmdline'.killbuf = cmdline.killbuf /\ cmdline'.histcur = -1
<1>1. CASE UNCHANGED vars
  BY <1>1 DEF vars, Steps
<1>2. ASSUME NEW key, Strike(key)
      PROVE  \/ Steps(cmdline, cmdline')
             \/ /\ cmdline' \in Good /\ cmdline'.killbuf = cmdline.killbuf
                /\ cmdline'.histcur = -1
  <2>1. CASE Edit(key)
    BY <2>1, EditIs
  <2>2. CASE Enter
    <3>1. cmdline' = cmdline_reset(addhist(cmdline, cmdline.line))
      BY <2>2 DEF Enter
    <3> QED
      BY <3>1, EnterIs
  <2> QED
    BY <1>2, <2>1, <2>2 DEF Strike
<1> QED
  BY <1>1, <1>2 DEF cmdline_input

(* The struct stays in order. *)
LEMMA GoodAlways ==
    Spec => [](cmdline \in Good)
<1>1. cmdline \in Good /\ [cmdline_input]_vars => (cmdline \in Good)'
  <2> SUFFICES ASSUME cmdline \in Good, [cmdline_input]_vars
               PROVE  cmdline' \in Good
    OBVIOUS
  <2> QED
    BY StepGood DEF Steps
<1> QED
  BY <1>1, InitGood, PTL DEF Spec

(* Line, kill buffer, positions and indices of the history stay within what the
   code's arrays hold, whatever keys are struck (cmdline_input). *)
THEOREM TypesAlways == Spec => []TypeOK
<1>1. cmdline \in Good => TypeOK
  BY GoodFields, RingFields DEF TypeOK, len, History, Editor, PrefixStates
<1> QED
  BY <1>1, GoodAlways, PTL

(* The terminal shows the line after every key, though no key redraws it. *)
THEOREM ScreenAlways == Spec => []ScreenShowsLine
<1>1. ASSUME cmdline \in Good
      PROVE  ScreenShowsLine
  <2> DEFINE line == cmdline.line
             cells == cmdline.term.cells
             n == Len(line)
             m == Len(cells)
             shown == SubSeq(cells, 1, n)
             rest == SubSeq(cells, n + 1, m)
  <2>1. line \in Seq(Char) /\ Shows(cmdline.term, line, cmdline.pos)
    BY <1>1, GoodFields
  <2>2. /\ cells \in Seq(Char) /\ n \in Nat /\ m \in Nat /\ n <= m
        /\ cmdline.term.cursor = cmdline.pos
        /\ \A i \in 1..m : cells[i] = IF i <= n THEN line[i] ELSE BLANK
    BY <2>1 DEF Shows, Terminal
  <2> HIDE DEF cells
  <2>3. shown \in Seq(Char) /\ Len(shown) = n /\ \A i \in 1..n : shown[i] = cells[i]
    <3> DEFINE p == 0
    <3>1. p \in 0..Len(cells) /\ n \in p..Len(cells) /\ 1 = p + 1 /\ n - p = n
      BY <2>2
    <3> HIDE DEF p, shown
    <3>2. shown \in Seq(Char) /\ Len(shown) = n - p /\ \A i \in 1..(n - p) : shown[i] = cells[p + i]
      BY <2>2, <3>1, PartIs DEF shown
    <3>3. \A i \in 1..n : p + i = i
      BY DEF p
    <3> QED
      BY <3>1, <3>2, <3>3
  <2>4. rest \in Seq(Char) /\ Len(rest) = m - n /\ \A i \in 1..(m - n) : rest[i] = cells[n + i]
    <3>1. n \in 0..Len(cells) /\ m \in n..Len(cells)
      BY <2>2
    <3> HIDE DEF n, rest
    <3> QED
      BY <2>2, <3>1, PartIs DEF rest
  <2> HIDE DEF shown, rest
  <2>5. shown = line
    <3>1. \A i \in 1..n : shown[i] = line[i]
      BY <2>2, <2>3
    <3> QED
      BY <2>1, <2>3, <3>1, SeqEqual
  <2>6. allspace(rest)
    <3>1. \A i \in 1..(m - n) : n + i \in 1..m /\ ~(n + i <= n)
      BY <2>2
    <3> QED
      BY <2>2, <2>4, <3>1 DEF allspace
  <2> QED
    BY <2>2, <2>5, <2>6 DEF ScreenShowsLine, len, shown, rest, cells
<1> QED
  BY <1>1, GoodAlways, PTL

(* The mark stays within the line, however text goes in front of it. *)
THEOREM MarkAlways == Spec => []MarkInLine
<1>1. cmdline \in Good => MarkInLine
  BY GoodFields DEF MarkInLine, len
<1> QED
  BY <1>1, GoodAlways, PTL

(* What a key kills, yank puts back (appendkillbuffer, killregion, killtoend,
   killline, delete_word, backward_delete_word). *)
THEOREM YankAlways == Spec => KillIsYankable
<1>1. ASSUME cmdline \in Good, [cmdline_input]_vars,
             cmdline'.killbuf # cmdline.killbuf
      PROVE  yank(cmdline').line = cmdline.line
  <2>1. cmdline' \in Good /\ Kills(cmdline.line, cmdline')
    BY <1>1, StepGood DEF Steps
  <2>2. cmdline.line \in Seq(Char) /\ Len(cmdline.line) <= LINESIZE
    BY <1>1, GoodFields
  <2> QED
    BY <2>1, <2>2, YankRestores
<1> QED
  BY <1>1, GoodAlways, PTL DEF Spec, KillIsYankable

(* A line that comes back from the history is, away from the end of the ring, the
   one at histcur, whole and alone (prevhist, nexthist, fetch_from_history). *)
THEOREM RecallAlways == Spec => RecallsTheLine
<1>1. ASSUME cmdline \in Good, [cmdline_input]_vars
      PROVE  ShowsRecalled
  <2> SUFFICES ASSUME Recalls, StaysBelow(cmdline'.histbuf, cmdline'.histcur)
               PROVE  cmdline'.line = LineAt(cmdline'.histbuf, cmdline'.histcur)
    BY Zenon DEF ShowsRecalled, StaysBelow
  <2>1. /\ cmdline'.histcur # -1 /\ cmdline'.histcur # cmdline.histcur
        /\ cmdline'.line # cmdline.line
    BY DEF Recalls
  <2>2. Recalled(cmdline, cmdline')
    BY <1>1, <2>1, StepGood DEF Steps
  <2> QED
    BY <2>1, <2>2 DEF Recalled
<1> QED
  BY <1>1, GoodAlways, PTL DEF Spec, RecallsTheLine

-----------------------------------------------------------------------------
(* Sets in order *)

(* t names the members of S, each once, by increasing keys. *)
Ordered(t, m, S, key) ==
    /\ t \in [1..m -> S]
    /\ \A x \in S : \E i \in 1..m : t[i] = x
    /\ \A i, j \in 1..m : i < j => key[t[i]] < key[t[j]]

(* A prefix of it has as many members as it is long. *)
LEMMA PrefixCounts ==
    ASSUME NEW S, NEW key \in [S -> Int], NEW m \in Nat, NEW t, Ordered(t, m, S, key),
           NEW i \in 1..m
    PROVE  Cardinality({y \in S : key[y] < key[t[i]]}) = i - 1
<1> DEFINE T == {y \in S : key[y] < key[t[i]]}
           n == i - 1
           f == [j \in 1..n |-> t[j]]
<1>1. /\ t \in [1..m -> S] /\ \A x \in S : \E j \in 1..m : t[j] = x
      /\ \A j, k \in 1..m : j < k => key[t[j]] < key[t[k]]
  BY DEF Ordered
<1>2. n \in Nat /\ 1..n \subseteq 1..m /\ \A j \in 1..n : j < i
  OBVIOUS
<1>3. \A j \in 1..m : key[t[j]] \in Int
  BY <1>1
<1>4. ASSUME NEW y \in T
      PROVE  \E j \in 1..n : f[j] = y
  <2>1. PICK j \in 1..m : t[j] = y
    BY <1>1
  <2>2. ~(i < j) /\ i # j
    BY <1>1, <1>3, <2>1
  <2>3. j \in 1..n
    BY <2>2
  <2> QED
    BY <2>1, <2>3
<1>5. f \in [1..n -> T]
  <2> SUFFICES ASSUME NEW j \in 1..n PROVE t[j] \in T
    BY Zenon
  <2> QED
    BY <1>1, <1>2
<1>6. \A j, k \in 1..n : f[j] = f[k] => j = k
  <2> SUFFICES ASSUME NEW j \in 1..n, NEW k \in 1..n, t[j] = t[k] PROVE j = k
    OBVIOUS
  <2>1. ~(j < k) /\ ~(k < j)
    BY <1>1, <1>2, <1>3
  <2> QED
    BY <2>1
<1> HIDE DEF f, T, n
<1>7. f \in Bijection(1..n, T)
  BY <1>4, <1>5, <1>6 DEF Bijection, Injection, IsInjective, Surjection
<1>8. IsFiniteSet(1..n) /\ Cardinality(1..n) = n
  BY <1>2, FS_Interval
<1>9. Cardinality(T) = n
  BY <1>7, <1>8, FS_Bijection DEF ExistsBijection
<1> QED
  BY <1>9 DEF T, n

(* All of it too. *)
LEMMA OrderCounts ==
    ASSUME NEW S, NEW key \in [S -> Int], NEW m \in Nat, NEW t, Ordered(t, m, S, key)
    PROVE  Cardinality(S) = m
<1>1. /\ t \in [1..m -> S] /\ \A x \in S : \E j \in 1..m : t[j] = x
      /\ \A j, k \in 1..m : j < k => key[t[j]] < key[t[k]]
  BY DEF Ordered
<1>2. \A j, k \in 1..m : t[j] = t[k] => j = k
  <2> SUFFICES ASSUME NEW j \in 1..m, NEW k \in 1..m, t[j] = t[k] PROVE j = k
    OBVIOUS
  <2>1. ~(j < k) /\ ~(k < j)
    BY <1>1
  <2> QED
    BY <2>1
<1>3. t \in Bijection(1..m, S)
  BY <1>1, <1>2 DEF Bijection, Injection, IsInjective, Surjection
<1>4. IsFiniteSet(1..m) /\ Cardinality(1..m) = m
  BY FS_Interval
<1> QED
  BY <1>3, <1>4, FS_Bijection DEF ExistsBijection

(* So it is what InOrder gives. *)
LEMMA InOrderIs ==
    ASSUME NEW S, NEW key \in [S -> Int], NEW m \in Nat, NEW t, Ordered(t, m, S, key)
    PROVE  InOrder(S, key) = t
<1> DEFINE Below(x) == Cardinality({y \in S : key[y] < key[x]})
<1>1. Cardinality(S) = m
  BY OrderCounts
<1>2. t \in [1..m -> S] /\ \A x \in S : \E j \in 1..m : t[j] = x
  BY DEF Ordered
<1>3. \A i \in 1..m : Below(t[i]) = i - 1
  BY PrefixCounts
<1> HIDE DEF Below
<1>4. ASSUME NEW n \in 1..m
      PROVE  (CHOOSE x \in S : Below(x) = n - 1) = t[n]
  <2>1. t[n] \in S /\ Below(t[n]) = n - 1
    BY <1>2, <1>3
  <2>2. ASSUME NEW x \in S, Below(x) = n - 1
        PROVE  x = t[n]
    <3>1. PICK j \in 1..m : t[j] = x
      BY <1>2
    <3>2. j - 1 = n - 1
      BY <1>3, <2>2, <3>1
    <3> QED
      BY <3>1, <3>2
  <2> QED
    BY <2>1, <2>2
<1>5. InOrder(S, key) = [n \in 1..m |-> CHOOSE x \in S : Below(x) = n - 1]
  BY <1>1 DEF InOrder, Below
<1> QED
  BY <1>2, <1>4, <1>5

-----------------------------------------------------------------------------
(* Lines in the ring *)

(* v, the ring read from one place on, holds lines, the i-th of them from s[i] on,
   each with a NUL behind it and the last one at the end.  What is before them
   begins with a characters of which nothing more is known, and is NULs then. *)
Laid(v, lines, s, a) ==
    LET m == Len(lines)
    IN  /\ lines \in Seq(Seq(Char))
        /\ s \in [1..(m + 1) -> 0..HISTSIZE] /\ s[m + 1] = HISTSIZE
        /\ \A i \in 1..m :
              /\ Len(lines[i]) \in 1..LINESIZE
              /\ s[i + 1] = s[i] + Len(lines[i]) + 1
              /\ v[s[i] + Len(lines[i])] = NUL
              /\ \A j \in 1..Len(lines[i]) : v[s[i] + j - 1] = lines[i][j]
        /\ a \in 0..s[1] /\ (a = s[1] => a = 0)
        /\ \A k \in 0..(a - 1) : v[k] # NUL
        /\ \A k \in a..(s[1] - 1) : v[k] = NUL

(* A character is not the NUL. *)
LEMMA NoCharIsNul ==
    \A ch \in Char : ch # NUL
BY FitsAssumption DEF Fits

(* What Laid says, with plain names. *)
LEMMA LaidIs ==
    ASSUME NEW v, NEW lines, NEW s, NEW a, Laid(v, lines, s, a)
    PROVE  /\ lines \in Seq(Seq(Char)) /\ Len(lines) \in Nat
           /\ s \in [1..(Len(lines) + 1) -> 0..HISTSIZE] /\ s[Len(lines) + 1] = HISTSIZE
           /\ \A i \in 1..Len(lines) :
                 /\ i \in 1..(Len(lines) + 1) /\ i + 1 \in 1..(Len(lines) + 1)
                 /\ s[i] \in 0..HISTSIZE /\ s[i + 1] \in 0..HISTSIZE
                 /\ lines[i] \in Seq(Char) /\ Len(lines[i]) \in 1..LINESIZE
                 /\ s[i + 1] = s[i] + Len(lines[i]) + 1
                 /\ v[s[i] + Len(lines[i])] = NUL
                 /\ \A j \in 1..Len(lines[i]) : v[s[i] + j - 1] = lines[i][j] /\ lines[i][j] # NUL
           /\ s[1] \in 0..HISTSIZE /\ 1 \in 1..(Len(lines) + 1)
           /\ Len(lines) + 1 \in 1..(Len(lines) + 1)
           /\ a \in 0..s[1] /\ (a = s[1] => a = 0)
           /\ \A k \in 0..(a - 1) : v[k] # NUL
           /\ \A k \in a..(s[1] - 1) : v[k] = NUL
<1>1. lines \in Seq(Seq(Char)) /\ Len(lines) \in Nat
  BY DEF Laid
<1> DEFINE m == Len(lines)
<1>2. s \in [1..(m + 1) -> 0..HISTSIZE]
  BY DEF Laid
<1>3. ASSUME NEW i \in 1..m
      PROVE  /\ i \in 1..(m + 1) /\ i + 1 \in 1..(m + 1)
             /\ s[i] \in 0..HISTSIZE /\ s[i + 1] \in 0..HISTSIZE
             /\ lines[i] \in Seq(Char)
             /\ \A j \in 1..Len(lines[i]) : lines[i][j] # NUL
  <2>1. i \in 1..(m + 1) /\ i + 1 \in 1..(m + 1)
    BY <1>1
  <2>2. lines[i] \in Seq(Char)
    BY <1>1, ElementOfSeq
  <2>3. \A j \in 1..Len(lines[i]) : lines[i][j] \in Char
    BY <2>2, ElementOfSeq
  <2> QED
    BY <1>2, <2>1, <2>2, <2>3, NoCharIsNul
<1>4. 1 \in 1..(m + 1) /\ m + 1 \in 1..(m + 1)
  BY <1>1
<1>5. s[1] \in 0..HISTSIZE
  BY <1>2, <1>4
<1>6. /\ s[m + 1] = HISTSIZE
      /\ \A i \in 1..m :
            /\ Len(lines[i]) \in 1..LINESIZE
            /\ s[i + 1] = s[i] + Len(lines[i]) + 1
            /\ v[s[i] + Len(lines[i])] = NUL
            /\ \A j \in 1..Len(lines[i]) : v[s[i] + j - 1] = lines[i][j]
      /\ a \in 0..s[1] /\ (a = s[1] => a = 0)
      /\ \A k \in 0..(a - 1) : v[k] # NUL
      /\ \A k \in a..(s[1] - 1) : v[k] = NUL
  BY DEF Laid
<1> QED
  BY <1>1, <1>2, <1>3, <1>4, <1>5, <1>6

(* One line. *)
LEMMA LaidAt ==
    ASSUME NEW v, NEW lines, NEW s, NEW a, Laid(v, lines, s, a), NEW i \in 1..Len(lines)
    PROVE  /\ i \in 1..(Len(lines) + 1) /\ i + 1 \in 1..(Len(lines) + 1)
           /\ s[i] \in 0..HISTSIZE /\ s[i + 1] \in 0..HISTSIZE
           /\ lines[i] \in Seq(Char) /\ Len(lines[i]) \in 1..LINESIZE
           /\ s[i + 1] = s[i] + Len(lines[i]) + 1
           /\ v[s[i] + Len(lines[i])] = NUL
           /\ \A j \in 1..Len(lines[i]) : v[s[i] + j - 1] = lines[i][j] /\ lines[i][j] # NUL
BY LaidIs

(* Later lines lie further on, by at least two. *)
LEMMA LaidRises ==
    ASSUME NEW v, NEW lines, NEW s, NEW a, Laid(v, lines, s, a),
           NEW i \in 1..(Len(lines) + 1), NEW j \in i..(Len(lines) + 1)
    PROVE  s[i] + (j - i) + (j - i) <= s[j]
<1> DEFINE m == Len(lines)
           T == {d \in Nat : i + d <= m + 1 => s[i] + d + d <= s[i + d]}
<1>1. /\ m \in Nat /\ s \in [1..(m + 1) -> 0..HISTSIZE] /\ HISTSIZE \in Nat
      /\ \A k \in 1..m : /\ Len(lines[k]) \in 1..LINESIZE
                         /\ s[k + 1] = s[k] + Len(lines[k]) + 1
  <2> HIDE DEF T
  <2>1. m \in Nat /\ s \in [1..(m + 1) -> 0..HISTSIZE] /\ HISTSIZE \in Nat
    BY LaidIs, Sizes
  <2>2. ASSUME NEW k \in 1..Len(lines)
        PROVE  Len(lines[k]) \in 1..LINESIZE /\ s[k + 1] = s[k] + Len(lines[k]) + 1
    BY LaidAt
  <2> QED
    BY <2>1, <2>2
<1> HIDE DEF m
<1>2. 0 \in T
  <2>1. i \in Int /\ i + 0 = i /\ s[i] \in Int
    BY <1>1 DEF m
  <2> QED
    BY <2>1
<1>3. ASSUME NEW d \in Nat, d \in T
      PROVE  d + 1 \in T
  <2> SUFFICES ASSUME i + (d + 1) <= m + 1
               PROVE  s[i] + (d + 1) + (d + 1) <= s[i + (d + 1)]
    OBVIOUS
  <2>1. i \in 1..(m + 1) /\ i + d \in 1..m /\ i + (d + 1) = i + d + 1 /\ i + d <= m + 1
    BY <1>1 DEF m
  <2>2. s[i] + d + d <= s[i + d]
    BY <1>3, <2>1
  <2> DEFINE k == i + d
             l == Len(lines[k])
  <2>3. s[k + 1] = s[k] + l + 1 /\ l \in 1..LINESIZE /\ s[k] \in Nat /\ s[i] \in Nat
    BY <1>1, <2>1
  <2> HIDE DEF k, l
  <2>4. s[i] + d + d <= s[k] /\ i + (d + 1) = k + 1
    BY <2>1, <2>2 DEF k
  <2>5. l >= 1 /\ l \in Int
    BY <2>3, Sizes
  <2>6. s[k + 1] >= s[i] + (d + 1) + (d + 1)
    BY <2>3, <2>4, <2>5, SMTT(30)
  <2> QED
    BY <2>4, <2>6
<1>4. j - i \in T
  <2>1. j - i \in Nat
    BY <1>1 DEF m
  <2> HIDE DEF T
  <2> QED
    BY <1>2, <1>3, <2>1, Induction
<1>5. i + (j - i) = j /\ j <= m + 1
  BY <1>1 DEF m
<1> QED
  BY <1>4, <1>5

(* Behind a NUL come NULs, up to the next line or the end. *)
LEMMA LineBehind ==
    ASSUME NEW v, NEW lines, NEW s, NEW a, Laid(v, lines, s, a),
           NEW t \in HistIndex, v[t] = NUL
    PROVE  \E e \in 1..(Len(lines) + 1) :
                /\ s[e] > t
                /\ e > 1 => s[e - 1] <= t
                /\ \A k \in t..(s[e] - 1) : v[k] = NUL
<1> DEFINE m == Len(lines)
           S == {i \in 1..(m + 1) : s[i] > t}
<1>1. /\ m \in Nat /\ s \in [1..(m + 1) -> 0..HISTSIZE] /\ HISTSIZE \in Nat
      /\ s[m + 1] = HISTSIZE /\ m + 1 \in 1..(m + 1) /\ t \in 0..(HISTSIZE - 1)
  BY LaidIs, Sizes DEF HistIndex
<1>2. PICK e \in S : \A y \in S : e <= y
  <2>1. m + 1 \in S
    BY <1>1
  <2>2. S \in SUBSET Nat /\ S # {}
    BY <2>1
  <2> QED
    BY <2>2, LeastNumber
<1>3. e \in 1..(m + 1) /\ s[e] > t /\ s[e] \in 0..HISTSIZE
  BY <1>1, <1>2
<1>4. CASE e = 1
  <2>1. /\ a \in 0..s[1]
        /\ \A k \in 0..(a - 1) : v[k] # NUL
        /\ \A k \in a..(s[1] - 1) : v[k] = NUL
    BY LaidIs
  <2>2. ~(t \in 0..(a - 1))
    BY <2>1
  <2>3. \A k \in t..(s[1] - 1) : k \in a..(s[1] - 1)
    BY <1>1, <1>3, <1>4, <2>1, <2>2
  <2> QED
    BY <1>3, <1>4, <2>1, <2>3
<1>5. CASE e > 1
  <2> DEFINE i == e - 1
             l == Len(lines[i])
             line == lines[i]
  <2>1. i \in 1..m /\ i + 1 = e /\ i \in 1..(m + 1) /\ i < e
    BY <1>1, <1>3, <1>5
  <2>2. ~(s[i] > t) /\ s[i] \in 0..HISTSIZE
    BY <1>1, <1>2, <2>1
  <2> HIDE DEF i
  <2>3. /\ l \in 1..LINESIZE /\ s[i + 1] = s[i] + l + 1
        /\ \A j \in 1..l : v[s[i] + j - 1] = line[j] /\ line[j] # NUL
    <3> HIDE DEF l
    <3>1. /\ Len(lines[i]) \in 1..LINESIZE /\ s[i + 1] = s[i] + Len(lines[i]) + 1
          /\ \A j \in 1..Len(lines[i]) : v[s[i] + j - 1] = lines[i][j] /\ lines[i][j] # NUL
      BY <2>1, LaidIs, SMTT(30)
    <3> QED
      BY <3>1 DEF l
  <2> HIDE DEF l, line
  <2>4. t = s[e] - 1
    <3>1. CASE t < s[i] + l
      <4> DEFINE j == t - s[i] + 1
      <4>1. j \in 1..l /\ s[i] + j - 1 = t
        BY <1>1, <2>2, <2>3, <3>1, Sizes, SMTT(30)
      <4>2. v[s[i] + j - 1] # NUL
        BY <2>3, <4>1
      <4> QED
        BY <4>1, <4>2
    <3>2. s[i] \in Int /\ l \in Int /\ t \in Int /\ s[e] \in Int /\ s[e] = s[i] + l + 1
      BY <1>1, <1>3, <2>1, <2>2, <2>3, Sizes
    <3>3. s[e] > t
      BY <1>3
    <3> QED
      BY <3>1, <3>2, <3>3
  <2>5. \A k \in t..(s[e] - 1) : k = t
    BY <1>1, <1>3, <2>4
  <2>6. s[e - 1] <= t
    BY <1>1, <2>2 DEF i
  <2>7. \A k \in t..(s[e] - 1) : v[k] = NUL
    BY <2>5
  <2> QED
    BY <1>3, <2>6, <2>7
<1> QED
  BY <1>3, <1>4, <1>5

(* The lines that are left and the new one behind them. *)
Added(lines2, lines, added) ==
    LET m == Len(lines)
        n == Len(lines2)
    IN  /\ lines2 \in Seq(Seq(Char))
        /\ n \in 1..(m + 1) /\ lines2[n] = added
        /\ \A i \in 1..(n - 1) : lines2[i] = lines[(m + 1 - n) + i]
        /\ m > 0 => n > 1

(* w is the ring behind a text that was written where v is read from, with NULs
   behind it up to t. *)
Writes(w, v, entry, t) ==
    LET n == Len(entry)
    IN  /\ \A j \in 1..n : w[HISTSIZE - 2 - n + j] = entry[j]
        /\ w[HISTSIZE - 1] = NUL
        /\ \A k \in 0..(HISTSIZE - 2 - n) :
              w[k] = IF k + n + 1 <= t THEN NUL ELSE v[k + n + 1]

(* addhist overwrites the oldest lines and keeps the others, the last one in any
   case. *)
LEMMA WriteLays ==
    ASSUME NEW v, NEW lines, NEW s, NEW a, Laid(v, lines, s, a),
           NEW entry \in Seq(Char), Len(entry) \in 1..LINESIZE,
           NEW t \in HistIndex, t >= Len(entry), v[t] = NUL,
           \A k \in Len(entry)..(t - 1) : v[k] # NUL,
           NEW w, Writes(w, v, entry, t)
    PROVE  \E lines2, s2 : Laid(w, lines2, s2, 0) /\ Added(lines2, lines, entry)
<1> DEFINE m == Len(lines)
           n == Len(entry)
<1>1. /\ m \in Nat /\ lines \in Seq(Seq(Char))
      /\ s \in [1..(m + 1) -> 0..HISTSIZE] /\ s[m + 1] = HISTSIZE
  BY LaidIs
<1>2. /\ HISTSIZE \in Nat /\ LINESIZE \in Nat /\ HISTSIZE >= LINESIZE + LINESIZE + 2
      /\ t \in 0..(HISTSIZE - 1) /\ n \in 1..LINESIZE /\ t >= n
  BY Sizes DEF HistIndex
<1>3. PICK e \in 1..(m + 1) :
          s[e] > t /\ (e > 1 => s[e - 1] <= t) /\ \A k \in t..(s[e] - 1) : v[k] = NUL
  BY LineBehind
<1> DEFINE m2 == m + 2 - e
           lines2 == [i \in 1..m2 |-> IF i = m2 THEN entry ELSE lines[e - 1 + i]]
           s2 == [i \in 1..(m2 + 1) |-> IF i = m2 + 1 THEN HISTSIZE ELSE s[e - 1 + i] - (n + 1)]
<1>4. m2 \in 1..(m + 1) /\ m2 \in Nat /\ e - 1 + m2 = m + 1
  BY <1>1
<1>5. ASSUME NEW i \in 1..(m2 - 1)
      PROVE  /\ e - 1 + i \in 1..m /\ (m + 1 - m2) + i = e - 1 + i /\ i # m2 /\ i \in 1..m2
  BY <1>1
<1>6. ASSUME NEW i \in 1..m2
      PROVE  /\ e - 1 + i \in 1..(m + 1) /\ s[e - 1 + i] >= s[e] /\ s[e - 1 + i] \in 0..HISTSIZE
  <2> DEFINE j == e - 1 + i
  <2>1. j \in e..(m + 1) /\ j \in 1..(m + 1) /\ e \in 1..(m + 1)
    BY <1>1
  <2>2. s[e] + (j - e) + (j - e) <= s[j] /\ s[j] \in 0..HISTSIZE /\ s[e] \in 0..HISTSIZE
    BY <1>1, <2>1, LaidRises
  <2> QED
    BY <2>1, <2>2
<1>7. s[e] \in 0..HISTSIZE
  BY <1>1
<1>8. lines2 \in Seq(Seq(Char)) /\ Len(lines2) = m2
  <2>1. \A i \in 1..m2 : (IF i = m2 THEN entry ELSE lines[e - 1 + i]) \in Seq(Char)
    <3> SUFFICES ASSUME NEW i \in 1..m2, i # m2
                 PROVE  lines[e - 1 + i] \in Seq(Char)
      OBVIOUS
    <3>1. i \in 1..(m2 - 1)
      BY <1>4
    <3>2. e - 1 + i \in 1..m
      BY <1>5, <3>1
    <3> QED
      BY <1>1, <3>2, ElementOfSeq
  <2>2. lines2 \in [1..m2 -> Seq(Char)]
    BY <2>1
  <2> HIDE DEF lines2, m2
  <2> QED
    BY <1>4, <2>2
<1>9. /\ \A i \in 1..(m2 - 1) : lines2[i] = lines[e - 1 + i]
      /\ lines2[m2] = entry
  BY <1>4, <1>5
<1>10. s2 \in [1..(m2 + 1) -> 0..HISTSIZE]
  <2> SUFFICES ASSUME NEW i \in 1..(m2 + 1)
               PROVE  (IF i = m2 + 1 THEN HISTSIZE ELSE s[e - 1 + i] - (n + 1)) \in 0..HISTSIZE
    BY Zenon
  <2>1. CASE i = m2 + 1
    BY <1>2, <2>1
  <2>2. CASE i # m2 + 1
    <3>1. i \in 1..m2
      BY <1>4, <2>2
    <3> DEFINE x == s[e - 1 + i]
    <3>2. x \in 0..HISTSIZE /\ x >= s[e] /\ s[e] > t /\ s[e] \in Int
      <4>1. s[e - 1 + i] >= s[e] /\ s[e - 1 + i] \in 0..HISTSIZE
        BY ONLY <1>6, <3>1
      <4> QED
        BY <1>3, <1>7, <4>1
    <3> HIDE DEF x
    <3>3. x - (n + 1) \in 0..HISTSIZE
      BY <1>2, <3>2
    <3> QED
      BY <2>2, <3>3 DEF x
  <2> QED
    BY <2>1, <2>2
<1>11. /\ \A i \in 1..m2 : s2[i] = s[e - 1 + i] - (n + 1)
       /\ s2[m2 + 1] = HISTSIZE
  BY <1>4
<1>12. e - 1 + 1 = e /\ 1 \in 1..m2
  BY <1>4
<1> HIDE DEF s2, lines2, m2, m, n
<1>13. /\ \A j \in 1..n : w[HISTSIZE - 2 - n + j] = entry[j]
       /\ w[HISTSIZE - 1] = NUL
       /\ \A k \in 0..(HISTSIZE - 2 - n) : w[k] = IF k + n + 1 <= t THEN NUL ELSE v[k + n + 1]
  BY DEF Writes, n
<1>14. ASSUME NEW i \in 1..m2
       PROVE  /\ Len(lines2[i]) \in 1..LINESIZE
              /\ s2[i + 1] = s2[i] + Len(lines2[i]) + 1
              /\ w[s2[i] + Len(lines2[i])] = NUL
              /\ \A j \in 1..Len(lines2[i]) : w[s2[i] + j - 1] = lines2[i][j]
  <2>1. CASE i = m2
    <3>1. lines2[i] = entry /\ s2[i + 1] = HISTSIZE /\ s2[i] = HISTSIZE - (n + 1)
      BY <1>1, <1>4, <1>9, <1>11, <2>1
    <3> DEFINE x == s2[i]
    <3>2. x = HISTSIZE - n - 1 /\ x + n = HISTSIZE - 1 /\ HISTSIZE = x + n + 1
      BY <1>2, <3>1
    <3>3. \A j \in 1..n : x + j - 1 = HISTSIZE - 2 - n + j
      BY <1>2, <3>2
    <3> HIDE DEF x
    <3>4. w[x + n] = NUL /\ \A j \in 1..n : w[x + j - 1] = entry[j]
      BY <1>13, <3>2, <3>3
    <3> QED
      BY <1>2, <3>1, <3>2, <3>4 DEF x, n
  <2>2. CASE i # m2
    <3> DEFINE b == e - 1 + i
               line == lines[b]
               l == Len(line)
    <3>1. i \in 1..(m2 - 1) /\ i + 1 \in 1..m2 /\ e - 1 + (i + 1) = b + 1
      BY <1>4, <2>2
    <3>2. b \in 1..m /\ lines2[i] = line /\ s2[i] = s[b] - (n + 1) /\ s2[i + 1] = s[b + 1] - (n + 1)
      BY <1>5, <1>9, <1>11, <3>1
    <3>3. s[b] \in 0..HISTSIZE /\ s[b] > t
      BY <1>2, <1>3, <1>6, <1>7
    <3> HIDE DEF b
    <3>4. /\ l \in 1..LINESIZE /\ s[b + 1] = s[b] + l + 1 /\ v[s[b] + l] = NUL
          /\ s[b + 1] \in 0..HISTSIZE
          /\ \A j \in 1..l : v[s[b] + j - 1] = line[j]
      BY <3>2, LaidIs DEF m
    <3> DEFINE x == s[b]
               y == s2[i]
    <3> HIDE DEF l, line
    <3>5. x \in Int /\ l \in Int /\ x + l + 1 <= HISTSIZE /\ x > t /\ y = x - (n + 1) /\ l >= 1
      BY <1>2, <3>2, <3>3, <3>4
    <3> HIDE DEF x, y
    <3>6. ASSUME NEW j \in 0..l
          PROVE  w[y + j] = v[x + j]
      <4> DEFINE k == y + j
      <4>1. k \in 0..(HISTSIZE - 2 - n) /\ k + n + 1 = x + j /\ ~(x + j <= t)
        BY <1>2, <3>5
      <4> HIDE DEF k
      <4>2. w[k] = v[x + j]
        BY <1>13, <4>1
      <4> QED
        BY <4>2 DEF k
    <3>7. w[y + l] = NUL
      BY <3>4, <3>5, <3>6, SMTT(30) DEF x
    <3>8. \A j \in 1..l : w[y + j - 1] = line[j]
      <4> SUFFICES ASSUME NEW j \in 1..l PROVE w[y + j - 1] = line[j]
        OBVIOUS
      <4> DEFINE h == j - 1
      <4>1. h \in 0..l /\ y + h = y + j - 1 /\ x + h = x + j - 1
        BY <1>2, <3>5
      <4>2. v[x + j - 1] = line[j]
        BY <3>4 DEF x
      <4> HIDE DEF h
      <4> QED
        BY <3>6, <4>1, <4>2
    <3>9. s2[i + 1] = y + l + 1
      <4>1. s2[i + 1] = s[b + 1] - (n + 1) /\ s[b + 1] = x + l + 1
        BY <3>2, <3>4 DEF x
      <4> HIDE DEF n
      <4> QED
        BY <1>2, <3>5, <4>1
    <3> QED
      BY <3>2, <3>4, <3>7, <3>8, <3>9 DEF y, l
  <2> QED
    BY <2>1, <2>2
<1>15. ASSUME NEW k \in 0..(s2[1] - 1)
       PROVE  w[k] = NUL
  <2> DEFINE y == k + n + 1
  <2>1. s2[1] = s[e] - (n + 1)
    BY <1>11, <1>12
  <2>2. k \in 0..(HISTSIZE - 2 - n) /\ y \in Int /\ y < s[e]
    BY <1>2, <1>7, <2>1
  <2>3. w[k] = IF y <= t THEN NUL ELSE v[y]
    BY <1>13, <2>2
  <2> HIDE DEF y
  <2>4. ~(y <= t) => y \in t..(s[e] - 1)
    BY <1>2, <1>7, <2>2
  <2> QED
    BY <1>3, <2>3, <2>4
<1>16. s2[1] \in 0..HISTSIZE
  BY <1>4, <1>10
<1>17. Laid(w, lines2, s2, 0)
  <2>1. 0 \in 0..s2[1] /\ \A k \in 0..(0 - 1) : w[k] # NUL
    BY <1>16
  <2> QED
    BY <1>8, <1>10, <1>11, <1>14, <1>15, <2>1 DEF Laid
<1>18. m > 0 => m2 > 1
  <2> SUFFICES ASSUME m > 0, e = m + 1 PROVE FALSE
    BY <1>1, <1>4
  <2>1. s[m] <= t /\ m \in 1..m
    BY <1>1, <1>3
  <2> DEFINE x == s[m]
             l == Len(lines[m])
  <2>2. /\ x \in 0..HISTSIZE /\ l \in 1..LINESIZE /\ HISTSIZE = x + l + 1
    BY <1>1, <2>1, LaidIs DEF m
  <2> HIDE DEF x, l
  <2> DEFINE k == x - 1
  <2>3. k \in n..(t - 1) /\ k >= 0
    BY <1>2, <2>1, <2>2, SMTT(30) DEF x
  <2>4. v[k] = NUL
    <3>1. CASE m = 1
      <4>1. a \in 0..x /\ (a = x => a = 0) /\ \A h \in a..(x - 1) : v[h] = NUL
        BY <3>1, LaidIs DEF m, x
      <4>2. k \in a..(x - 1)
        BY <1>2, <2>2, <2>3, <4>1
      <4> QED
        BY <4>1, <4>2
    <3>2. CASE m # 1
      <4> DEFINE b == m - 1
      <4>1. b \in 1..m /\ b + 1 = m
        BY <1>1, <2>1, <3>2
      <4>2. v[s[b] + Len(lines[b])] = NUL /\ x = s[b] + Len(lines[b]) + 1
            /\ s[b] \in 0..HISTSIZE /\ Len(lines[b]) \in Nat
        <5> HIDE DEF b
        <5>1. s[b + 1] = s[b] + Len(lines[b]) + 1 /\ Len(lines[b]) \in 1..LINESIZE
              /\ v[s[b] + Len(lines[b])] = NUL /\ s[b] \in 0..HISTSIZE
          BY <4>1, LaidIs DEF m
        <5> QED
          BY <1>2, <4>1, <5>1 DEF x
      <4>3. k = s[b] + Len(lines[b])
        BY <2>2, <4>2, SMTT(30)
      <4> QED
        BY <4>2, <4>3
    <3> QED
      BY <3>1, <3>2
  <2> HIDE DEF k
  <2> QED
    BY <2>3, <2>4 DEF n
<1>19. Added(lines2, lines, entry)
  <2>1. \A i \in 1..(m2 - 1) : lines2[i] = lines[(m + 1 - m2) + i]
    BY <1>5, <1>9
  <2> QED
    BY <1>4, <1>8, <1>9, <1>18, <2>1 DEF Added, m
<1> QED
  BY <1>17, <1>19

(* All but the last line. *)
Without1(lines2, lines) ==
    /\ lines2 \in Seq(Seq(Char))
    /\ Len(lines2) = Len(lines) - 1
    /\ \A i \in 1..Len(lines2) : lines2[i] = lines[i]

(* w is the ring v read from the last line on, l characters from x on, with the NUL
   behind it. *)
FromLast(w, v, x, l) ==
    /\ \A k \in 0..l : w[k] = v[x + k]
    /\ \A k \in 0..(x - 1) : w[l + 1 + k] = v[k]

(* The last line is taken back: the ring read from where it begins, that line
   first, holds the others. *)
LEMMA TakeBackLays ==
    ASSUME NEW v, NEW lines, NEW s, Laid(v, lines, s, 0), Len(lines) > 0,
           NEW w, FromLast(w, v, s[Len(lines)], Len(lines[Len(lines)]))
    PROVE  \E lines2, s2 : Laid(w, lines2, s2, Len(lines[Len(lines)])) /\ Without1(lines2, lines)
<1> DEFINE m == Len(lines)
           x == s[m]
           l == Len(lines[m])
           m2 == m - 1
           lines2 == [i \in 1..m2 |-> lines[i]]
           s2 == [i \in 1..m |-> s[i] + (l + 1)]
<1>1. /\ m \in Nat /\ lines \in Seq(Seq(Char)) /\ m \in 1..m /\ m2 \in Nat /\ m2 + 1 = m
      /\ s \in [1..(m + 1) -> 0..HISTSIZE] /\ s[m + 1] = HISTSIZE
  BY LaidIs
<1>2. /\ x \in 0..HISTSIZE /\ l \in 1..LINESIZE /\ HISTSIZE = x + l + 1 /\ v[x + l] = NUL
      /\ \A j \in 1..l : v[x + j - 1] # NUL
  <2> DEFINE i == m
  <2>1. i \in 1..Len(lines) /\ i = m
    BY <1>1
  <2> HIDE DEF i, x, l, m2, lines2, s2
  <2>2. /\ s[i] \in 0..HISTSIZE /\ Len(lines[i]) \in 1..LINESIZE
        /\ s[i + 1] = s[i] + Len(lines[i]) + 1 /\ v[s[i] + Len(lines[i])] = NUL
        /\ \A j \in 1..Len(lines[i]) : v[s[i] + j - 1] = lines[i][j] /\ lines[i][j] # NUL
    BY <2>1, LaidAt, SMTT(30)
  <2> HIDE DEF m
  <2>3. /\ s[m] \in 0..HISTSIZE /\ Len(lines[m]) \in 1..LINESIZE
        /\ s[m + 1] = s[m] + Len(lines[m]) + 1 /\ v[s[m] + Len(lines[m])] = NUL
        /\ \A j \in 1..Len(lines[m]) : v[s[m] + j - 1] # NUL
    BY <2>1, <2>2
  <2> QED
    BY <1>1, <2>3 DEF x, l
<1> HIDE DEF x, l
<1>3. HISTSIZE \in Nat /\ LINESIZE \in Nat
  BY Sizes
<1>16. /\ \A k \in 0..l : w[k] = v[x + k]
       /\ \A k \in 0..(x - 1) : w[l + 1 + k] = v[k]
  BY DEF FromLast, x, l
<1>4. ASSUME NEW i \in 1..m
      PROVE  i \in 1..(m + 1) /\ s[i] \in 0..x
  <2>1. s[i] + (m - i) + (m - i) <= s[m] /\ i \in 1..(m + 1) /\ s[i] \in 0..HISTSIZE
    <3>1. i \in 1..(m + 1) /\ m \in i..(m + 1)
      BY <1>1
    <3>2. s[i] + (m - i) + (m - i) <= s[m]
      BY <3>1, LaidRises
    <3> QED
      BY <1>1, <3>1, <3>2
  <2>2. s[m] = x
    BY DEF x
  <2> QED
    BY <1>1, <1>2, <1>3, <2>1, <2>2
<1>5. lines2 \in Seq(Seq(Char)) /\ Len(lines2) = m2
  <2>1. \A i \in 1..m2 : lines[i] \in Seq(Char)
    BY <1>1, ElementOfSeq
  <2>2. lines2 \in [1..m2 -> Seq(Char)]
    BY <2>1
  <2> HIDE DEF lines2, m2
  <2> QED
    BY <1>1, <2>2
<1>6. \A i \in 1..m2 : lines2[i] = lines[i] /\ i \in 1..m /\ i + 1 \in 1..m
  BY <1>1
<1>7. s2 \in [1..m -> 0..HISTSIZE]
  <2> SUFFICES ASSUME NEW i \in 1..m PROVE s[i] + (l + 1) \in 0..HISTSIZE
    BY Zenon
  <2> DEFINE y == s[i]
  <2>1. y \in 0..x
    BY <1>4
  <2> HIDE DEF y
  <2>2. y + (l + 1) \in 0..HISTSIZE
    BY <1>2, <1>3, <2>1
  <2> QED
    BY <2>2 DEF y
<1>8. \A i \in 1..m : s2[i] = s[i] + (l + 1)
  OBVIOUS
<1>9. s2[m] = HISTSIZE
  <2>1. s2[m] = x + (l + 1)
    BY <1>1, <1>8 DEF x
  <2> HIDE DEF s2
  <2> QED
    BY <1>2, <1>3, <2>1
<1> HIDE DEF lines2, s2, m2
<1>10. ASSUME NEW i \in 1..m2
       PROVE  /\ Len(lines2[i]) \in 1..LINESIZE
              /\ s2[i + 1] = s2[i] + Len(lines2[i]) + 1
              /\ w[s2[i] + Len(lines2[i])] = NUL
              /\ \A j \in 1..Len(lines2[i]) : w[s2[i] + j - 1] = lines2[i][j]
  <2> DEFINE line == lines[i]
             n == Len(line)
             y == s[i]
             z == s[i + 1]
  <2>1. i \in 1..m /\ i + 1 \in 1..m /\ lines2[i] = line
        /\ s2[i] = y + (l + 1) /\ s2[i + 1] = z + (l + 1)
    BY <1>6, <1>8
  <2>2. /\ n \in 1..LINESIZE /\ z = y + n + 1 /\ v[y + n] = NUL
        /\ \A j \in 1..n : v[y + j - 1] = line[j]
    BY <2>1, LaidAt
  <2>3. y \in 0..x /\ z \in 0..x
    BY <1>4, <2>1
  <2> HIDE DEF line, n, y, z
  <2>4. ASSUME NEW j \in 0..n
        PROVE  w[y + (l + 1) + j] = v[y + j]
    <3> DEFINE k == y + j
    <3>1. k \in 0..(x - 1) /\ l + 1 + k = y + (l + 1) + j
      BY <1>2, <1>3, <2>2, <2>3
    <3> HIDE DEF k
    <3>2. w[l + 1 + k] = v[k]
      BY <1>16, <3>1
    <3> QED
      BY <3>1, <3>2 DEF k
  <2>5. w[y + (l + 1) + n] = NUL
    BY <1>3, <2>2, <2>4
  <2>6. \A j \in 1..n : w[y + (l + 1) + j - 1] = line[j]
    <3> SUFFICES ASSUME NEW j \in 1..n PROVE w[y + (l + 1) + j - 1] = line[j]
      OBVIOUS
    <3> DEFINE h == j - 1
    <3>1. h \in 0..n /\ y + (l + 1) + h = y + (l + 1) + j - 1 /\ y + h = y + j - 1
      BY <1>2, <1>3, <2>2, <2>3
    <3> HIDE DEF h
    <3> QED
      BY <2>2, <2>4, <3>1
  <2>7. z + (l + 1) = y + (l + 1) + n + 1
    BY <1>2, <1>3, <2>2, <2>3
  <2> QED
    BY <2>1, <2>2, <2>5, <2>6, <2>7 DEF n
<1>11. /\ 1 \in 1..m /\ s2[1] = s[1] + (l + 1) /\ s[1] \in 0..x
  BY <1>1, <1>4, <1>8
<1>12. ASSUME NEW k \in 0..(l - 1)
       PROVE  w[k] # NUL
  <2> DEFINE j == k + 1
  <2>1. j \in 1..l /\ k \in 0..l /\ x + j - 1 = x + k
    BY <1>2, <1>3
  <2>2. v[x + j - 1] # NUL
    BY <1>2, <2>1
  <2> QED
    BY <1>16, <2>1, <2>2
<1>13. ASSUME NEW k \in l..(s2[1] - 1)
       PROVE  w[k] = NUL
  <2>1. CASE k = l
    BY <1>2, <1>3, <1>16, <2>1
  <2>2. CASE k # l
    <3> DEFINE h == k - (l + 1)
    <3>1. h \in 0..(x - 1) /\ h \in 0..(s[1] - 1) /\ l + 1 + h = k
      BY <1>2, <1>3, <1>11, <2>2
    <3>2. \A g \in 0..(s[1] - 1) : v[g] = NUL
      BY LaidIs
    <3> HIDE DEF h
    <3> QED
      BY <1>16, <3>1, <3>2
  <2> QED
    BY <2>1, <2>2
<1>14. Laid(w, lines2, s2, l)
  <2>1. l \in 0..s2[1] /\ l # s2[1]
    BY <1>2, <1>3, <1>11
  <2> QED
    BY <1>1, <1>5, <1>7, <1>9, <1>10, <1>12, <1>13, <2>1 DEF Laid
<1>15. Without1(lines2, lines)
  BY <1>5, <1>6 DEF Without1, m, m2
<1> QED
  BY <1>14, <1>15 DEF l

-----------------------------------------------------------------------------
(* The ring read from some place on *)

View(buf, p) == [k \in HistIndex |-> buf[Around(p, k)]]

(* Reading on from d further. *)
LEMMA ViewFrom ==
    ASSUME NEW buf, NEW p \in HistIndex, NEW d \in HistIndex, NEW k \in HistIndex
    PROVE  /\ Around(p, d) \in HistIndex
           /\ View(buf, Around(p, d))[k] = View(buf, p)[IF d + k < HISTSIZE THEN d + k
                                                         ELSE d + k - HISTSIZE]
           /\ (IF d + k < HISTSIZE THEN d + k ELSE d + k - HISTSIZE) \in HistIndex
<1> DEFINE q == Around(p, d)
           h == IF d + k < HISTSIZE THEN d + k ELSE d + k - HISTSIZE
<1>1. /\ HISTSIZE \in Nat /\ p \in 0..(HISTSIZE - 1) /\ d \in 0..(HISTSIZE - 1)
      /\ k \in 0..(HISTSIZE - 1) /\ d \in 0..HISTSIZE /\ k \in 0..HISTSIZE
  BY Sizes DEF HistIndex
<1>2. h \in HistIndex /\ h \in 0..HISTSIZE
  BY <1>1 DEF HistIndex
<1>3. q \in HistIndex /\ q = IF p + d < HISTSIZE THEN p + d ELSE p + d - HISTSIZE
  BY <1>1, AroundIs
<1> HIDE DEF q
<1>4. Around(q, k) = IF q + k < HISTSIZE THEN q + k ELSE q + k - HISTSIZE
  BY <1>1, <1>3, AroundIs
<1>5. (IF q + k < HISTSIZE THEN q + k ELSE q + k - HISTSIZE)
      = IF p + h < HISTSIZE THEN p + h ELSE p + h - HISTSIZE
  BY <1>1, <1>3
<1> HIDE DEF h
<1>6. Around(p, h) = IF p + h < HISTSIZE THEN p + h ELSE p + h - HISTSIZE
  BY <1>2, AroundIs
<1>7. Around(q, k) = Around(p, h)
  BY <1>4, <1>5, <1>6
<1>8. View(buf, q)[k] = buf[Around(q, k)] /\ View(buf, p)[h] = buf[Around(p, h)]
  BY <1>2 DEF View
<1> QED
  BY <1>2, <1>3, <1>7, <1>8 DEF q, h

(* Every place is somewhere from p on. *)
LEMMA ViewReaches ==
    ASSUME NEW p \in HistIndex, NEW i \in HistIndex
    PROVE  /\ Around(i, HISTSIZE - p) \in HistIndex
           /\ Around(p, Around(i, HISTSIZE - p)) = i
           /\ \A d \in HistIndex : Around(p, d) = i => Around(i, HISTSIZE - p) = d
<1> DEFINE k == HISTSIZE - p
           d == Around(i, k)
<1>1. /\ HISTSIZE \in Nat /\ p \in 0..(HISTSIZE - 1) /\ i \in 0..(HISTSIZE - 1)
      /\ k \in 0..HISTSIZE
  BY Sizes DEF HistIndex
<1>2. d \in HistIndex /\ d = IF i + k < HISTSIZE THEN i + k ELSE i + k - HISTSIZE
  BY <1>1, AroundIs
<1>3. d \in 0..HISTSIZE
  BY <1>1, <1>2
<1> HIDE DEF d
<1>4. Around(p, d) = IF p + d < HISTSIZE THEN p + d ELSE p + d - HISTSIZE
  BY <1>3, AroundIs
<1>5. Around(p, d) = i
  BY <1>1, <1>2, <1>4
<1>6. ASSUME NEW h \in HistIndex, Around(p, h) = i
      PROVE  d = h
  <2>1. h \in 0..(HISTSIZE - 1) /\ h \in 0..HISTSIZE
    BY <1>1 DEF HistIndex
  <2>2. i = IF p + h < HISTSIZE THEN p + h ELSE p + h - HISTSIZE
    BY <1>6, <2>1, AroundIs
  <2> QED
    BY <1>1, <1>2, <2>1, <2>2
<1> QED
  BY <1>2, <1>5, <1>6 DEF d, k

(* Going round twice. *)
LEMMA AroundTwice ==
    ASSUME NEW p \in HistIndex, NEW d \in HistIndex, NEW k \in 0..HISTSIZE
    PROVE  /\ d + k < HISTSIZE => Around(Around(p, d), k) = Around(p, d + k)
           /\ d + k >= HISTSIZE => Around(Around(p, d), k) = Around(p, d + k - HISTSIZE)
<1> DEFINE q == Around(p, d)
           h == IF d + k < HISTSIZE THEN d + k ELSE d + k - HISTSIZE
<1>1. /\ HISTSIZE \in Nat /\ p \in 0..(HISTSIZE - 1) /\ d \in 0..(HISTSIZE - 1)
      /\ k \in 0..HISTSIZE /\ d \in 0..HISTSIZE
  BY Sizes DEF HistIndex
<1>2. h \in 0..HISTSIZE
  BY <1>1
<1>3. q \in HistIndex /\ q = IF p + d < HISTSIZE THEN p + d ELSE p + d - HISTSIZE
  BY <1>1, AroundIs
<1> HIDE DEF q
<1>4. Around(q, k) = IF q + k < HISTSIZE THEN q + k ELSE q + k - HISTSIZE
  BY <1>1, <1>3, AroundIs
<1>5. (IF q + k < HISTSIZE THEN q + k ELSE q + k - HISTSIZE)
      = IF p + h < HISTSIZE THEN p + h ELSE p + h - HISTSIZE
  BY <1>1, <1>3
<1>6. Around(q, k) = Around(p, h)
  <2> HIDE DEF h
  <2>1. Around(p, h) = IF p + h < HISTSIZE THEN p + h ELSE p + h - HISTSIZE
    BY <1>2, AroundIs
  <2> QED
    BY <1>4, <1>5, <2>1
<1>7. d + k < HISTSIZE => h = d + k
  OBVIOUS
<1>8. d + k >= HISTSIZE => h = d + k - HISTSIZE
  BY <1>1
<1> HIDE DEF h
<1> QED
  BY <1>6, <1>7, <1>8 DEF q

(* One step forward, and one back. *)
LEMMA AroundSteps ==
    ASSUME NEW p \in HistIndex, NEW d \in HistIndex
    PROVE  /\ Around(p, 0) = p
           /\ d + 1 < HISTSIZE => HISTPTR_FORWARD(Around(p, d)) = Around(p, d + 1)
           /\ d > 0 => HISTPTR_BACKWARD(Around(p, d)) = Around(p, d - 1)
           /\ HISTPTR_BACKWARD(p) = Around(p, HISTSIZE - 1)
<1>1. /\ HISTSIZE \in Nat /\ p \in 0..(HISTSIZE - 1) /\ d \in 0..(HISTSIZE - 1)
      /\ d \in 0..HISTSIZE /\ HISTSIZE > 3
  BY Sizes DEF HistIndex
<1> DEFINE q == Around(p, d)
<1>2. q \in HistIndex /\ q = IF p + d < HISTSIZE THEN p + d ELSE p + d - HISTSIZE
  BY <1>1, AroundIs
<1> HIDE DEF q
<1>3. Around(p, 0) = p
  <2>1. 0 \in 0..HISTSIZE /\ p + 0 = p /\ p < HISTSIZE
    BY <1>1
  <2> QED
    BY <2>1, AroundIs
<1>4. ASSUME d + 1 < HISTSIZE
      PROVE  HISTPTR_FORWARD(q) = Around(p, d + 1)
  <2> DEFINE k == d + 1
  <2>1. k \in 0..HISTSIZE
    BY <1>1, <1>4
  <2>2. HISTPTR_FORWARD(q) = IF p + k < HISTSIZE THEN p + k ELSE p + k - HISTSIZE
    BY <1>1, <1>2, <1>4 DEF HISTPTR_FORWARD
  <2> HIDE DEF k
  <2>3. HISTPTR_FORWARD(q) = Around(p, k)
    BY <2>1, <2>2, AroundIs
  <2> QED
    BY <2>3 DEF k
<1>5. ASSUME d > 0
      PROVE  HISTPTR_BACKWARD(q) = Around(p, d - 1)
  <2> DEFINE k == d - 1
  <2>1. k \in 0..HISTSIZE
    BY <1>1, <1>5
  <2>2. HISTPTR_BACKWARD(q) = IF p + k < HISTSIZE THEN p + k ELSE p + k - HISTSIZE
    BY <1>1, <1>2, <1>5 DEF HISTPTR_BACKWARD
  <2> HIDE DEF k
  <2>3. HISTPTR_BACKWARD(q) = Around(p, k)
    BY <2>1, <2>2, AroundIs
  <2> QED
    BY <2>3 DEF k
<1>6. HISTPTR_BACKWARD(p) = Around(p, HISTSIZE - 1)
  <2> DEFINE k == HISTSIZE - 1
  <2>1. k \in 0..HISTSIZE
    BY <1>1
  <2>2. HISTPTR_BACKWARD(p) = IF p + k < HISTSIZE THEN p + k ELSE p + k - HISTSIZE
    BY <1>1 DEF HISTPTR_BACKWARD
  <2> HIDE DEF k
  <2>3. HISTPTR_BACKWARD(p) = Around(p, k)
    BY <2>1, <2>2, AroundIs
  <2> QED
    BY <2>3 DEF k
<1> QED
  BY <1>3, <1>4, <1>5, <1>6 DEF q

(* A NUL lies before every line. *)
LEMMA NulBefore ==
    ASSUME NEW v, NEW lines, NEW s, NEW a, Laid(v, lines, s, a),
           NEW i \in 1..(Len(lines) + 1), s[i] > 0
    PROVE  v[s[i] - 1] = NUL
<1> DEFINE m == Len(lines)
<1>1. /\ m \in Nat /\ s \in [1..(m + 1) -> 0..HISTSIZE] /\ HISTSIZE \in Nat
  BY LaidIs, Sizes
<1>2. CASE i = 1
  <2>1. /\ a \in 0..s[1] /\ (a = s[1] => a = 0) /\ s[1] \in 0..HISTSIZE
        /\ \A k \in a..(s[1] - 1) : v[k] = NUL
    BY LaidIs
  <2>2. s[1] - 1 \in a..(s[1] - 1)
    BY <1>1, <1>2, <2>1
  <2> QED
    BY <1>2, <2>1, <2>2
<1>3. CASE i # 1
  <2> DEFINE j == i - 1
             l == Len(lines[j])
             x == s[j]
             y == s[i]
  <2>1. j \in 1..m /\ i = j + 1
    BY <1>1, <1>3
  <2> HIDE DEF j
  <2>2. y = x + l + 1 /\ v[x + l] = NUL /\ x \in 0..HISTSIZE /\ l \in 1..LINESIZE
    <3> HIDE DEF l, x, y
    <3>1. /\ s[j] \in 0..HISTSIZE /\ Len(lines[j]) \in 1..LINESIZE
          /\ s[j + 1] = s[j] + Len(lines[j]) + 1 /\ v[s[j] + Len(lines[j])] = NUL
      BY <2>1, LaidAt DEF m
    <3> QED
      BY <2>1, <3>1 DEF l, x, y
  <2> HIDE DEF l, x, y
  <2>3. y - 1 = x + l
    BY <1>1, <2>2, Sizes
  <2>4. v[y - 1] = NUL
    BY <2>2, <2>3
  <2> QED
    BY <2>4 DEF y
<1> QED
  BY <1>2, <1>3

(* What LineBefore finds is the last line. *)
LEMMA LineBeforeIsLast ==
    ASSUME NEW buf, NEW ptr \in HistIndex, NEW lines, NEW s,
           NEW a, Laid(View(buf, ptr), lines, s, a), Len(lines) > 0
    PROVE  LineBefore(buf, ptr) = Around(ptr, s[Len(lines)]) /\ s[Len(lines)] \in HistIndex
<1> DEFINE v == View(buf, ptr)
           m == Len(lines)
           x == s[m]
           l == Len(lines[m])
           far == HISTSIZE - 2
           last == HISTPTR_BACKWARD(HISTPTR_BACKWARD(ptr))
           S == {n \in HistIndex : buf[Around(last, HISTSIZE - n)] = NUL}
<1>1. HISTSIZE \in Nat /\ LINESIZE \in Nat /\ HISTSIZE >= LINESIZE + LINESIZE + 2 /\ LINESIZE > 0
  BY Sizes
<1>2. m \in Nat /\ m \in 1..m /\ s[m + 1] = HISTSIZE
  BY LaidIs
<1>3. /\ x \in 0..HISTSIZE /\ l \in 1..LINESIZE /\ HISTSIZE = x + l + 1
      /\ \A j \in 1..l : v[x + j - 1] # NUL
  <2> HIDE DEF v, x, l
  <2> DEFINE i == m
  <2>1. i \in 1..Len(lines) /\ i = m
    BY <1>2
  <2> HIDE DEF i
  <2>2. /\ s[i] \in 0..HISTSIZE /\ Len(lines[i]) \in 1..LINESIZE
        /\ s[i + 1] = s[i] + Len(lines[i]) + 1
        /\ \A j \in 1..Len(lines[i]) : v[s[i] + j - 1] = lines[i][j] /\ lines[i][j] # NUL
    BY <2>1, LaidAt DEF v
  <2> HIDE DEF m
  <2>3. /\ s[m] \in 0..HISTSIZE /\ Len(lines[m]) \in 1..LINESIZE
        /\ s[m + 1] = s[m] + Len(lines[m]) + 1
        /\ \A j \in 1..Len(lines[m]) : v[s[m] + j - 1] # NUL
    BY <2>1, <2>2
  <2> QED
    BY <1>2, <2>3 DEF x, l
<1> HIDE DEF x, l, v, m
<1>4. x > 0 /\ x - 1 \in HistIndex /\ x \in HistIndex /\ l \in HistIndex /\ far \in HistIndex
  BY <1>1, <1>3 DEF HistIndex
<1>5. v[x - 1] = NUL
  <2>1. m \in 1..(m + 1) /\ s[m] > 0
    BY <1>2, <1>4 DEF x
  <2>2. v[s[m] - 1] = NUL
    BY <2>1, NulBefore DEF v, m
  <2> QED
    BY <2>2 DEF x
<1>6. last = Around(ptr, far) /\ last \in HistIndex
  <2> DEFINE d == HISTSIZE - 1
             b == HISTPTR_BACKWARD(ptr)
  <2>1. d \in HistIndex /\ d > 0 /\ d - 1 = far
    BY <1>1 DEF HistIndex
  <2>2. b = Around(ptr, d)
    BY <2>1, AroundSteps
  <2>3. HISTPTR_BACKWARD(Around(ptr, d)) = Around(ptr, d - 1)
    <3> HIDE DEF d, b, far
    <3> QED
      BY <2>1, AroundSteps
  <2>4. b \in HistIndex /\ HISTPTR_BACKWARD(b) \in HistIndex
    BY StepIs
  <2> HIDE DEF far, d, b
  <2> QED
    BY <2>1, <2>2, <2>3, <2>4 DEF b
<1>7. ASSUME NEW n \in 0..l
      PROVE  /\ far - n \in HistIndex /\ far - n = x + l - 1 - n
             /\ Around(last, HISTSIZE - n) = Around(ptr, far - n)
  <2> DEFINE k == HISTSIZE - n
  <2>1. k \in 0..HISTSIZE /\ far + k - HISTSIZE = far - n /\ far + k >= HISTSIZE
        /\ far - n \in HistIndex /\ far - n = x + l - 1 - n
    BY <1>1, <1>3, <1>4 DEF HistIndex
  <2> HIDE DEF far, k
  <2>2. Around(Around(ptr, far), k) = Around(ptr, far + k - HISTSIZE)
    BY <1>4, <2>1, AroundTwice
  <2> QED
    BY <1>6, <2>1, <2>2 DEF k
<1>8. ASSUME NEW n \in 0..l
      PROVE  buf[Around(last, HISTSIZE - n)] = v[x + l - 1 - n]
  <2> HIDE DEF far, last
  <2>1. v[far - n] = buf[Around(ptr, far - n)]
    BY <1>7 DEF View, v
  <2> QED
    BY <1>7, <2>1
<1>9. l \in S
  <2>1. l \in 0..l /\ x + l - 1 - l = x - 1
    BY <1>1, <1>3
  <2> HIDE DEF last
  <2>2. buf[Around(last, HISTSIZE - l)] = v[x - 1]
    BY <1>8, <2>1
  <2> QED
    BY <1>4, <1>5, <2>2
<1>10. ASSUME NEW n \in S, n < l
       PROVE  FALSE
  <2>1. n \in 0..l /\ n \in Nat
    BY <1>1, <1>3, <1>10 DEF HistIndex
  <2> DEFINE j == l - n
  <2>2. j \in 1..l /\ x + j - 1 = x + l - 1 - n
    BY <1>1, <1>3, <1>10, <2>1
  <2> HIDE DEF last, j
  <2>3. buf[Around(last, HISTSIZE - n)] = v[x + j - 1]
    BY <1>8, <2>1, <2>2
  <2>4. v[x + j - 1] # NUL
    BY <1>3, <2>2
  <2> QED
    BY <1>10, <2>3, <2>4
<1>11. BackToNul(buf, last) = l
  <2>1. S \in SUBSET Nat /\ S # {}
    BY <1>9, Sizes
  <2>2. BackToNul(buf, last) = Min(S)
    BY DEF BackToNul
  <2> HIDE DEF S
  <2>3. Min(S) \in S /\ \A y \in S : Min(S) <= y
    BY <2>1, LeastIs
  <2>4. Min(S) \in Nat /\ Min(S) <= l /\ ~(Min(S) < l)
    BY <1>9, <1>10, <2>1, <2>3
  <2>5. l \in Nat
    BY <1>1, <1>3
  <2> QED
    BY <2>2, <2>4, <2>5
<1>12. LineBefore(buf, ptr) = Around(ptr, x)
  <2> DEFINE d == x - 1
  <2>1. l \in 0..l /\ far - l = d /\ d \in HistIndex /\ d + 1 < HISTSIZE /\ d + 1 = x
    BY <1>1, <1>3, <1>4
  <2>2. LineBefore(buf, ptr) = HISTPTR_FORWARD(Around(last, HISTSIZE - l))
    BY <1>11 DEF LineBefore
  <2>3. Around(last, HISTSIZE - l) = Around(ptr, d)
    <3> HIDE DEF last, far, d
    <3> QED
      BY <1>7, <2>1
  <2> HIDE DEF d, last, far
  <2>4. HISTPTR_FORWARD(Around(ptr, d)) = Around(ptr, d + 1)
    BY <2>1, AroundSteps
  <2> QED
    BY <2>1, <2>2, <2>3, <2>4
<1> QED
  BY <1>4, <1>12 DEF x, m

(* The ring read from there. *)
LEMMA LastIsFirst ==
    ASSUME NEW buf, NEW ptr \in HistIndex, NEW x \in HistIndex, NEW l \in HistIndex,
           HISTSIZE = x + l + 1
    PROVE  FromLast(View(buf, Around(ptr, x)), View(buf, ptr), x, l)
<1> DEFINE v == View(buf, ptr)
           w == View(buf, Around(ptr, x))
<1>1. /\ HISTSIZE \in Nat /\ x \in 0..(HISTSIZE - 1) /\ l \in 0..(HISTSIZE - 1)
  BY Sizes DEF HistIndex
<1>2. ASSUME NEW k \in HistIndex
      PROVE  w[k] = v[IF x + k < HISTSIZE THEN x + k ELSE x + k - HISTSIZE]
  BY ViewFrom
<1> HIDE DEF v, w
<1>3. ASSUME NEW k \in 0..l
      PROVE  w[k] = v[x + k]
  <2>1. k \in HistIndex /\ x + k < HISTSIZE
    BY <1>1 DEF HistIndex
  <2> QED
    BY <1>2, <2>1
<1>4. ASSUME NEW k \in 0..(x - 1)
      PROVE  w[l + 1 + k] = v[k]
  <2> DEFINE h == l + 1 + k
  <2>1. h \in HistIndex /\ ~(x + h < HISTSIZE) /\ x + h - HISTSIZE = k
    BY <1>1 DEF HistIndex
  <2> HIDE DEF h
  <2>2. w[h] = v[k]
    BY <1>2, <2>1
  <2> QED
    BY <2>2 DEF h
<1>5. FromLast(w, v, x, l)
  BY <1>3, <1>4 DEF FromLast
<1> QED
  BY <1>5 DEF v, w

(* A place in the ring. *)
LEMMA AroundIn ==
    ASSUME NEW p \in HistIndex, NEW k \in HistIndex
    PROVE  Around(p, k) \in HistIndex
<1>1. k \in 0..HISTSIZE
  BY Sizes DEF HistIndex
<1> QED
  BY <1>1, AroundIs

(* What addhist writes at start, and what it leaves of the ring. *)
Written(buf, start, entry) ==
    [i \in HistIndex |-> IF Around(i, HISTSIZE - start) < Len(entry)
                         THEN entry[Around(i, HISTSIZE - start) + 1] ELSE buf[i]]
Rewritten(buf, start, entry) ==
    LET end == Around(start, Len(entry))
        written == Written(buf, start, entry)
        oldest == {Around(end, n) : n \in 0..ToNul(written, end)}
    IN  [i \in HistIndex |-> IF i \in oldest THEN NUL ELSE written[i]]

(* Seen from start, that is the text, and what was there behind it. *)
LEMMA WrittenIs ==
    ASSUME NEW buf, NEW start \in HistIndex, NEW entry, Len(entry) \in Nat, NEW k \in HistIndex
    PROVE  Written(buf, start, entry)[Around(start, k)]
           = IF k < Len(entry) THEN entry[k + 1] ELSE View(buf, start)[k]
<1> DEFINE i == Around(start, k)
<1>1. i \in HistIndex
  BY AroundIn
<1>2. Around(i, HISTSIZE - start) = k
  <2> HIDE DEF i
  <2>1. \A d \in HistIndex : Around(start, d) = i => Around(i, HISTSIZE - start) = d
    BY <1>1, ViewReaches
  <2> QED
    BY <2>1 DEF i
<1>3. View(buf, start)[k] = buf[i]
  BY DEF View
<1> HIDE DEF i
<1>4. Written(buf, start, entry)[i]
      = IF Around(i, HISTSIZE - start) < Len(entry)
        THEN entry[Around(i, HISTSIZE - start) + 1] ELSE buf[i]
  BY <1>1 DEF Written
<1>5. Written(buf, start, entry)[i] = IF k < Len(entry) THEN entry[k + 1] ELSE buf[i]
  BY <1>2, <1>4
<1> QED
  BY <1>3, <1>5 DEF i

(* From start on, new is the text, NULs up to the first one that v has behind the
   text, and v. *)
Overwrites(new, v, start, entry, t) ==
    LET n == Len(entry)
    IN  /\ t \in HistIndex /\ t >= n /\ v[t] = NUL
        /\ \A k \in n..(t - 1) : v[k] # NUL
        /\ \A k \in HistIndex :
              new[Around(start, k)]
              = IF k < n THEN entry[k + 1] ELSE IF k <= t THEN NUL ELSE v[k]

(* Behind the text everything is NUL up to the first NUL that was there. *)
LEMMA RewrittenIs ==
    ASSUME NEW buf, NEW start \in HistIndex, NEW entry, NEW n, n = Len(entry), n \in 1..LINESIZE,
           View(buf, start)[HISTSIZE - 1] = NUL
    PROVE  \E t : Overwrites(Rewritten(buf, start, entry), View(buf, start), start, entry, t)
<1> DEFINE v == View(buf, start)
           written == Written(buf, start, entry)
           end == Around(start, n)
           S == {j \in HistIndex : written[Around(end, j)] = NUL}
           j0 == ToNul(written, end)
           t == n + j0
           oldest == {Around(end, j) : j \in 0..j0}
<1>1. /\ HISTSIZE \in Nat /\ LINESIZE \in Nat /\ HISTSIZE >= LINESIZE + LINESIZE + 2
      /\ n \in Nat /\ n >= 1 /\ n <= LINESIZE /\ n < HISTSIZE
  BY Sizes
<1>2. \A k \in HistIndex : written[Around(start, k)] = IF k < n THEN entry[k + 1] ELSE v[k]
  BY <1>1, WrittenIs
<1> HIDE DEF v, written
<1>3. n \in HistIndex /\ end \in HistIndex
  <2>1. n \in HistIndex /\ n \in 0..HISTSIZE
    BY <1>1 DEF HistIndex
  <2> QED
    BY <2>1, AroundIs
<1>4. ASSUME NEW j \in HistIndex
      PROVE  /\ n + j < HISTSIZE => n + j \in HistIndex /\ Around(end, j) = Around(start, n + j)
             /\ ~(n + j < HISTSIZE) =>
                    /\ n + j - HISTSIZE \in HistIndex /\ n + j - HISTSIZE < n
                    /\ Around(end, j) = Around(start, n + j - HISTSIZE)
  <2>1. j \in 0..HISTSIZE /\ j \in Nat /\ j < HISTSIZE
    BY <1>1 DEF HistIndex
  <2>2. /\ n + j < HISTSIZE => n + j \in HistIndex
        /\ ~(n + j < HISTSIZE) => n + j >= HISTSIZE /\ n + j - HISTSIZE \in HistIndex
                                  /\ n + j - HISTSIZE < n
    BY <1>1, <2>1 DEF HistIndex
  <2>3. /\ n + j < HISTSIZE => Around(Around(start, n), j) = Around(start, n + j)
        /\ n + j >= HISTSIZE => Around(Around(start, n), j) = Around(start, n + j - HISTSIZE)
    BY <1>3, <2>1, AroundTwice
  <2> QED
    BY <2>2, <2>3
<1> HIDE DEF end
<1>5. ASSUME NEW k \in HistIndex, k >= n
      PROVE  k - n \in HistIndex /\ written[Around(end, k - n)] = v[k]
  <2> DEFINE j == k - n
  <2>1. j \in HistIndex /\ n + j = k /\ k < HISTSIZE /\ ~(k < n)
    BY <1>1, <1>5 DEF HistIndex
  <2> HIDE DEF j
  <2>2. Around(end, j) = Around(start, k)
    BY <1>4, <2>1
  <2> QED
    BY <1>2, <2>1, <2>2 DEF j
<1>6. /\ j0 \in HistIndex /\ written[Around(end, j0)] = NUL
      /\ \A j \in HistIndex : written[Around(end, j)] = NUL => j0 <= j
      /\ j0 <= HISTSIZE - 1 - n
  <2> DEFINE k == HISTSIZE - 1
             j == k - n
  <2>1. k \in HistIndex /\ k >= n
    BY <1>1 DEF HistIndex
  <2>2. v[k] = NUL
    BY DEF v
  <2> HIDE DEF k
  <2>3. j \in HistIndex /\ written[Around(end, j)] = NUL
    BY <1>5, <2>1, <2>2
  <2> HIDE DEF j
  <2>4. Around(end, j) \in HistIndex
    BY <1>3, <2>3, AroundIn
  <2>5. /\ j0 \in HistIndex /\ written[Around(end, j0)] = NUL
        /\ \A h \in HistIndex : written[Around(end, h)] = NUL => j0 <= h
    BY <1>3, <2>3, <2>4, ToNulIs
  <2>6. j0 <= j
    BY <2>3, <2>5
  <2> QED
    BY <2>5, <2>6 DEF j, k
<1> HIDE DEF j0
<1>7. /\ t \in HistIndex /\ t >= n /\ t - n = j0 /\ j0 \in Nat /\ t < HISTSIZE
  BY <1>1, <1>6 DEF HistIndex
<1>8. v[t] = NUL
  BY <1>5, <1>6, <1>7
<1>9. ASSUME NEW k \in n..(t - 1)
      PROVE  v[k] # NUL
  <2>1. k \in HistIndex /\ k >= n /\ ~(j0 <= k - n)
    BY <1>1, <1>7 DEF HistIndex
  <2> QED
    BY <1>5, <1>6, <2>1
<1>10. ASSUME NEW k \in HistIndex
       PROVE  Around(start, k) \in oldest <=> k \in n..t
  <2>1. ASSUME k \in n..t
        PROVE  Around(start, k) \in oldest
    <3> DEFINE j == k - n
    <3>1. j \in 0..j0 /\ j \in HistIndex /\ n + j = k /\ k < HISTSIZE
      BY <1>1, <1>7, <2>1 DEF HistIndex
    <3> HIDE DEF j
    <3>2. Around(end, j) = Around(start, k)
      BY <1>4, <3>1
    <3> QED
      BY <3>1, <3>2
  <2>2. ASSUME NEW j \in 0..j0, Around(start, k) = Around(end, j)
        PROVE  k \in n..t
    <3> DEFINE h == n + j
    <3>1. j \in HistIndex /\ h < HISTSIZE /\ h \in n..t
      BY <1>1, <1>7 DEF HistIndex
    <3>2. h \in HistIndex /\ Around(end, j) = Around(start, h)
      BY <1>4, <3>1
    <3> HIDE DEF h
    <3>3. h = k
      <4> DEFINE i == Around(start, k)
      <4>1. i \in HistIndex
        BY AroundIn
      <4>2. Around(start, h) = i
        BY <2>2, <3>2
      <4> HIDE DEF i
      <4>3. \A d \in HistIndex : Around(start, d) = i => Around(i, HISTSIZE - start) = d
        BY <4>1, ViewReaches
      <4> QED
        BY <3>2, <4>2, <4>3 DEF i
    <3> QED
      BY <3>1, <3>3
  <2> QED
    BY <2>1, <2>2
<1> HIDE DEF oldest
<1>11. ASSUME NEW k \in HistIndex
       PROVE  Rewritten(buf, start, entry)[Around(start, k)]
              = IF k < n THEN entry[k + 1] ELSE IF k <= t THEN NUL ELSE v[k]
  <2> DEFINE i == Around(start, k)
  <2>1. i \in HistIndex
    BY AroundIn
  <2>2. written[i] = IF k < n THEN entry[k + 1] ELSE v[k]
    BY <1>2
  <2>3. i \in oldest <=> k \in n..t
    BY <1>10
  <2> HIDE DEF i
  <2>4. Rewritten(buf, start, entry) = [x \in HistIndex |-> IF x \in oldest THEN NUL ELSE written[x]]
    BY Zenon DEF Rewritten, oldest, j0, end, written
  <2>5. Rewritten(buf, start, entry)[i] = IF i \in oldest THEN NUL ELSE written[i]
    BY <2>1, <2>4
  <2>6. k \in n..t <=> ~(k < n) /\ k <= t
    BY <1>1, <1>7 DEF HistIndex
  <2> QED
    BY <2>2, <2>3, <2>5, <2>6 DEF i
<1> DEFINE new == Rewritten(buf, start, entry)
<1> HIDE DEF t, new
<1>12. Overwrites(new, v, start, entry, t)
  BY <1>7, <1>8, <1>9, <1>11 DEF Overwrites, new
<1> QED
  BY <1>12 DEF v, new

(* And that is what addhist makes of it. *)
LEMMA RewrittenWrites ==
    ASSUME NEW buf, NEW start \in HistIndex, NEW entry, Len(entry) \in 1..LINESIZE,
           View(buf, start)[HISTSIZE - 1] = NUL,
           NEW w, w = View(Rewritten(buf, start, entry),
                           HISTPTR_FORWARD(Around(start, Len(entry))))
    PROVE  \E t \in HistIndex :
                /\ t >= Len(entry) /\ View(buf, start)[t] = NUL
                /\ \A k \in Len(entry)..(t - 1) : View(buf, start)[k] # NUL
                /\ Writes(w, View(buf, start), entry, t)
<1> DEFINE v == View(buf, start)
           n == Len(entry)
           new == Rewritten(buf, start, entry)
           u == View(new, start)
           d == n + 1
<1>1. /\ HISTSIZE \in Nat /\ LINESIZE \in Nat /\ HISTSIZE >= LINESIZE + LINESIZE + 2
      /\ n \in Nat /\ n >= 1 /\ n <= LINESIZE
  BY Sizes
<1>11. PICK t : Overwrites(new, v, start, entry, t)
  <2> HIDE DEF new, v
  <2>1. \E t : Overwrites(Rewritten(buf, start, entry), View(buf, start), start, entry, t)
    <3> HIDE DEF n
    <3>1. n = Len(entry) /\ n \in 1..LINESIZE
      BY DEF n
    <3> QED
      BY <3>1, RewrittenIs
  <2> QED
    BY <2>1 DEF new, v
<1>2. /\ t \in HistIndex /\ t >= n /\ v[t] = NUL
      /\ \A k \in n..(t - 1) : v[k] # NUL
      /\ \A k \in HistIndex :
            new[Around(start, k)]
            = IF k < n THEN entry[k + 1] ELSE IF k <= t THEN NUL ELSE v[k]
  <2> HIDE DEF new, v
  <2> QED
    BY <1>11 DEF Overwrites
<1>3. \A k \in HistIndex :
            u[k] = IF k < n THEN entry[k + 1] ELSE IF k <= t THEN NUL ELSE v[k]
  <2>1. \A k \in HistIndex : u[k] = new[Around(start, k)]
    BY DEF View
  <2> HIDE DEF u, new, v
  <2> QED
    BY <1>2, <2>1
<1>4. n \in HistIndex /\ d \in HistIndex /\ n + 1 < HISTSIZE
  BY <1>1 DEF HistIndex
<1>5. HISTPTR_FORWARD(Around(start, n)) = Around(start, d)
  BY <1>4, AroundSteps
<1>6. ASSUME NEW k \in HistIndex
      PROVE  w[k] = u[IF d + k < HISTSIZE THEN d + k ELSE d + k - HISTSIZE]
  <2> HIDE DEF d, new
  <2> QED
    BY <1>4, <1>5, ViewFrom DEF new
<1> HIDE DEF u, new, v
<1>7. ASSUME NEW j \in 1..n
      PROVE  w[HISTSIZE - 2 - n + j] = entry[j]
  <2> DEFINE k == HISTSIZE - 2 - n + j
             h == j - 1
  <2>1. k \in HistIndex /\ d + k >= HISTSIZE /\ d + k - HISTSIZE = h /\ h \in HistIndex /\ h < n
        /\ h + 1 = j /\ ~(d + k < HISTSIZE)
    BY <1>1 DEF HistIndex
  <2> HIDE DEF k, h, d
  <2>2. w[k] = u[h]
    BY <1>6, <2>1
  <2>3. u[h] = entry[j]
    BY <1>3, <2>1
  <2> QED
    BY <2>2, <2>3 DEF k
<1>8. w[HISTSIZE - 1] = NUL
  <2> DEFINE k == HISTSIZE - 1
  <2>1. k \in HistIndex /\ d + k - HISTSIZE = n /\ ~(d + k < HISTSIZE)
    BY <1>1 DEF HistIndex
  <2> HIDE DEF k, d
  <2>2. w[k] = u[n]
    BY <1>6, <2>1
  <2>3. u[n] = NUL
    BY <1>1, <1>2, <1>3, <1>4
  <2> QED
    BY <2>2, <2>3 DEF k
<1>9. ASSUME NEW k \in 0..(HISTSIZE - 2 - n)
      PROVE  w[k] = IF k + n + 1 <= t THEN NUL ELSE v[k + n + 1]
  <2> DEFINE h == k + n + 1
  <2>1. k \in HistIndex /\ d + k < HISTSIZE /\ d + k = h /\ h \in HistIndex /\ ~(h < n)
    BY <1>1 DEF HistIndex
  <2> HIDE DEF h, d
  <2>2. w[k] = u[h]
    BY <1>6, <2>1
  <2>3. u[h] = IF h <= t THEN NUL ELSE v[h]
    BY <1>3, <2>1
  <2> QED
    BY <2>2, <2>3 DEF h
<1>10. Writes(w, v, entry, t)
  BY <1>7, <1>8, <1>9 DEF Writes
<1> QED
  BY <1>2, <1>10 DEF v

-----------------------------------------------------------------------------
(* The lines that were kept *)

(* lines are the last ones of those that were kept. *)
Ends(lines, k) ==
    /\ Len(lines) <= Len(k)
    /\ \A i \in 1..Len(lines) : lines[i] = k[Len(k) - Len(lines) + i]

(* The ring before ptr holds the last lines of k, all of them or at least one; when
   the last is pending, it can be taken back: there is another one before it, and
   nothing at ptr. *)
RingKeeps(buf, ptr, pending, k) ==
    /\ k \in Seq(Seq(Char)) /\ Len(k) <= MaxKept
    /\ pending => Len(k) >= 1
    /\ \E lines, s, a :
          /\ Laid(View(buf, ptr), lines, s, a) /\ Ends(lines, k)
          /\ Len(lines) = Len(k) \/ Len(lines) >= (IF pending THEN 2 ELSE 1)
          /\ pending => a = 0

(* Half the ring. *)
LEMMA MaxKeptIs ==
    /\ MaxKept \in Nat /\ MaxKept >= 2
    /\ \A m \in Nat : m + m <= HISTSIZE => m <= MaxKept
<1>1. HISTSIZE \in Nat /\ HISTSIZE >= 4
  BY Sizes
<1> QED
  BY <1>1 DEF MaxKept

(* No more lines than that are in the ring. *)
LEMMA LaidFew ==
    ASSUME NEW v, NEW lines, NEW s, NEW a, Laid(v, lines, s, a)
    PROVE  Len(lines) <= MaxKept
<1> DEFINE m == Len(lines)
           i == 1
           j == m + 1
<1>1. /\ m \in Nat /\ s[j] = HISTSIZE /\ s[1] \in 0..HISTSIZE
      /\ i \in 1..(Len(lines) + 1) /\ j \in i..(Len(lines) + 1)
  BY LaidIs
<1>2. s[i] + (j - i) + (j - i) <= s[j]
  <2> HIDE DEF i, j
  <2> QED
    BY <1>1, LaidRises
<1>3. m + m <= HISTSIZE
  BY <1>1, <1>2, Sizes
<1> HIDE DEF m
<1> QED
  BY <1>1, <1>3, MaxKeptIs DEF m

(* The newest lines are at the end. *)
LEMMA NewestIs ==
    ASSUME NEW q \in Seq(Seq(Char))
    PROVE  /\ Newest(q) \in Seq(Seq(Char)) /\ Len(Newest(q)) <= MaxKept
           /\ Len(Newest(q)) = IF Len(q) <= MaxKept THEN Len(q) ELSE MaxKept
           /\ \A i \in 1..Len(Newest(q)) : Newest(q)[i] = q[Len(q) - Len(Newest(q)) + i]
<1> DEFINE n == Len(q)
           k == n - MaxKept + 1
           f == Max({1, k})
           r == SubSeq(q, f, n)
<1>1. n \in Nat /\ MaxKept \in Nat /\ MaxKept >= 2 /\ k \in Int
  BY MaxKeptIs
<1>2. f = IF k >= 1 THEN k ELSE 1
  <2> HIDE DEF k
  <2>1. \A x, y \in Int : Max({x, y}) = IF y >= x THEN y ELSE x
    <3> SUFFICES ASSUME NEW x \in Int, NEW y \in Int
                 PROVE  Max({x, y}) = IF y >= x THEN y ELSE x
      OBVIOUS
    <3> DEFINE z == IF y >= x THEN y ELSE x
    <3>1. z \in {x, y} /\ \A h \in {x, y} : z >= h
      OBVIOUS
    <3>2. \A g \in {x, y} : (\A h \in {x, y} : g >= h) => g = z
      OBVIOUS
    <3> HIDE DEF z
    <3>3. Max({x, y}) = CHOOSE g \in {x, y} : \A h \in {x, y} : g >= h
      BY DEF Max
    <3>4. Max({x, y}) = z
      BY <3>1, <3>2, <3>3
    <3> QED
      BY <3>4 DEF z
  <2> QED
    BY <1>1, <2>1
<1>3. Newest(q) = r
  BY DEF Newest
<1> HIDE DEF f, n
<1>4. f \in 1..(n + 1) /\ n - f + 1 = IF n <= MaxKept THEN n ELSE MaxKept
  BY <1>1, <1>2
<1>5. r \in Seq(Seq(Char)) /\ Len(r) = n - f + 1
  BY <1>1, <1>4 DEF n
<1>6. \A i \in 1..Len(r) : r[i] = q[f + i - 1]
  BY <1>1, <1>4, <1>5 DEF n
<1> HIDE DEF r
<1>7. \A i \in 1..Len(r) : f + i - 1 = n - Len(r) + i
  BY <1>1, <1>4, <1>5
<1>8. \A i \in 1..Len(r) : r[i] = q[n - Len(r) + i]
  BY <1>6, <1>7
<1>9. Len(r) <= MaxKept
  BY <1>1, <1>4, <1>5
<1> QED
  BY <1>3, <1>4, <1>5, <1>8, <1>9 DEF n

(* A line that is added is the last one kept. *)
LEMMA AddedEnds ==
    ASSUME NEW k \in Seq(Seq(Char)), NEW entry \in Seq(Char),
           NEW lines \in Seq(Seq(Char)), Ends(lines, k), NEW lines2, Added(lines2, lines, entry),
           Len(lines2) <= MaxKept
    PROVE  Ends(lines2, Newest(Append(k, entry)))
<1> DEFINE q == Append(k, entry)
           r == Newest(q)
           n == Len(k)
           m == Len(lines)
           m2 == Len(lines2)
           x == Len(r)
<1>1. /\ n \in Nat /\ m \in Nat /\ m <= n /\ m2 \in 1..(m + 1) /\ lines2[m2] = entry
      /\ \A i \in 1..m : lines[i] = k[n - m + i]
      /\ \A i \in 1..(m2 - 1) : lines2[i] = lines[(m + 1 - m2) + i]
  BY DEF Ends, Added
<1>2. /\ q \in Seq(Seq(Char)) /\ Len(q) = n + 1 /\ q[n + 1] = entry
      /\ \A i \in 1..n : q[i] = k[i]
  BY <1>1
<1> HIDE DEF q
<1>3. /\ x = (IF n + 1 <= MaxKept THEN n + 1 ELSE MaxKept)
      /\ \A i \in 1..x : r[i] = q[(n + 1) - x + i]
  <2> HIDE DEF n, r, x
  <2>1. /\ Len(Newest(q)) = IF Len(q) <= MaxKept THEN Len(q) ELSE MaxKept
        /\ \A i \in 1..Len(Newest(q)) : Newest(q)[i] = q[Len(q) - Len(Newest(q)) + i]
    BY <1>2, NewestIs
  <2>2. Len(Newest(q)) = x /\ Newest(q) = r /\ Len(q) = n + 1
    BY <1>2 DEF x, r, n
  <2> QED
    BY <2>1, <2>2
<1> HIDE DEF r, n, m, m2, x
<1>4. m2 <= x /\ MaxKept \in Nat /\ x \in Nat /\ x <= n + 1
  BY <1>1, <1>3, MaxKeptIs DEF m2
<1>5. ASSUME NEW i \in 1..m2
      PROVE  lines2[i] = r[x - m2 + i]
  <2> DEFINE h == x - m2 + i
             g == n + 1 - m2 + i
  <2>1. h \in 1..x /\ (n + 1) - x + h = g
    BY <1>1, <1>4
  <2> HIDE DEF h, g
  <2>2. r[h] = q[g]
    BY <1>3, <2>1
  <2>3. CASE i = m2
    <3>1. g = n + 1
      BY <1>1, <2>3 DEF g
    <3> QED
      BY <1>1, <1>2, <2>2, <2>3, <3>1 DEF h
  <2>4. CASE i # m2
    <3> DEFINE e == (m + 1 - m2) + i
    <3>1. i \in 1..(m2 - 1) /\ e \in 1..m /\ n - m + e = g /\ g \in 1..n
      BY <1>1, <2>4 DEF g
    <3> HIDE DEF e
    <3>2. lines2[i] = lines[e]
      BY <1>1, <3>1 DEF e
    <3>3. lines[e] = k[g]
      BY <1>1, <3>1
    <3>4. q[g] = k[g]
      BY <1>2, <3>1
    <3> QED
      BY <2>2, <3>2, <3>3, <3>4 DEF h
  <2> QED
    BY <2>3, <2>4
<1> QED
  BY <1>4, <1>5 DEF Ends, x, m2, r, q

(* A line written behind the others. *)
LEMMA RingAdds ==
    ASSUME NEW buf, NEW ptr \in HistIndex, NEW k, RingKeeps(buf, ptr, FALSE, k),
           View(buf, ptr)[HISTSIZE - 1] = NUL,
           NEW entry \in Seq(Char), Len(entry) \in 1..LINESIZE, NEW pending \in BOOLEAN
    PROVE  RingKeeps(Rewritten(buf, ptr, entry), HISTPTR_FORWARD(Around(ptr, Len(entry))), pending,
                     Newest(Append(k, entry)))
<1> DEFINE v == View(buf, ptr)
           w == View(Rewritten(buf, ptr, entry), HISTPTR_FORWARD(Around(ptr, Len(entry))))
           r == Newest(Append(k, entry))
<1>1. PICK lines, s, a :
          /\ Laid(v, lines, s, a) /\ Ends(lines, k)
          /\ Len(lines) = Len(k) \/ Len(lines) >= 1
  BY DEF RingKeeps
<1>2. k \in Seq(Seq(Char)) /\ Len(k) <= MaxKept
  BY DEF RingKeeps
<1>3. PICK t \in HistIndex :
            /\ t >= Len(entry) /\ v[t] = NUL
            /\ \A h \in Len(entry)..(t - 1) : v[h] # NUL
            /\ Writes(w, v, entry, t)
  BY RewrittenWrites
<1> HIDE DEF v, w
<1>4. PICK lines2, s2 : Laid(w, lines2, s2, 0) /\ Added(lines2, lines, entry)
  BY <1>1, <1>3, WriteLays
<1>5. lines \in Seq(Seq(Char)) /\ lines2 \in Seq(Seq(Char)) /\ Len(lines) \in Nat
  BY <1>1, <1>4, LaidIs
<1>6. Len(lines2) <= MaxKept
  BY <1>4, LaidFew
<1>7. Ends(lines2, r)
  BY <1>1, <1>2, <1>4, <1>5, <1>6, AddedEnds
<1> DEFINE q == Append(k, entry)
<1>8. q \in Seq(Seq(Char)) /\ Len(q) = Len(k) + 1 /\ Len(k) \in Nat
  BY <1>2
<1>9. r \in Seq(Seq(Char)) /\ Len(r) <= MaxKept
      /\ Len(r) = IF Len(q) <= MaxKept THEN Len(q) ELSE MaxKept
  <2> HIDE DEF q
  <2> QED
    BY <1>8, NewestIs DEF q
<1> HIDE DEF r, q
<1>10. Len(lines2) \in 1..(Len(lines) + 1) /\ (Len(lines) > 0 => Len(lines2) > 1)
  BY <1>4 DEF Added
<1>11. Len(lines2) = Len(r) \/ Len(lines2) >= 2
  <2>1. CASE Len(lines) > 0
    BY <1>5, <1>10, <2>1
  <2>2. CASE ~(Len(lines) > 0)
    <3> DEFINE m == Len(lines)
               m2 == Len(lines2)
               n == Len(k)
    <3>2. m \in Nat /\ ~(m > 0) /\ (m = n \/ m >= 1) /\ m2 \in 1..(m + 1)
      BY <1>1, <1>5, <1>10, <2>2
    <3> HIDE DEF m, m2, n
    <3>3. m2 = 1 /\ n = 0
      BY <3>2
    <3>1. Len(lines2) = 1 /\ Len(k) = 0
      BY <3>3 DEF m2, n
    <3> QED
      BY <1>8, <1>9, <3>1, MaxKeptIs
  <2> QED
    BY <2>1, <2>2
<1>12. Len(r) >= 1
  BY <1>8, <1>9, MaxKeptIs
<1>13. Len(lines2) = Len(r) \/ Len(lines2) >= (IF pending THEN 2 ELSE 1)
  BY <1>10, <1>11
<1>14. RingKeeps(Rewritten(buf, ptr, entry), HISTPTR_FORWARD(Around(ptr, Len(entry))), pending, r)
  <2> DEFINE no == 0
             new == Rewritten(buf, ptr, entry)
             at == HISTPTR_FORWARD(Around(ptr, Len(entry)))
  <2>1. Laid(View(new, at), lines2, s2, no) /\ (pending => no = 0)
    BY <1>4 DEF w
  <2> HIDE DEF no, new, at
  <2>2. RingKeeps(new, at, pending, r)
    BY <1>7, <1>9, <1>12, <1>13, <2>1 DEF RingKeeps
  <2> QED
    BY <2>2 DEF new, at
<1> QED
  BY <1>14 DEF r

(* The pending line is taken back. *)
LEMMA RingTakesBack ==
    ASSUME NEW buf, NEW ptr \in HistIndex, NEW k, RingKeeps(buf, ptr, TRUE, k)
    PROVE  RingKeeps(buf, LineBefore(buf, ptr), FALSE, Front(k))
<1> DEFINE v == View(buf, ptr)
<1>1. PICK lines, s, a :
          /\ Laid(v, lines, s, a) /\ Ends(lines, k)
          /\ Len(lines) = Len(k) \/ Len(lines) >= 2
          /\ a = 0
  BY DEF RingKeeps
<1>2. k \in Seq(Seq(Char)) /\ Len(k) <= MaxKept /\ Len(k) >= 1 /\ Len(k) \in Nat
  BY DEF RingKeeps
<1> DEFINE m == Len(lines)
           x == s[m]
           l == Len(lines[m])
           w == View(buf, Around(ptr, x))
<1> HIDE DEF v
<1>3. Len(lines) \in Nat /\ Len(lines) > 0 /\ m \in 1..Len(lines)
      /\ lines \in Seq(Seq(Char)) /\ s[m + 1] = HISTSIZE
  <2>1. Len(lines) \in Nat /\ lines \in Seq(Seq(Char)) /\ s[Len(lines) + 1] = HISTSIZE
    BY <1>1, LaidIs
  <2>2. Len(lines) > 0
    BY <1>1, <1>2, <2>1
  <2> QED
    BY <2>1, <2>2
<1>4. LineBefore(buf, ptr) = Around(ptr, x) /\ x \in HistIndex
  <2> HIDE DEF x, l, w, m
  <2>1. LineBefore(buf, ptr) = Around(ptr, s[Len(lines)]) /\ s[Len(lines)] \in HistIndex
    BY <1>1, <1>3, LineBeforeIsLast DEF v
  <2> QED
    BY <2>1 DEF x, m
<1>5. HISTSIZE = x + l + 1 /\ l \in HistIndex
  <2> HIDE DEF x, l, w
  <2> DEFINE i == m
  <2>1. i \in 1..Len(lines) /\ i = m
    BY <1>3
  <2> HIDE DEF i, m
  <2>2. s[i + 1] = s[i] + Len(lines[i]) + 1 /\ Len(lines[i]) \in 1..LINESIZE
    BY <1>1, <2>1, LaidAt
  <2>3. HISTSIZE = x + l + 1 /\ l \in 1..LINESIZE
    BY <1>3, <2>1, <2>2 DEF x, l
  <2> QED
    BY <2>3, Sizes DEF HistIndex
<1>6. FromLast(w, v, x, l)
  <2> HIDE DEF x, l, w, m
  <2> QED
    BY <1>4, <1>5, LastIsFirst DEF w, v
<1>7. PICK lines2, s2 : Laid(w, lines2, s2, l) /\ Without1(lines2, lines)
  <2>1. Laid(v, lines, s, 0)
    BY <1>1
  <2>2. FromLast(w, v, s[Len(lines)], Len(lines[Len(lines)]))
    BY <1>6
  <2>3. \E lines2, s2 : Laid(w, lines2, s2, Len(lines[Len(lines)])) /\ Without1(lines2, lines)
    <3> HIDE DEF w, x, l, m
    <3> QED
      BY <1>3, <2>1, <2>2, TakeBackLays
  <2> QED
    BY <2>3
<1> HIDE DEF w, x, l
<1> DEFINE f == Front(k)
           n == Len(k)
<1>8. f \in Seq(Seq(Char)) /\ Len(f) = n - 1 /\ \A i \in 1..(n - 1) : f[i] = k[i]
  <2>1. f = SubSeq(k, 1, n - 1)
    BY DEF Front
  <2>2. n - 1 \in Nat /\ n - 1 <= n /\ 1 + n - 1 = n
    BY <1>2
  <2>3. f \in Seq(Seq(Char))
    BY <1>2, <2>1, <2>2
  <2>4. Len(f) = n - 1
    BY <1>2, <2>1, <2>2
  <2>5. \A i \in 1..(n - 1) : f[i] = k[i]
    BY <1>2, <2>1, <2>2, <2>4
  <2> QED
    BY <2>3, <2>4, <2>5
<1> HIDE DEF f
<1>9. /\ lines2 \in Seq(Seq(Char)) /\ Len(lines2) = m - 1
      /\ \A i \in 1..(m - 1) : lines2[i] = lines[i]
  BY <1>7 DEF Without1
<1>10. m <= n /\ \A i \in 1..m : lines[i] = k[n - m + i]
  BY <1>1 DEF Ends
<1> HIDE DEF m, n
<1>11. n \in Nat /\ m \in Nat /\ m > 0 /\ n <= MaxKept /\ (m = n \/ m >= 2)
  BY <1>1, <1>2, <1>3 DEF m, n
<1>12. Ends(lines2, f)
  <2>1. ASSUME NEW i \in 1..(m - 1)
        PROVE  lines2[i] = f[n - 1 - (m - 1) + i]
    <3> DEFINE h == n - m + i
    <3>1. i \in 1..m /\ h \in 1..(n - 1) /\ n - 1 - (m - 1) + i = h
      BY <1>10, <1>11
    <3> HIDE DEF h
    <3>2. lines[i] = k[h]
      BY <1>10, <3>1 DEF h
    <3> QED
      BY <1>8, <1>9, <3>1, <3>2
  <2>2. m - 1 <= n - 1
    BY <1>10, <1>11
  <2> QED
    BY <1>8, <1>9, <2>1, <2>2 DEF Ends
<1>13. Len(lines2) = Len(f) \/ Len(lines2) >= 1
  BY <1>8, <1>9, <1>11
<1>14. Len(f) <= MaxKept
  BY <1>8, <1>11, MaxKeptIs
<1> DEFINE no == FALSE
           p == Around(ptr, x)
           one == IF no THEN 2 ELSE 1
<1>15. Laid(View(buf, p), lines2, s2, l) /\ one = 1 /\ (no => l = 0) /\ (no => Len(f) >= 1)
  BY <1>7 DEF w
<1>16. RingKeeps(buf, p, no, f)
  <2> HIDE DEF no, p
  <2> QED
    BY <1>8, <1>12, <1>13, <1>14, <1>15 DEF RingKeeps
<1> QED
  BY <1>4, <1>16 DEF f

(* Without a pending line the demands are fewer. *)
LEMMA RingKeepsLess ==
    ASSUME NEW buf, NEW ptr, NEW k, RingKeeps(buf, ptr, TRUE, k)
    PROVE  RingKeeps(buf, ptr, FALSE, k)
<1>1. PICK lines, s, a :
          /\ Laid(View(buf, ptr), lines, s, a) /\ Ends(lines, k)
          /\ Len(lines) = Len(k) \/ Len(lines) >= 2
  BY DEF RingKeeps
<1>2. k \in Seq(Seq(Char)) /\ Len(k) <= MaxKept
  BY DEF RingKeeps
<1>3. Len(lines) = Len(k) \/ Len(lines) >= 1
  <2>1. Len(lines) \in Nat
    BY <1>1, LaidIs
  <2> QED
    BY <1>1, <2>1
<1> QED
  BY <1>1, <1>2, <1>3 DEF RingKeeps

-----------------------------------------------------------------------------
(* The ring of a struct *)

(* Its end is a NUL. *)
LEMMA ViewEnds ==
    ASSUME NEW buf, NEW start \in HistIndex, buf[HISTPTR_BACKWARD(start)] = NUL
    PROVE  View(buf, start)[HISTSIZE - 1] = NUL
<1> DEFINE d == HISTSIZE - 1
<1>1. d \in HistIndex /\ 0 \in HistIndex
  BY Sizes DEF HistIndex
<1>2. HISTPTR_BACKWARD(start) = Around(start, d)
  BY <1>1, AroundSteps
<1> HIDE DEF d
<1>3. View(buf, start)[d] = buf[Around(start, d)]
  BY <1>1 DEF View
<1> QED
  BY <1>2, <1>3 DEF d

(* What addhist does to the ring is what Enter and Edit do to the lines kept. *)
LEMMA AddhistKeeps ==
    ASSUME NEW c \in Good, NEW k, RingKeeps(c.histbuf, c.histptr, c.hist_pending, k),
           NEW entry \in Seq(Char), Len(entry) <= LINESIZE,
           NEW others, others = IF c.hist_pending THEN Front(k) ELSE k,
           NEW d, d = addhist(c, entry)
    PROVE  /\ d.hist_pending = FALSE
           /\ allspace(entry) => RingKeeps(d.histbuf, d.histptr, FALSE, others)
           /\ ~allspace(entry) => \A pending \in BOOLEAN :
                    RingKeeps(d.histbuf, d.histptr, pending, Newest(Append(others, entry)))
<1> DEFINE buf == c.histbuf
           start == IF c.hist_pending THEN LineBefore(buf, c.histptr) ELSE c.histptr
           new == Rewritten(buf, start, entry)
           no == FALSE
           ptr == HISTPTR_FORWARD(Around(start, Len(entry)))
           e == [c EXCEPT !.histptr = start, !.hist_pending = no]
<1>1. /\ c \in Editor /\ c.histptr \in HistIndex /\ c.hist_pending \in BOOLEAN
      /\ buf[HISTPTR_BACKWARD(c.histptr)] = NUL /\ HISTPTR_BACKWARD(c.histptr) \in HistIndex
  BY RingFields DEF Good
<1>2. start \in HistIndex /\ buf[HISTPTR_BACKWARD(start)] = NUL
  BY <1>1, LineBeforeIs
<1>3. RingKeeps(buf, start, FALSE, others)
  BY <1>1, RingTakesBack
<1>4. d = IF allspace(entry) THEN e
          ELSE [e EXCEPT !.histbuf = new, !.histptr = ptr, !.histcur = -1]
  <2>1. addhist(c, entry) = IF allspace(entry) THEN e
                           ELSE [e EXCEPT !.histbuf = new, !.histptr = ptr, !.histcur = -1]
    BY Zenon DEF addhist, Rewritten, Written
  <2> HIDE DEF e, new, ptr
  <2> QED
    BY <2>1
<1> HIDE DEF start
<1>5. CASE allspace(entry)
  <2>1. d = [c EXCEPT !.histptr = start, !.hist_pending = no]
    BY <1>4, <1>5
  <2> HIDE DEF no
  <2>2. d.histbuf = buf /\ d.histptr = start /\ d.hist_pending = no
    BY <1>1, <2>1 DEF Editor
  <2>3. d.hist_pending = FALSE
    BY <2>2 DEF no
  <2> HIDE DEF buf
  <2> QED
    BY <1>3, <1>5, <2>2, <2>3
<1>6. CASE ~allspace(entry)
  <2>1. Len(entry) \in 1..LINESIZE
    BY <1>6, Sizes DEF allspace
  <2>2. View(buf, start)[HISTSIZE - 1] = NUL
    BY <1>2, ViewEnds
  <2> HIDE DEF buf
  <2>3. ASSUME NEW pending \in BOOLEAN
        PROVE  RingKeeps(new, ptr, pending, Newest(Append(others, entry)))
    BY <1>2, <1>3, <2>1, <2>2, RingAdds
  <2> HIDE DEF new, ptr, no
  <2>4. d = [e EXCEPT !.histbuf = new, !.histptr = ptr, !.histcur = -1]
    BY <1>4, <1>6
  <2>5. d.histbuf = new /\ d.histptr = ptr /\ d.hist_pending = no
    BY <1>1, <2>4 DEF Editor
  <2>6. d.hist_pending = FALSE
    BY <2>5 DEF no
  <2> QED
    BY <1>6, <2>3, <2>5, <2>6
<1> QED
  BY <1>5, <1>6

(* What a key does to the ring: nothing, or the line that is left goes there. *)
HistSteps(c, d) ==
    \/ SameRing(c, d) /\ (c.histcur # -1 => d.histcur # -1)
    \/ /\ c.histcur = -1 /\ ~allspace(c.line) /\ d.histcur # -1
       /\ d.histbuf = addhist(c, c.line).histbuf /\ d.histptr = addhist(c, c.line).histptr
       /\ d.hist_pending = TRUE

(* The line being edited goes there when it is left. *)
LEMMA LeaveSteps ==
    ASSUME NEW c \in Good, NEW d, d = Leave(c)
    PROVE  HistSteps(c, d)
<1>1. /\ c \in Editor /\ c.line \in Seq(Char) /\ Len(c.line) <= LINESIZE
      /\ c.histcur \in HistIndex \cup {-1} /\ HistIndex \subseteq Nat
  BY GoodFields, RingFields, Sizes
<1>2. d.histcur # -1
  <2>1. d.histcur \in HistIndex
    BY LeaveIs
  <2> QED
    BY <1>1, <2>1
<1>3. CASE c.histcur >= 0
  BY <1>2, <1>3 DEF Leave, HistSteps, SameRing
<1>4. CASE ~(c.histcur >= 0) /\ allspace(c.line)
  <2>1. d = [c EXCEPT !.histcur = c.histptr]
    BY <1>4 DEF Leave
  <2>2. d.histbuf = c.histbuf /\ d.histptr = c.histptr /\ d.hist_pending = c.hist_pending
    BY <1>1, <2>1 DEF Editor
  <2> QED
    BY <1>2, <2>2 DEF HistSteps, SameRing
<1>5. CASE ~(c.histcur >= 0) /\ ~allspace(c.line)
  <2> DEFINE e == addhist(c, c.line)
             yes == TRUE
             at == c.histptr
  <2>1. d = [e EXCEPT !.hist_pending = yes, !.histcur = at]
    BY <1>5 DEF Leave
  <2>2. PICK buf \in History, ptr \in HistIndex, cur \in HistIndex \cup {-1} :
            e = WithRing(c, buf, ptr, cur, FALSE)
    BY <1>1, AddhistIs
  <2> HIDE DEF e, yes, at
  <2>3. d.histbuf = e.histbuf /\ d.histptr = e.histptr /\ d.hist_pending = yes
    BY <2>1, <2>2 DEF WithRing
  <2>4. c.histcur = -1
    <3>1. \A x \in HistIndex : x >= 0
      BY <1>1
    <3> QED
      BY <1>1, <1>5, <3>1
  <2>5. d.hist_pending = TRUE
    BY <2>3 DEF yes
  <2> QED
    BY <1>2, <1>5, <2>3, <2>4, <2>5 DEF HistSteps, e
<1> QED
  BY <1>3, <1>4, <1>5

(* ^P and ^N. *)
LEMMA RecallingSteps ==
    ASSUME NEW c \in Good
    PROVE  HistSteps(c, prevhist(c)) /\ HistSteps(c, nexthist(c))
<1>1. HistSteps(c, c)
  BY DEF HistSteps, SameRing
<1>2. HistSteps(c, prevhist(c))
  <2> DEFINE d == Leave(c)
             p == LineBefore(d.histbuf, d.histcur)
             e == Recall(d, p)
  <2>1. d \in Good /\ d.histcur \in HistIndex /\ HistSteps(c, d)
    BY LeaveIs, LeaveSteps
  <2>2. prevhist(c) = c \/ prevhist(c) = d \/ prevhist(c) = e
    BY DEF prevhist
  <2> HIDE DEF d
  <2>3. p \in HistIndex
    BY <2>1, RingFields, LineBeforeIs
  <2> HIDE DEF p
  <2>4. e.histcur = p /\ SameRing(d, e)
    BY <2>1, <2>3, RecallIs
  <2>5. e.histcur # -1 /\ d.histcur # -1
    BY <2>1, <2>3, <2>4, Sizes
  <2> HIDE DEF e
  <2>6. HistSteps(c, e)
    BY <2>1, <2>4, <2>5 DEF HistSteps, SameRing
  <2> QED
    BY <1>1, <2>1, <2>2, <2>6
<1>3. HistSteps(c, nexthist(c))
  <2> DEFINE n == ToNul(c.histbuf, c.histcur)
             next == Around(c.histcur, n + 1)
             e == Recall(c, next)
  <2>1. c.histcur \in HistIndex \cup {-1}
    BY RingFields
  <2>2. nexthist(c) = c \/ (c.histcur \in HistIndex /\ nexthist(c) = e)
    <3>1. c.histcur < 0 \/ c.histcur \in HistIndex
      BY <2>1
    <3> HIDE DEF e
    <3>2. nexthist(c) = IF c.histcur < 0 \/ next = c.histptr THEN c ELSE e
      BY DEF nexthist, e
    <3> QED
      BY <3>1, <3>2
  <2>3. ASSUME c.histcur \in HistIndex
        PROVE  HistSteps(c, e)
    <3>1. n \in HistIndex
      BY <2>3, RingFields, ToNulIs
    <3> HIDE DEF n
    <3> DEFINE k == n + 1
    <3>2. k \in 0..HISTSIZE
      BY <3>1, Sizes DEF HistIndex
    <3> HIDE DEF k
    <3>3. next \in HistIndex
      BY <2>3, <3>2, AroundIs DEF k
    <3> HIDE DEF next
    <3>4. e.histcur = next /\ SameRing(c, e)
      BY <3>3, RecallIs
    <3> HIDE DEF e
    <3>5. e.histcur # -1
      BY <3>3, <3>4, Sizes
    <3> QED
      BY <3>4, <3>5 DEF HistSteps
  <2> HIDE DEF e
  <2> QED
    BY <1>1, <2>2, <2>3
<1> QED
  BY <1>2, <1>3

(* Editing leaves it alone. *)
LEMMA EditHistSteps ==
    ASSUME NEW c \in Good, NEW d \in Moved(c) \cup Killed(c)
    PROVE  HistSteps(c, d)
BY DEF HistSteps, SameRing, Moved, Killed, Killing, SameHistory

(* What any key does to it. *)
LEMMA PlainHistSteps ==
    ASSUME NEW c \in Good, NEW key
    PROVE  HistSteps(c, Plain(c, key))
<1>1. CASE Plain(c, key) \in Moved(c) \cup Killed(c)
  BY <1>1, EditHistSteps
<1>2. CASE Plain(c, key) \in {prevhist(c), nexthist(c)}
  BY <1>2, RecallingSteps
<1>3. ASSUME NEW p \in PrefixStates, Plain(c, key) = [c EXCEPT !.prefix = p]
      PROVE  HistSteps(c, Plain(c, key))
  <2>1. Plain(c, key).histcur = c.histcur /\ SameRing(c, Plain(c, key))
    BY <1>3, PrefixIs
  <2> QED
    BY <2>1 DEF HistSteps
<1> QED
  BY <1>1, <1>2, <1>3, PlainIs

(* With a prefix, too. *)
LEMMA PrefixedHistSteps ==
    ASSUME NEW c \in Good, NEW key
    PROVE  HistSteps(c, Prefixed(c, key))
BY PrefixedIs, EditHistSteps

(* A key while a line is edited. *)
LEMMA EditRing ==
    ASSUME cmdline \in Good, NEW key, Edit(key)
    PROVE  HistSteps(cmdline, cmdline')
<1> DEFINE d == Prefixed(cmdline, key)
<1>1. CASE cmdline.prefix = "none"
  <2>1. cmdline' = Plain(cmdline, key)
    BY <1>1 DEF Edit
  <2> QED
    BY <2>1, PlainHistSteps
<1>2. CASE cmdline.prefix # "none"
  <2>1. HistSteps(cmdline, d) /\ d \in Good
    BY PrefixedHistSteps, PrefixedSteps DEF Steps
  <2>2. cmdline' = [d EXCEPT !.prefix = "none"]
    BY <1>2 DEF Edit
  <2> HIDE DEF d
  <2>3. cmdline'.histcur = d.histcur /\ SameRing(d, cmdline')
    BY <2>1, <2>2, PrefixIs DEF PrefixStates
  <2> QED
    BY <2>1, <2>3 DEF HistSteps, SameRing
<1> QED
  BY <1>1, <1>2

-----------------------------------------------------------------------------
(* The ring and the lines kept *)

(* The inductive invariant: the ring holds the last lines kept, and a pending line
   is there only while a line of the history is shown. *)
RingInv ==
    /\ RingKeeps(cmdline.histbuf, cmdline.histptr, cmdline.hist_pending, kept)
    /\ cmdline.hist_pending => cmdline.histcur # -1

(* It holds of the empty ring. *)
LEMMA RingInit ==
    Init => RingInv
<1> SUFFICES ASSUME Init PROVE RingInv
  OBVIOUS
<1> DEFINE buf == [i \in HistIndex |-> NUL]
           none == << >>
           s == [i \in 1..1 |-> HISTSIZE]
           v == View(buf, 0)
           no == 0
<1>1. /\ cmdline.histbuf = buf /\ cmdline.histptr = 0 /\ cmdline.hist_pending = FALSE
      /\ kept = none
  BY DEF Init, cmdline_reset, cmdline_init, HistIndex
<1>2. none \in Seq(Seq(Char)) /\ Len(none) = 0 /\ 0 \in HistIndex /\ HISTSIZE \in Nat
      /\ HISTSIZE > 0 /\ no = 0
  BY Sizes
<1>3. s \in [1..1 -> 0..HISTSIZE] /\ s[1] = HISTSIZE
  BY <1>2
<1>4. \A k \in HistIndex : v[k] = NUL
  BY AroundIn, Sizes DEF View
<1>5. \A k \in 0..(HISTSIZE - 1) : v[k] = NUL
  BY <1>4 DEF HistIndex
<1> HIDE DEF buf, none, s, v, no
<1>6. Laid(v, none, s, no)
  <2>1. /\ none \in Seq(Seq(Char)) /\ Len(none) + 1 = 1 /\ s[1] = HISTSIZE
        /\ s \in [1..1 -> 0..HISTSIZE]
        /\ no \in 0..s[1] /\ 0..(no - 1) = {}
        /\ 1..Len(none) = {}
    BY <1>2, <1>3
  <2>2. \A k \in no..(s[1] - 1) : v[k] = NUL
    BY <1>2, <1>3, <1>5
  <2> QED
    BY <1>2, <2>1, <2>2 DEF Laid
<1>7. Ends(none, none) /\ Len(none) <= MaxKept
  BY <1>2, MaxKeptIs DEF Ends
<1>8. RingKeeps(buf, 0, FALSE, none)
  BY <1>2, <1>6, <1>7 DEF RingKeeps, v
<1> QED
  BY <1>1, <1>8 DEF RingInv

(* ENTER puts the line behind the others. *)
LEMMA RingEnter ==
    ASSUME cmdline \in Good, RingInv, Enter
    PROVE  RingInv'
<1> DEFINE line == cmdline.line
           e == addhist(cmdline, line)
           others == IF cmdline.hist_pending THEN Front(kept) ELSE kept
           pending == FALSE
<1>1. line \in Seq(Char) /\ Len(line) <= LINESIZE
  BY GoodFields
<1>2. RingKeeps(cmdline.histbuf, cmdline.histptr, cmdline.hist_pending, kept)
  BY DEF RingInv
<1>3. /\ e.hist_pending = FALSE
      /\ allspace(line) => RingKeeps(e.histbuf, e.histptr, FALSE, others)
      /\ ~allspace(line) => \A p \in BOOLEAN :
            RingKeeps(e.histbuf, e.histptr, p, Newest(Append(others, line)))
  BY <1>1, <1>2, AddhistKeeps
<1>4. /\ cmdline' = cmdline_reset(e)
      /\ kept' = IF allspace(line) THEN others ELSE Newest(Append(others, line))
  BY DEF Enter
<1>5. PICK buf \in History, ptr \in HistIndex, cur \in HistIndex \cup {-1} :
          e = WithRing(cmdline, buf, ptr, cur, FALSE)
  BY <1>1, AddhistIs
<1> HIDE DEF e, others, line
<1>6. cmdline'.histbuf = e.histbuf /\ cmdline'.histptr = e.histptr
      /\ cmdline'.hist_pending = e.hist_pending
  BY <1>4, <1>5 DEF cmdline_reset, WithRing
<1>7. RingKeeps(e.histbuf, e.histptr, FALSE, kept')
  BY <1>3, <1>4
<1>8. RingKeeps(cmdline'.histbuf, cmdline'.histptr, cmdline'.hist_pending, kept')
  BY <1>3, <1>6, <1>7
<1>9. cmdline'.hist_pending = FALSE
  BY <1>3, <1>6
<1> QED
  BY <1>8, <1>9 DEF RingInv

(* Another key puts it there when it leaves it for the history. *)
LEMMA RingEdit ==
    ASSUME cmdline \in Good, RingInv, NEW key, Edit(key)
    PROVE  RingInv'
<1>1. HistSteps(cmdline, cmdline')
  BY EditRing
<1>2. /\ RingKeeps(cmdline.histbuf, cmdline.histptr, cmdline.hist_pending, kept)
      /\ cmdline.hist_pending => cmdline.histcur # -1
  BY DEF RingInv
<1>3. kept' = IF cmdline'.hist_pending /\ ~cmdline.hist_pending
              THEN Newest(Append(kept, cmdline.line)) ELSE kept
  BY DEF Edit
<1>4. cmdline.hist_pending \in BOOLEAN
  BY RingFields
<1>5. CASE SameRing(cmdline, cmdline') /\ (cmdline.histcur # -1 => cmdline'.histcur # -1)
  <2>1. kept' = kept
    BY <1>3, <1>4, <1>5 DEF SameRing
  <2>2. RingKeeps(cmdline'.histbuf, cmdline'.histptr, cmdline'.hist_pending, kept')
    BY <1>2, <1>5, <2>1 DEF SameRing
  <2>3. cmdline'.hist_pending => cmdline'.histcur # -1
    BY <1>2, <1>5 DEF SameRing
  <2> QED
    BY <2>2, <2>3 DEF RingInv
<1>6. CASE /\ cmdline.histcur = -1 /\ ~allspace(cmdline.line) /\ cmdline'.histcur # -1
           /\ cmdline'.histbuf = addhist(cmdline, cmdline.line).histbuf
           /\ cmdline'.histptr = addhist(cmdline, cmdline.line).histptr
           /\ cmdline'.hist_pending = TRUE
  <2> DEFINE line == cmdline.line
             e == addhist(cmdline, line)
             others == IF cmdline.hist_pending THEN Front(kept) ELSE kept
  <2>1. line \in Seq(Char) /\ Len(line) <= LINESIZE
    BY GoodFields
  <2>2. ~allspace(line) => \A p \in BOOLEAN :
            RingKeeps(e.histbuf, e.histptr, p, Newest(Append(others, line)))
    BY <1>2, <2>1, AddhistKeeps
  <2>3. cmdline.hist_pending = FALSE
    BY <1>2, <1>4, <1>6
  <2>4. others = kept /\ kept' = Newest(Append(kept, line))
    BY <1>3, <1>6, <2>3
  <2> HIDE DEF e, others, line
  <2>5. ~allspace(line) /\ TRUE \in BOOLEAN
    BY <1>6 DEF line
  <2>6. RingKeeps(e.histbuf, e.histptr, TRUE, kept')
    BY <2>2, <2>4, <2>5
  <2>7. RingKeeps(cmdline'.histbuf, cmdline'.histptr, cmdline'.hist_pending, kept')
    BY <1>6, <2>6 DEF e, line
  <2> QED
    BY <1>6, <2>7 DEF RingInv
<1> QED
  BY <1>1, <1>5, <1>6 DEF HistSteps

(* The ring always holds the last lines kept. *)
LEMMA RingInvAlways ==
    Spec => [](cmdline \in Good /\ RingInv)
<1>1. cmdline \in Good /\ RingInv /\ [cmdline_input]_vars => (cmdline \in Good /\ RingInv)'
  <2> SUFFICES ASSUME cmdline \in Good, RingInv, [cmdline_input]_vars
               PROVE  cmdline' \in Good /\ RingInv'
    OBVIOUS
  <2>1. cmdline' \in Good
    BY StepGood DEF Steps
  <2>2. CASE UNCHANGED vars
    BY <2>2 DEF vars, RingInv
  <2>3. ASSUME NEW key, Strike(key)
        PROVE  RingInv'
    <3>1. Edit(key) \/ Enter
      BY <2>3 DEF Strike
    <3> QED
      BY <3>1, RingEdit, RingEnter
  <2> QED
    BY <2>1, <2>2, <2>3 DEF cmdline_input
<1> QED
  BY <1>1, InitGood, RingInit, PTL DEF Spec

-----------------------------------------------------------------------------
(* The lines found in the ring *)

(* A character with a NUL before it begins a line. *)
LEMMA StartsAre ==
    ASSUME NEW v, NEW lines, NEW s, NEW a, Laid(v, lines, s, a),
           NEW d \in 1..(HISTSIZE - 1)
    PROVE  (v[d] # NUL /\ v[d - 1] = NUL) <=> \E i \in 1..Len(lines) : s[i] = d
<1> DEFINE m == Len(lines)
<1>1. /\ m \in Nat /\ s \in [1..(m + 1) -> 0..HISTSIZE] /\ HISTSIZE \in Nat
      /\ s[m + 1] = HISTSIZE
  BY LaidIs, Sizes
<1>2. ASSUME NEW i \in 1..m, s[i] = d
      PROVE  v[d] # NUL /\ v[d - 1] = NUL
  <2>1. i \in 1..(m + 1) /\ s[i] > 0
    BY <1>1, <1>2
  <2>2. v[s[i] - 1] = NUL
    BY <2>1, NulBefore
  <2> DEFINE l == Len(lines[i])
             x == s[i]
             line == lines[i]
  <2>3. l \in 1..LINESIZE /\ \A j \in 1..l : v[x + j - 1] = line[j] /\ line[j] # NUL
    BY LaidAt
  <2>4. 1 \in 1..l /\ x + 1 - 1 = d
    <3>1. x = d /\ l \in 1..LINESIZE
      BY <1>2, <2>3
    <3> HIDE DEF x, l
    <3> QED
      BY <1>1, <3>1, Sizes
  <2> HIDE DEF l, x, line
  <2>5. v[d] # NUL
    BY <2>3, <2>4
  <2> QED
    BY <1>2, <2>2, <2>5
<1>3. ASSUME v[d] # NUL, v[d - 1] = NUL
      PROVE  \E i \in 1..m : s[i] = d
  <2> DEFINE t == d - 1
  <2>1. t \in HistIndex /\ v[t] = NUL
    BY <1>1, <1>3 DEF HistIndex
  <2> HIDE DEF t
  <2>2. PICK e \in 1..(m + 1) :
            s[e] > t /\ (e > 1 => s[e - 1] <= t) /\ \A k \in t..(s[e] - 1) : v[k] = NUL
    BY <2>1, LineBehind
  <2> DEFINE y == s[e]
  <2>3. y \in 0..HISTSIZE /\ y > t /\ t = d - 1
    BY <1>1, <2>2 DEF t
  <2>4. \A k \in t..(y - 1) : v[k] = NUL
    BY <2>2
  <2> HIDE DEF y
  <2>5. ~(d \in t..(y - 1))
    BY <1>3, <2>4
  <2>6. y = d
    BY <1>1, <2>3, <2>5
  <2>7. e # m + 1
    BY <1>1, <2>6 DEF y
  <2>8. e \in 1..m
    BY <1>1, <2>7
  <2> QED
    BY <2>6, <2>8 DEF y
<1> QED
  BY <1>2, <1>3

(* A line of the ring, read from its beginning to the NUL behind it. *)
LEMMA LineAtIs ==
    ASSUME NEW buf, NEW ptr \in HistIndex, NEW lines, NEW s, NEW a,
           Laid(View(buf, ptr), lines, s, a), NEW i \in 1..Len(lines)
    PROVE  /\ s[i] \in HistIndex
           /\ LineAt(buf, Around(ptr, s[i])) = lines[i]
<1> DEFINE v == View(buf, ptr)
           line == lines[i]
           l == Len(line)
           x == s[i]
           p == Around(ptr, x)
<1>1. HISTSIZE \in Nat /\ LINESIZE \in Nat /\ HISTSIZE >= LINESIZE + LINESIZE + 2
  BY Sizes
<1>2. /\ l \in 1..LINESIZE /\ x \in 0..HISTSIZE /\ x + l + 1 <= HISTSIZE
      /\ v[x + l] = NUL /\ line \in Seq(Char)
      /\ \A j \in 1..l : v[x + j - 1] = line[j] /\ line[j] # NUL
  <2> HIDE DEF v
  <2>1. /\ s[i] \in 0..HISTSIZE /\ s[i + 1] \in 0..HISTSIZE
        /\ lines[i] \in Seq(Char) /\ Len(lines[i]) \in 1..LINESIZE
        /\ s[i + 1] = s[i] + Len(lines[i]) + 1
        /\ v[s[i] + Len(lines[i])] = NUL
        /\ \A j \in 1..Len(lines[i]) : v[s[i] + j - 1] = lines[i][j] /\ lines[i][j] # NUL
    BY LaidAt DEF v
  <2> QED
    BY <2>1
<1> HIDE DEF v, line, l, x
<1>3. x \in HistIndex /\ l \in HistIndex
  BY <1>1, <1>2 DEF HistIndex
<1>4. ASSUME NEW n \in 0..l
      PROVE  n \in HistIndex /\ buf[Around(p, n)] = v[x + n] /\ x + n \in HistIndex
  <2> DEFINE k == x + n
  <2>1. n \in HistIndex /\ n \in 0..HISTSIZE /\ x + n < HISTSIZE /\ k \in HistIndex
    BY <1>1, <1>2 DEF HistIndex
  <2>2. Around(p, n) = Around(ptr, x + n)
    BY <1>3, <2>1, AroundTwice
  <2> HIDE DEF k, p
  <2>3. v[k] = buf[Around(ptr, k)]
    BY <2>1 DEF v, View
  <2> QED
    BY <2>1, <2>2, <2>3 DEF k
<1>5. p \in HistIndex
  BY <1>3, AroundIn
<1> HIDE DEF p
<1> DEFINE S == {n \in HistIndex : buf[Around(p, n)] = NUL}
<1>6. l \in S
  <2>1. l \in 0..l
    BY <1>1, <1>2
  <2> QED
    BY <1>2, <1>4, <2>1
<1>7. ASSUME NEW n \in S, n < l
      PROVE  FALSE
  <2> DEFINE j == n + 1
  <2>1. n \in 0..l /\ j \in 1..l /\ x + j - 1 = x + n
    BY <1>1, <1>2, <1>7, SMTT(30) DEF HistIndex
  <2>2. v[x + j - 1] # NUL
    <3> HIDE DEF j
    <3> QED
      BY <1>2, <2>1
  <2> QED
    BY <1>4, <1>7, <2>1, <2>2
<1>8. ToNul(buf, p) = l
  <2>1. S \in SUBSET Nat /\ S # {}
    BY <1>6, Sizes
  <2>2. ToNul(buf, p) = Min(S)
    BY DEF ToNul
  <2> HIDE DEF S
  <2>3. Min(S) \in S /\ \A y \in S : Min(S) <= y
    BY <2>1, LeastIs
  <2>4. Min(S) \in Nat /\ Min(S) <= l /\ ~(Min(S) < l)
    BY <1>6, <1>7, <2>1, <2>3
  <2>5. l \in Nat
    BY <1>1, <1>2
  <2> QED
    BY <2>2, <2>4, <2>5
<1>9. ASSUME NEW k \in 1..l
      PROVE  buf[Around(p, k - 1)] = line[k]
  <2> DEFINE n == k - 1
  <2>1. n \in 0..l /\ x + n = x + k - 1
    BY <1>1, <1>2
  <2> HIDE DEF n
  <2>2. buf[Around(p, n)] = v[x + n]
    BY <1>4, <2>1
  <2>3. v[x + k - 1] = line[k]
    BY <1>2
  <2> QED
    BY <2>1, <2>2, <2>3 DEF n
<1>10. LineAt(buf, p) = [k \in 1..l |-> buf[Around(p, k - 1)]]
  BY <1>8 DEF LineAt
<1> DEFINE r == LineAt(buf, p)
<1>11. r \in Seq(Char) /\ Len(r) = l /\ \A k \in 1..l : r[k] = line[k]
  <2>1. l \in Nat
    BY <1>1, <1>2
  <2>2. \A k \in 1..l : line[k] \in Char
    BY <1>2, ElementOfSeq DEF l
  <2>3. \A k \in 1..l : buf[Around(p, k - 1)] \in Char
    BY <1>9, <2>2
  <2> HIDE DEF S
  <2>4. r \in [1..l -> Char]
    BY <1>10, <2>3
  <2>5. \A k \in 1..l : r[k] = line[k]
    BY <1>9, <1>10
  <2> HIDE DEF r
  <2> QED
    BY <2>1, <2>4, <2>5
<1> HIDE DEF r
<1>12. r = line
  BY <1>2, <1>11, SeqEqual DEF l
<1> QED
  BY <1>3, <1>12 DEF r, line, x, p

(* The end of a sequence. *)
LEMMA SuffixIs ==
    ASSUME NEW X, NEW r \in Seq(X), NEW k \in Seq(X), Len(r) <= Len(k),
           \A i \in 1..Len(r) : r[i] = k[Len(k) - Len(r) + i]
    PROVE  IsSuffix(r, k)
<1> DEFINE n == Len(r)
           m == Len(k)
           rr == Reverse(r)
           kk == Reverse(k)
<1>1. n \in Nat /\ m \in Nat /\ n <= m
  OBVIOUS
<1>2. rr = [i \in 1..n |-> r[(n - i) + 1]] /\ kk = [i \in 1..m |-> k[(m - i) + 1]]
  BY DEF Reverse
<1>3. \A i \in 1..n : r[i] = k[m - n + i]
  OBVIOUS
<1>4. \A i \in 1..n : r[i] \in X
  OBVIOUS
<1>5. \A i \in 1..m : k[i] \in X
  OBVIOUS
<1> HIDE DEF n, m, rr, kk
<1>6. ASSUME NEW i \in 1..n
      PROVE  /\ (n - i) + 1 \in 1..n /\ (m - i) + 1 \in 1..m /\ i \in 1..m
             /\ r[(n - i) + 1] = k[(m - i) + 1]
  <2> DEFINE j == (n - i) + 1
  <2>1. j \in 1..n /\ m - n + j = (m - i) + 1 /\ (m - i) + 1 \in 1..m /\ i \in 1..m
    BY <1>1
  <2> HIDE DEF j
  <2>2. r[j] = k[m - n + j]
    BY <1>3, <2>1
  <2> QED
    BY <2>1, <2>2 DEF j
<1>7. rr \in Seq(X) /\ Len(rr) = n
  <2>1. \A i \in 1..n : r[(n - i) + 1] \in X
    BY <1>4, <1>6
  <2>2. rr \in [1..n -> X]
    BY <1>2, <2>1
  <2> QED
    BY <1>1, <2>2
<1>8. kk \in Seq(X) /\ Len(kk) = m
  <2>1. \A i \in 1..m : (m - i) + 1 \in 1..m
    BY <1>1
  <2> QED
    BY <1>1, <1>2, <1>5, <2>1
<1>9. \A i \in 1..n : rr[i] = kk[i]
  BY <1>2, <1>6
<1>10. /\ SubSeq(rr, 1, n) \in Seq(X) /\ Len(SubSeq(rr, 1, n)) = n
       /\ \A i \in 1..n : SubSeq(rr, 1, n)[i] = rr[i]
  BY <1>1, <1>7
<1>11. /\ SubSeq(kk, 1, n) \in Seq(X) /\ Len(SubSeq(kk, 1, n)) = n
       /\ \A i \in 1..n : SubSeq(kk, 1, n)[i] = kk[i]
  BY <1>1, <1>8
<1>12. SubSeq(rr, 1, n) = SubSeq(kk, 1, n)
  <2> DEFINE x == SubSeq(rr, 1, n)
             y == SubSeq(kk, 1, n)
  <2>1. x \in Seq(X) /\ y \in Seq(X) /\ Len(x) = Len(y) /\ \A i \in 1..Len(x) : x[i] = y[i]
    BY <1>9, <1>10, <1>11
  <2> HIDE DEF x, y
  <2>2. x = y
    BY <2>1, SeqEqual
  <2> QED
    BY <2>2 DEF x, y
<1>13. IsPrefix(rr, kk)
  BY <1>1, <1>7, <1>8, <1>12 DEF IsPrefix
<1> QED
  BY <1>13 DEF IsSuffix, rr, kk

(* Without the first line when that begins where the ring is read from. *)
Skipped(lines, s) == IF Len(lines) > 0 /\ s[1] = 0 THEN 1 ELSE 0
Behind(lines, s) ==
    [j \in 1..(Len(lines) - Skipped(lines, s)) |-> lines[j + Skipped(lines, s)]]

Found(c) == InRing(c, LineStarts(c.histbuf) \ {c.histptr})

(* InRing finds the lines that are laid, except one that begins where the ring is
   read from. *)
LEMMA InRingIs ==
    ASSUME NEW c, NEW ptr \in HistIndex, c.histptr = ptr, NEW buf, c.histbuf = buf,
           NEW lines, NEW s, NEW a, Laid(View(buf, ptr), lines, s, a)
    PROVE  Found(c) = Behind(lines, s)
<1> DEFINE o == Skipped(lines, s)
           v == View(buf, ptr)
           m == Len(lines)
           n == m - o
           S == LineStarts(buf) \ {ptr}
           key == [i \in S |-> Around(i, HISTSIZE - ptr)]
           t == [j \in 1..n |-> Around(ptr, s[j + o])]
<1>1. /\ m \in Nat /\ s \in [1..(m + 1) -> 0..HISTSIZE] /\ HISTSIZE \in Nat
      /\ HistIndex = 0..(HISTSIZE - 1)
  BY LaidIs, Sizes DEF HistIndex
<1>2. o \in {0, 1} /\ n \in Nat /\ (o = 0 \/ (m > 0 /\ s[1] = 0)) /\ (m > 0 /\ s[1] = 0 => o = 1)
  <2> HIDE DEF m
  <2>1. o = IF m > 0 /\ s[1] = 0 THEN 1 ELSE 0
    BY DEF m, Skipped
  <2> HIDE DEF o
  <2> QED
    BY <1>1, <2>1
<1> HIDE DEF v, m, o
<1>3. ASSUME NEW j \in 1..n
      PROVE  j + o \in 1..m /\ s[j + o] \in 1..(HISTSIZE - 1)
  <2> DEFINE i == j + o
  <2>1. i \in 1..m /\ i \in 1..(m + 1)
    BY <1>1, <1>2
  <2>2. s[i] \in HistIndex
    <3> HIDE DEF i
    <3> QED
      BY <2>1, LineAtIs DEF v, m
  <2>3. s[i] # 0
    <3>1. CASE i = 1
      <4>1. o = 0 /\ m > 0
        BY <1>1, <1>2, <3>1
      <4> QED
        BY <1>2, <3>1, <4>1
    <3>2. CASE i # 1
      <4> DEFINE one == 1
      <4>1. one \in 1..(m + 1) /\ i \in one..(m + 1) /\ s[1] \in 0..HISTSIZE /\ i > 1
        BY <1>1, <2>1, <3>2
      <4>2. s[one] + (i - one) + (i - one) <= s[i]
        <5> HIDE DEF one, i
        <5> QED
          BY <4>1, LaidRises DEF v, m
      <4> HIDE DEF i
      <4> QED
        BY <1>1, <2>1, <4>1, <4>2
    <3> QED
      BY <3>1, <3>2
  <2> HIDE DEF i
  <2>4. s[i] \in 1..(HISTSIZE - 1)
    BY <1>1, <2>2, <2>3
  <2> QED
    BY <2>1, <2>4 DEF i
<1>4. ASSUME NEW d \in 1..(HISTSIZE - 1)
      PROVE  /\ d \in HistIndex
             /\ Around(ptr, d) \in S <=> \E i \in 1..m : s[i] = d
  <2> DEFINE p == Around(ptr, d)
  <2>1. d \in HistIndex /\ d - 1 \in HistIndex /\ d > 0 /\ 0 \in HistIndex /\ d # 0
    BY <1>1
  <2>2. p \in HistIndex /\ HISTPTR_BACKWARD(p) = Around(ptr, d - 1)
    BY <2>1, AroundIn, AroundSteps
  <2>3. p # ptr
    <3>1. SUFFICES ASSUME p = ptr PROVE FALSE
      OBVIOUS
    <3> DEFINE z == 0
    <3>2. Around(ptr, z) = ptr /\ z \in HistIndex
      BY <2>1, AroundSteps
    <3>3. \A h \in HistIndex : Around(ptr, h) = ptr => Around(ptr, HISTSIZE - ptr) = h
      BY ViewReaches
    <3>4. Around(ptr, d) = ptr
      BY <3>1
    <3> HIDE DEF z
    <3>5. d = z
      BY <2>1, <3>2, <3>3, <3>4
    <3> QED
      BY <2>1, <3>5 DEF z
  <2> HIDE DEF p
  <2>4. v[d] = buf[p] /\ v[d - 1] = buf[HISTPTR_BACKWARD(p)]
    BY <2>1, <2>2 DEF v, View, p
  <2>5. p \in S <=> v[d] # NUL /\ v[d - 1] = NUL
    BY <2>2, <2>3, <2>4 DEF LineStarts
  <2>6. (v[d] # NUL /\ v[d - 1] = NUL) <=> \E i \in 1..m : s[i] = d
    BY StartsAre DEF v, m
  <2> QED
    BY <2>1, <2>5, <2>6 DEF p
<1>5. ASSUME NEW j \in 1..n
      PROVE  t[j] = Around(ptr, s[j + o]) /\ t[j] \in S
  <2> DEFINE d == s[j + o]
             i == j + o
  <2>1. i \in 1..m /\ s[i] = d /\ d \in 1..(HISTSIZE - 1)
    BY <1>3
  <2> HIDE DEF d, i, S
  <2>2. Around(ptr, d) \in S
    BY <1>4, <2>1
  <2>3. t[j] = Around(ptr, s[j + o])
    OBVIOUS
  <2> QED
    BY <2>2, <2>3 DEF d
<1>6. t \in [1..n -> S]
  <2> HIDE DEF S
  <2> QED
    BY <1>5
<1>7. \A x \in S : key[x] = Around(x, HISTSIZE - ptr) /\ x \in HistIndex /\ x # ptr
  BY DEF LineStarts
<1>8. key \in [S -> Int]
  <2>1. \A x \in S : Around(x, HISTSIZE - ptr) \in Int
    BY <1>1, <1>7, ViewReaches
  <2> HIDE DEF S
  <2> QED
    BY <2>1
<1> HIDE DEF t, key, S
<1>9. ASSUME NEW j \in 1..n
      PROVE  key[t[j]] = s[j + o]
  <2> DEFINE d == s[j + o]
             x == t[j]
  <2>1. d \in HistIndex /\ x \in S /\ x = Around(ptr, d)
    BY <1>1, <1>3, <1>5
  <2>2. x \in HistIndex /\ key[x] = Around(x, HISTSIZE - ptr)
    BY <1>7, <2>1
  <2> HIDE DEF d, x
  <2>3. \A h \in HistIndex : Around(ptr, h) = x => Around(x, HISTSIZE - ptr) = h
    BY <2>2, ViewReaches
  <2>4. key[x] = d
    BY <2>1, <2>2, <2>3
  <2> QED
    BY <2>4 DEF d, x
<1>10. ASSUME NEW x \in S
       PROVE  \E j \in 1..n : t[j] = x
  <2> DEFINE d == Around(x, HISTSIZE - ptr)
  <2>1. x \in HistIndex /\ x # ptr
    BY <1>7
  <2>2. d \in HistIndex /\ Around(ptr, d) = x
    BY <2>1, ViewReaches
  <2> HIDE DEF d
  <2>3. d # 0
    BY <2>1, <2>2, AroundSteps
  <2>4. d \in 1..(HISTSIZE - 1)
    BY <1>1, <2>2, <2>3
  <2>5. PICK i \in 1..m : s[i] = d
    BY <1>4, <2>2, <2>4
  <2> DEFINE j == i - o
  <2>6. i # 1 \/ o = 0
    BY <1>2, <2>3, <2>5
  <2>7. j \in 1..n /\ j + o = i
    BY <1>1, <1>2, <2>6
  <2> HIDE DEF j
  <2>8. t[j] = Around(ptr, d)
    BY <1>5, <2>5, <2>7
  <2> QED
    BY <2>2, <2>7, <2>8
<1>11. ASSUME NEW i \in 1..n, NEW j \in 1..n, i < j
       PROVE  key[t[i]] < key[t[j]]
  <2> DEFINE x == i + o
             y == j + o
  <2>1. x \in 1..(m + 1) /\ y \in x..(m + 1) /\ x < y /\ x \in 1..m /\ y \in 1..m
    BY <1>1, <1>2, <1>11
  <2>2. key[t[i]] = s[x] /\ key[t[j]] = s[y]
    BY <1>9
  <2> HIDE DEF x, y
  <2>3. s[x] + (y - x) + (y - x) <= s[y]
    BY <2>1, LaidRises DEF v, m
  <2>4. s[x] \in 0..HISTSIZE /\ s[y] \in 0..HISTSIZE
    BY <1>1, <2>1
  <2>5. s[x] < s[y]
    BY <1>1, <2>1, <2>3, <2>4, SMTT(30)
  <2> QED
    BY <2>2, <2>5
<1>12. Ordered(t, n, S, key)
  BY <1>6, <1>10, <1>11 DEF Ordered
<1>13. InOrder(S, key) = t
  <2> HIDE DEF n
  <2> QED
    BY <1>2, <1>8, <1>12, InOrderIs
<1>14. Len(t) = n /\ DOMAIN t = 1..n
  BY <1>2, <1>6
<1>15. ASSUME NEW j \in 1..n
       PROVE  LineAt(buf, t[j]) = lines[j + o]
  <2> DEFINE i == j + o
  <2>1. i \in 1..m /\ t[j] = Around(ptr, s[i])
    BY <1>3, <1>5
  <2> HIDE DEF i
  <2>2. LineAt(buf, Around(ptr, s[i])) = lines[i]
    BY <2>1, LineAtIs DEF v, m
  <2> QED
    BY <2>1, <2>2 DEF i
<1>16. InRing(c, S) = [j \in 1..n |-> LineAt(buf, t[j])]
  <2>1. InRing(c, S) = LET starts == InOrder(S, key) IN
                           [j \in 1..Len(starts) |-> LineAt(buf, starts[j])]
    BY DEF InRing, key
  <2> HIDE DEF n
  <2> QED
    BY <1>13, <1>14, <2>1
<1> DEFINE r == [j \in 1..n |-> LineAt(buf, t[j])]
           q == [j \in 1..n |-> lines[j + o]]
<1>17. r = q
  BY <1>15
<1> QED
  BY <1>16, <1>17 DEF S, m, o, Behind, Found

(* They are the last ones kept, and at least one. *)
LEMMA RingIs ==
    cmdline \in Good /\ RingInv => RingIsHistory
<1> SUFFICES ASSUME cmdline \in Good, RingInv PROVE RingIsHistory
  OBVIOUS
<1> DEFINE buf == cmdline.histbuf
           ptr == cmdline.histptr
           lost == cmdline.hist_pending
           found == Found(cmdline)
<1>1. ptr \in HistIndex /\ lost \in BOOLEAN /\ RingKeeps(buf, ptr, lost, kept)
  BY RingFields DEF RingInv
<1> HIDE DEF buf, ptr, lost
<1>2. PICK lines, s, a :
          /\ Laid(View(buf, ptr), lines, s, a) /\ Ends(lines, kept)
          /\ Len(lines) = Len(kept) \/ Len(lines) >= (IF lost THEN 2 ELSE 1)
  BY <1>1 DEF RingKeeps
<1>3. kept \in Seq(Seq(Char))
  BY <1>1 DEF RingKeeps
<1> DEFINE m == Len(lines)
           h == Len(kept)
           o == Skipped(lines, s)
           n == m - o
           r == [j \in 1..n |-> lines[j + o]]
<1>4. /\ m \in Nat /\ h \in Nat /\ m <= h /\ (m = h \/ m >= 1)
      /\ \A i \in 1..m : lines[i] = kept[h - m + i]
      /\ lines \in Seq(Seq(Char))
  <2> HIDE DEF found, o, n, r
  <2>1. Len(lines) \in Nat /\ lines \in Seq(Seq(Char))
    BY <1>2, LaidIs
  <2>2. Len(kept) \in Nat
    BY <1>3
  <2>3. m <= h /\ \A i \in 1..m : lines[i] = kept[h - m + i]
    BY <1>2 DEF Ends
  <2>4. Len(lines) = Len(kept) \/ Len(lines) >= 1
    BY <1>2, <2>1
  <2> QED
    BY <2>1, <2>2, <2>3, <2>4
<1>5. found = r
  <2> HIDE DEF found, o
  <2>1. cmdline.histptr = ptr /\ cmdline.histbuf = buf
    BY DEF ptr, buf
  <2>2. Found(cmdline) = Behind(lines, s)
    <3> HIDE DEF m, n, r, h
    <3> QED
      BY <1>1, <1>2, <2>1, InRingIs
  <2> QED
    BY <2>2 DEF found, Behind, o
<1>6. o \in {0, 1} /\ n \in Nat /\ (m > 0 => n > 0 \/ (m = 1 /\ s[1] = 0))
  <2>1. o = IF m > 0 /\ s[1] = 0 THEN 1 ELSE 0
    BY DEF Skipped
  <2> HIDE DEF m, o
  <2> QED
    BY <1>4, <2>1
<1>7. ~(m = 1 /\ s[1] = 0)
  <2> SUFFICES ASSUME m = 1, s[1] = 0 PROVE FALSE
    OBVIOUS
  <2> DEFINE i == 1
             l == Len(lines[i])
  <2>1. i \in 1..Len(lines) /\ i = 1
    OBVIOUS
  <2>2. Len(lines[i]) \in 1..LINESIZE /\ s[i + 1] = s[i] + Len(lines[i]) + 1
    <3> HIDE DEF i, m, o
    <3> QED
      BY <1>2, <2>1, LaidAt
  <2>3. s[m + 1] = HISTSIZE
    BY <1>2, LaidIs
  <2>4. i + 1 = m + 1 /\ s[i] = 0
    OBVIOUS
  <2>5. l \in 1..LINESIZE /\ HISTSIZE = 0 + l + 1
    BY <2>2, <2>3, <2>4
  <2> HIDE DEF l
  <2> QED
    BY <2>5, Sizes
<1> HIDE DEF o, found, m, h
<1>8. ASSUME NEW j \in 1..n
      PROVE  j + o \in 1..m /\ lines[j + o] = kept[h - n + j] /\ lines[j + o] \in Seq(Char)
  <2> DEFINE i == j + o
  <2>1. i \in 1..m /\ h - m + i = h - n + j
    BY <1>4, <1>6
  <2> HIDE DEF i
  <2>2. lines[i] = kept[h - m + i] /\ lines[i] \in Seq(Char)
    BY <1>4, <2>1, ElementOfSeq DEF m
  <2> QED
    BY <2>1, <2>2 DEF i
<1>9. r \in Seq(Seq(Char)) /\ Len(r) = n /\ \A j \in 1..n : r[j] = kept[h - n + j]
  <2>1. r \in [1..n -> Seq(Char)]
    BY <1>8
  <2>2. \A j \in 1..n : r[j] = kept[h - n + j]
    BY <1>8
  <2> HIDE DEF r, n
  <2> QED
    BY <1>6, <2>1, <2>2
<1> HIDE DEF r
<1>10. n <= h
  BY <1>4, <1>6
<1> HIDE DEF n
<1>11. IsSuffix(r, kept)
  BY <1>3, <1>9, <1>10, SuffixIs DEF h
<1>12. kept # << >> => r # << >>
  <2> SUFFICES ASSUME kept # << >>, r = << >> PROVE FALSE
    OBVIOUS
  <2>1. n = 0
    BY <1>9
  <2>2. h = 0
    BY <1>4, <1>6, <1>7, <2>1
  <2> QED
    BY <1>3, <2>2 DEF h
<1>13. RingIsHistory = (IsSuffix(found, kept) /\ (kept # << >> => found # << >>))
  BY DEF RingIsHistory, found, Found
<1> QED
  BY <1>5, <1>11, <1>12, <1>13

(* Behind histptr the ring always holds the newest lines, whole and in order, and
   at least the last of them, whatever was overwritten or taken back (addhist,
   prevhist). *)
THEOREM RingAlways == Spec => []RingIsHistory
BY RingInvAlways, RingIs, PTL

-----------------------------------------------------------------------------
(* Arguments *)

(* at lists some numbers in order. *)
Lists(at, S) ==
    /\ at \in Seq(S)
    /\ \A x \in S : \E i \in 1..Len(at) : at[i] = x
    /\ \A i, j \in 1..Len(at) : i < j => at[i] < at[j]

(* That is how InOrder lists them. *)
LEMMA ListsIs ==
    ASSUME NEW S \in SUBSET Int, NEW at, Lists(at, S)
    PROVE  InOrder(S, [k \in S |-> k]) = at
<1> DEFINE key == [k \in S |-> k]
<1>1. at \in Seq(S) /\ Len(at) \in Nat /\ at \in [1..Len(at) -> S]
  BY DEF Lists
<1>2. key \in [S -> Int] /\ \A x \in S : key[x] = x
  OBVIOUS
<1> HIDE DEF key
<1>3. Ordered(at, Len(at), S, key)
  BY <1>1, <1>2 DEF Lists, Ordered
<1>4. InOrder(S, key) = at
  BY <1>1, <1>2, <1>3, InOrderIs
<1> QED
  BY <1>4 DEF key

(* A number greater than all listed goes behind them. *)
LEMMA ListsMore ==
    ASSUME NEW S \in SUBSET Int, NEW at, Lists(at, S), NEW x \in Int, \A y \in S : y < x
    PROVE  Lists(Append(at, x), S \cup {x})
<1> DEFINE b == Append(at, x)
           m == Len(at)
<1>1. at \in Seq(S) /\ m \in Nat /\ \A i \in 1..m : at[i] \in S
  BY ElementOfSeq DEF Lists
<1>2. at \in Seq(S \cup {x})
  BY <1>1
<1>3. /\ b \in Seq(S \cup {x}) /\ Len(b) = m + 1
      /\ \A i \in 1..m : b[i] = at[i]
      /\ b[m + 1] = x
  BY <1>2, <1>1
<1> HIDE DEF b
<1>4. \A y \in S \cup {x} : \E i \in 1..(m + 1) : b[i] = y
  <2>1. ASSUME NEW y \in S
        PROVE  \E i \in 1..(m + 1) : b[i] = y
    <3>1. PICK i \in 1..m : at[i] = y
      BY DEF Lists
    <3>2. i \in 1..(m + 1) /\ b[i] = y
      BY <1>1, <1>3, <3>1
    <3> QED
      BY <3>2
  <2>2. m + 1 \in 1..(m + 1)
    BY <1>1
  <2> QED
    BY <1>3, <2>1, <2>2
<1>5. ASSUME NEW i \in 1..(m + 1), NEW j \in 1..(m + 1), i < j
      PROVE  b[i] < b[j]
  <2>1. i \in 1..m /\ b[i] = at[i] /\ at[i] \in S
    BY <1>1, <1>3, <1>5
  <2>2. CASE j \in 1..m
    BY <1>3, <1>5, <2>1, <2>2 DEF Lists
  <2>3. CASE j = m + 1
    BY <1>3, <2>1, <2>3
  <2> QED
    BY <1>1, <2>2, <2>3
<1> QED
  BY <1>3, <1>4, <1>5 DEF Lists, b

(* There is nothing to list of nothing. *)
LEMMA ListsNone ==
    Lists(<< >>, {})
BY DEF Lists

(* Which characters are behind a backslash that is none itself. *)
LEMMA EscapedIs ==
    ASSUME NEW s, Len(s) \in Nat
    PROVE  \A k \in 0..Len(s) :
               Escaped(s)[k] <=> k > 1 /\ s[k - 1] = BACKSLASH /\ ~Escaped(s)[k - 1]
<1> DEFINE n == Len(s)
           Body(f) == [k \in 0..n |-> k > 1 /\ s[k - 1] = BACKSLASH /\ ~f[k - 1]]
           Step == [k \in 1..n |-> [v \in BOOLEAN |-> k > 1 /\ s[k - 1] = BACKSLASH /\ ~v]]
           e == CHOOSE f : f = Body(f)
<1>1. Escaped(s) = e
  BY Zenon DEF Escaped, e, Body
<1>0. n \in Nat
  OBVIOUS
<1> HIDE DEF n
<1>2. \E f : f = Body(f)
  <2>1. Step \in [1..n -> [BOOLEAN -> BOOLEAN]]
    BY Zenon
  <2>2. PICK f : IsChain(f, n, BOOLEAN, FALSE, Step)
    <3>1. FALSE \in BOOLEAN
      OBVIOUS
    <3> HIDE DEF Step, Body
    <3> QED
      BY <1>0, <2>1, <3>1, PrefixRecursion
  <2>3. ASSUME NEW k \in 0..n
        PROVE  f[k] = (k > 1 /\ s[k - 1] = BACKSLASH /\ ~f[k - 1])
    <3>1. CASE k \in 1..n
      <4>1. f[k - 1] \in BOOLEAN
        <5>1. k - 1 \in 0..n
          BY <1>0, <3>1
        <5> QED
          BY <2>2, <5>1 DEF IsChain
      <4>2. Step[k][f[k - 1]] = (k > 1 /\ s[k - 1] = BACKSLASH /\ ~f[k - 1])
        BY <3>1, <4>1, Zenon
      <4> QED
        BY <2>2, <3>1, <4>2, Zenon DEF IsChain
    <3>2. CASE k = 0
      <4>1. ~(k > 1)
        BY <3>2
      <4> QED
        BY <2>2, <3>2, <4>1, Zenon DEF IsChain
    <3> QED
      BY <3>1, <3>2
  <2> HIDE DEF Step
  <2>4. f = Body(f)
    BY <2>2, <2>3, Zenon DEF IsChain
  <2> QED
    BY <2>4, Zenon
<1>3. e = Body(e)
  <2> HIDE DEF Body
  <2> QED
    BY <1>2, Zenon
<1>4. ASSUME NEW k \in 0..n
      PROVE  e[k] = (k > 1 /\ s[k - 1] = BACKSLASH /\ ~e[k - 1])
  BY <1>3, Zenon
<1> QED
  BY <1>1, <1>4, Zenon DEF n

(* The quote open behind the k-th character, from the one before. *)
QuoteAfter(s, k, before) ==
    IF s[k] \notin QUOTES \/ Escaped(s)[k] THEN before
    ELSE CASE before = NUL -> s[k]
           [] before = s[k] -> NUL
           [] OTHER -> before

(* Which quote is open behind each character. *)
LEMMA OpenIs ==
    ASSUME NEW s, Len(s) \in Nat
    PROVE  /\ Open(s)[0] = NUL
           /\ \A k \in 1..Len(s) : Open(s)[k] = QuoteAfter(s, k, Open(s)[k - 1])
           /\ \A k \in 0..Len(s) : Open(s)[k] \in QUOTES \cup {NUL}
<1> DEFINE n == Len(s)
           V == QUOTES \cup {NUL}
           Body(f) == [k \in 0..n |-> IF k = 0 THEN NUL
                                      ELSE IF s[k] \notin QUOTES \/ Escaped(s)[k] THEN f[k - 1]
                                      ELSE CASE f[k - 1] = NUL -> s[k]
                                             [] f[k - 1] = s[k] -> NUL
                                             [] OTHER -> f[k - 1]]
           Step == [k \in 1..n |-> [v \in V |-> QuoteAfter(s, k, v)]]
           o == CHOOSE f : f = Body(f)
<1>1. Open(s) = o
  BY Zenon DEF Open, o, Body
<1>0. n \in Nat
  OBVIOUS
<1> HIDE DEF n
<1>2. \E f : f = Body(f)
  <2>1. Step \in [1..n -> [V -> V]]
    <3>1. ASSUME NEW k \in 1..n, NEW v \in V
          PROVE  QuoteAfter(s, k, v) \in V
      BY DEF QuoteAfter
    <3> HIDE DEF V
    <3> QED
      BY <3>1, Zenon
  <2>2. NUL \in V
    OBVIOUS
  <2>3. PICK f : IsChain(f, n, V, NUL, Step)
    <3> HIDE DEF Step, V, Body
    <3> QED
      BY <1>0, <2>1, <2>2, PrefixRecursion
  <2>4. ASSUME NEW k \in 0..n
        PROVE  f[k] = IF k = 0 THEN NUL ELSE QuoteAfter(s, k, f[k - 1])
    <3>1. CASE k \in 1..n
      <4>1. f[k - 1] \in V /\ k # 0
        <5>1. k - 1 \in 0..n
          BY <1>0, <3>1
        <5> QED
          BY <2>3, <3>1, <5>1 DEF IsChain
      <4>2. Step[k][f[k - 1]] = QuoteAfter(s, k, f[k - 1])
        <5> HIDE DEF V
        <5> QED
          BY <3>1, <4>1, Zenon
      <4> QED
        BY <2>3, <3>1, <4>1, <4>2, Zenon DEF IsChain
    <3>2. CASE k = 0
      BY <2>3, <3>2, Zenon DEF IsChain
    <3> QED
      BY <3>1, <3>2
  <2> HIDE DEF Step
  <2>5. f = Body(f)
    BY <2>3, <2>4, Zenon DEF QuoteAfter, IsChain
  <2> QED
    BY <2>5, Zenon
<1>3. o = Body(o)
  <2> HIDE DEF Body
  <2> QED
    BY <1>2, Zenon
<1>4. ASSUME NEW k \in 0..n
      PROVE  o[k] = IF k = 0 THEN NUL ELSE QuoteAfter(s, k, o[k - 1])
  BY <1>3, Zenon DEF QuoteAfter
<1> HIDE DEF Body
<1>5. o[0] = NUL
  <2>1. 0 \in 0..n
    BY <1>0
  <2> QED
    BY <1>4, <2>1, Zenon
<1>6. ASSUME NEW k \in 1..n
      PROVE  o[k] = QuoteAfter(s, k, o[k - 1])
  <2>1. k \in 0..n /\ k # 0
    OBVIOUS
  <2> QED
    BY <1>4, <2>1, Zenon
<1>7. \A k \in 0..n : o[k] \in V
  <2> DEFINE T == {k \in Nat : k <= n => o[k] \in V}
  <2>1. 0 \in T
    BY <1>5
  <2>2. ASSUME NEW k \in Nat, k \in T
        PROVE  k + 1 \in T
    <3>1. CASE k + 1 <= n
      <4>1. k + 1 \in 1..n /\ k + 1 - 1 = k /\ o[k] \in V
        BY <1>0, <2>2, <3>1
      <4>2. o[k + 1] = QuoteAfter(s, k + 1, o[k])
        BY <1>6, <4>1
      <4>3. o[k + 1] \in V
        BY <4>1, <4>2 DEF QuoteAfter
      <4> QED
        BY <4>3
    <3> QED
      BY <3>1
  <2> HIDE DEF T
  <2>3. \A k \in Nat : k \in T
    BY <2>1, <2>2, Induction
  <2> QED
    BY <2>3 DEF T
<1> QED
  BY <1>1, <1>5, <1>6, <1>7 DEF n

(* The character behind the k-th is escaped. *)
Escapes(s, k) == k >= 1 /\ s[k] = BACKSLASH /\ ~Escaped(s)[k]

(* What the k-th character is, and what it does to what follows. *)
LEMMA KindIs ==
    ASSUME NEW s, Len(s) \in Nat, NEW k \in 1..Len(s)
    PROVE  /\ Escapes(s, k - 1) =>
                  /\ Kind(s, k) = "text" /\ Open(s)[k] = Open(s)[k - 1] /\ ~Escapes(s, k)
           /\ ~Escapes(s, k - 1) =>
              /\ s[k] = BLANK =>
                    /\ Kind(s, k) = (IF Open(s)[k - 1] = NUL THEN "parts" ELSE "text")
                    /\ Open(s)[k] = Open(s)[k - 1] /\ ~Escapes(s, k)
              /\ s[k] \in QUOTES =>
                    /\ ~Escapes(s, k)
                    /\ Open(s)[k - 1] = NUL => Kind(s, k) = "mark" /\ Open(s)[k] = s[k]
                    /\ Open(s)[k - 1] = s[k] => Kind(s, k) = "mark" /\ Open(s)[k] = NUL
                    /\ Open(s)[k - 1] \notin {NUL, s[k]} =>
                          Kind(s, k) = "text" /\ Open(s)[k] = Open(s)[k - 1]
              /\ s[k] = BACKSLASH =>
                    Kind(s, k) = "mark" /\ Open(s)[k] = Open(s)[k - 1] /\ Escapes(s, k)
              /\ s[k] \notin QUOTES \cup {BLANK, BACKSLASH} =>
                    Kind(s, k) = "text" /\ Open(s)[k] = Open(s)[k - 1] /\ ~Escapes(s, k)
<1> DEFINE o == Open(s)[k]
           b == Open(s)[k - 1]
<1>1. Escaped(s)[k] <=> Escapes(s, k - 1)
  <2>1. k \in 0..Len(s) /\ (k > 1 <=> k - 1 >= 1)
    OBVIOUS
  <2>2. Escaped(s)[k] <=> k > 1 /\ s[k - 1] = BACKSLASH /\ ~Escaped(s)[k - 1]
    BY <2>1, EscapedIs, Zenon
  <2> QED
    BY <2>1, <2>2, Zenon DEF Escapes
<1>2. k >= 1
  OBVIOUS
<1>3. o = QuoteAfter(s, k, b)
  BY OpenIs
<1>4. BLANK \notin QUOTES /\ BACKSLASH \notin QUOTES /\ BLANK # BACKSLASH /\ NUL \notin QUOTES
  BY DEF BLANK, QUOTES, BACKSLASH, NUL
<1> HIDE DEF o, b
<1>5. CASE Escapes(s, k - 1)
  <2>1. o = b /\ Kind(s, k) = "text" /\ ~Escapes(s, k)
    BY <1>1, <1>3, <1>5, Zenon DEF QuoteAfter, Kind, Escapes
  <2> QED
    BY <1>5, <2>1 DEF o, b
<1>6. CASE ~Escapes(s, k - 1)
  <2>0. ~Escaped(s)[k]
    BY <1>1, <1>6
  <2>1. ASSUME s[k] = BLANK
        PROVE  o = b /\ ~Escapes(s, k) /\ Kind(s, k) = (IF b = NUL THEN "parts" ELSE "text")
    <3>1. o = b
      BY <1>3, <1>4, <2>1, Zenon DEF QuoteAfter
    <3>2. Kind(s, k) = (IF o = NUL THEN "parts" ELSE "text")
      BY <1>4, <2>0, <2>1 DEF Kind, o
    <3> QED
      BY <1>4, <2>1, <3>1, <3>2, Zenon DEF Escapes
  <2>2. ASSUME s[k] \in QUOTES
        PROVE  /\ ~Escapes(s, k)
               /\ b = NUL => Kind(s, k) = "mark" /\ o = s[k]
               /\ b = s[k] => Kind(s, k) = "mark" /\ o = NUL
               /\ b \notin {NUL, s[k]} => Kind(s, k) = "text" /\ o = b
    <3>1. s[k] # BLANK /\ s[k] # BACKSLASH /\ s[k] # NUL
      BY <1>4, <2>2
    <3>2. o = CASE b = NUL -> s[k] [] b = s[k] -> NUL [] OTHER -> b
      BY <1>3, <2>0, <2>2, Zenon DEF QuoteAfter
    <3>3. Kind(s, k) = (IF o # b THEN "mark" ELSE "text")
      BY <2>0, <2>2, <3>1, Zenon DEF Kind, o, b
    <3> QED
      BY <3>1, <3>2, <3>3 DEF Escapes
  <2>3. ASSUME s[k] = BACKSLASH
        PROVE  Kind(s, k) = "mark" /\ o = b /\ Escapes(s, k)
    <3>1. s[k] \notin QUOTES /\ s[k] # BLANK
      BY <1>4, <2>3
    <3> QED
      BY <1>2, <1>3, <2>0, <2>3, <3>1, Zenon DEF QuoteAfter, Kind, Escapes
  <2>4. ASSUME s[k] \notin QUOTES \cup {BLANK, BACKSLASH}
        PROVE  Kind(s, k) = "text" /\ o = b /\ ~Escapes(s, k)
    <3>1. s[k] \notin QUOTES /\ s[k] # BLANK /\ s[k] # BACKSLASH
      BY <2>4
    <3> QED
      BY <1>3, <2>0, <3>1, Zenon DEF QuoteAfter, Kind, Escapes
  <2> QED
    BY <1>6, <2>1, <2>2, <2>3, <2>4 DEF o, b
<1> QED
  BY <1>5, <1>6

(* What execute keeps: a line of n characters and the NUL, the pointers and modes. *)
States(D, n) ==
    [buf : [1..(n + 1) -> D], argv : Seq(Nat), q : Nat, quote : D,
     in : {"blanks", "argument", "escaped", "rest"}]

(* A character is put at q. *)
LEMMA WriteIs ==
    ASSUME NEW D, NEW n \in Nat, NEW st \in States(D, n), NEW ch \in D
    PROVE  /\ Write(st, ch) \in States(D, n)
           /\ Write(st, ch).argv = st.argv /\ Write(st, ch).q = st.q + 1
           /\ Write(st, ch).quote = st.quote /\ Write(st, ch).in = st.in
           /\ \A j \in 1..(n + 1) : Write(st, ch).buf[j] = (IF j = st.q THEN ch ELSE st.buf[j])
<1> DEFINE t == Write(st, ch)
           b == [st.buf EXCEPT ![st.q] = ch]
<1>1. /\ st.buf \in [1..(n + 1) -> D] /\ st.argv \in Seq(Nat) /\ st.q \in Nat /\ st.quote \in D
      /\ st.in \in {"blanks", "argument", "escaped", "rest"}
  BY DEF States
<1>2. b \in [1..(n + 1) -> D] /\ \A j \in 1..(n + 1) : b[j] = (IF j = st.q THEN ch ELSE st.buf[j])
  BY <1>1
<1>3. t = [st EXCEPT !.buf = b, !.q = st.q + 1]
  BY DEF Write, States
<1> HIDE DEF t, b
<1>4. t = [buf |-> b, argv |-> st.argv, q |-> st.q + 1, quote |-> st.quote, in |-> st.in]
  BY <1>3 DEF States
<1>5. st.q + 1 \in Nat
  BY <1>1
<1> QED
  BY <1>1, <1>2, <1>4, <1>5 DEF States, t

(* NULs are put at q and at p. *)
LEMMA CutIs ==
    ASSUME NEW D, NUL \in D, NEW n \in Nat, NEW st \in States(D, n), NEW p \in 1..(n + 1)
    PROVE  /\ Cut(st, p) \in States(D, n)
           /\ Cut(st, p).argv = st.argv /\ Cut(st, p).quote = st.quote
           /\ Cut(st, p).in = (IF st.buf[p] = NUL THEN "rest" ELSE "blanks")
           /\ \A j \in 1..(n + 1) :
                  Cut(st, p).buf[j] = (IF j = st.q \/ j = p THEN NUL ELSE st.buf[j])
<1> DEFINE t == Cut(st, p)
           b == [[st.buf EXCEPT ![st.q] = NUL] EXCEPT ![p] = NUL]
           in == IF st.buf[p] = NUL THEN "rest" ELSE "blanks"
<1>1. /\ st.buf \in [1..(n + 1) -> D] /\ st.argv \in Seq(Nat) /\ st.q \in Nat /\ st.quote \in D
  BY DEF States
<1>2. /\ b \in [1..(n + 1) -> D]
      /\ \A j \in 1..(n + 1) : b[j] = (IF j = st.q \/ j = p THEN NUL ELSE st.buf[j])
  BY <1>1
<1>3. in \in {"blanks", "argument", "escaped", "rest"}
  OBVIOUS
<1>4. t = [st EXCEPT !.in = in, !.buf = b]
  BY DEF Cut, States
<1> HIDE DEF t, b, in
<1>5. t = [buf |-> b, argv |-> st.argv, q |-> st.q, quote |-> st.quote, in |-> in]
  BY <1>4 DEF States
<1> QED
  BY <1>1, <1>2, <1>3, <1>5 DEF States, t, in

(* What becomes of an argument, by the character p is at. *)
LEMMA InArgumentIs ==
    ASSUME NEW st, NEW p
    PROVE  /\ st.buf[p] = NUL \/ (st.buf[p] = BLANK /\ st.quote = NUL) =>
                  InArgument(st, p) = Cut(st, p)
           /\ st.buf[p] \in QUOTES /\ st.quote = NUL =>
                  InArgument(st, p) = [st EXCEPT !.quote = st.buf[p]]
           /\ st.buf[p] \in QUOTES /\ st.quote = st.buf[p] =>
                  InArgument(st, p) = [st EXCEPT !.quote = NUL]
           /\ st.buf[p] = BACKSLASH => InArgument(st, p) = [st EXCEPT !.in = "escaped"]
           /\ /\ st.buf[p] # NUL /\ st.buf[p] # BACKSLASH
              /\ ~(st.buf[p] = BLANK /\ st.quote = NUL)
              /\ st.buf[p] \in QUOTES => st.quote # NUL /\ st.quote # st.buf[p]
              => InArgument(st, p) = Write(st, st.buf[p])
<1> DEFINE ch == st.buf[p]
           Quoted(c) == [st EXCEPT !.quote = c]
           Escape == [st EXCEPT !.in = "escaped"]
<1>1. /\ BLANK \notin QUOTES /\ BACKSLASH \notin QUOTES /\ BLANK # BACKSLASH
      /\ NUL \notin QUOTES /\ NUL # BLANK /\ NUL # BACKSLASH
  BY DEF BLANK, QUOTES, BACKSLASH, NUL
<1>2. InArgument(st, p) =
          CASE ch = NUL -> Cut(st, p)
            [] ch = BLANK /\ st.quote = NUL -> Cut(st, p)
            [] ch \in QUOTES /\ st.quote = NUL -> Quoted(ch)
            [] ch \in QUOTES /\ st.quote = ch -> Quoted(NUL)
            [] ch = BACKSLASH -> Escape
            [] OTHER -> Write(st, ch)
  BY Zenon DEF InArgument
<1> HIDE DEF ch, Quoted, Escape
<1>3. /\ ch = NUL \/ (ch = BLANK /\ st.quote = NUL) => InArgument(st, p) = Cut(st, p)
      /\ ch \in QUOTES /\ st.quote = NUL => InArgument(st, p) = Quoted(ch)
      /\ ch \in QUOTES /\ st.quote = ch => InArgument(st, p) = Quoted(NUL)
      /\ ch = BACKSLASH => InArgument(st, p) = Escape
      /\ /\ ch # NUL /\ ch # BACKSLASH
         /\ ~(ch = BLANK /\ st.quote = NUL)
         /\ ch \in QUOTES => st.quote # NUL /\ st.quote # ch
         => InArgument(st, p) = Write(st, ch)
  BY <1>1, <1>2
<1> QED
  BY <1>3, Zenon DEF ch, Quoted, Escape

(* What reading leads to, by what p is in. *)
LEMMA ReadIs ==
    ASSUME NEW st, NEW p
    PROVE  /\ st.in = "rest" => Read(st, p) = st
           /\ st.in = "argument" => Read(st, p) = InArgument(st, p)
           /\ st.in = "escaped" =>
                  Read(st, p) = IF st.buf[p] = NUL THEN Cut(st, p)
                                ELSE [Write(st, st.buf[p]) EXCEPT !.in = "argument"]
           /\ st.in = "blanks" =>
                  Read(st, p) = IF st.buf[p] = BLANK THEN st
                                ELSE IF st.buf[p] = NUL THEN [st EXCEPT !.in = "rest"]
                                ELSE NewArgument(st, p)
<1> DEFINE A == IF st.buf[p] = NUL THEN Cut(st, p)
                ELSE [Write(st, st.buf[p]) EXCEPT !.in = "argument"]
           B == IF st.buf[p] = BLANK THEN st
                ELSE IF st.buf[p] = NUL THEN [st EXCEPT !.in = "rest"]
                ELSE NewArgument(st, p)
<1>1. Read(st, p) = CASE st.in = "blanks" -> B
                      [] st.in = "argument" -> InArgument(st, p)
                      [] st.in = "escaped" -> A
                      [] st.in = "rest" -> st
  BY Zenon DEF Read
<1> HIDE DEF A, B
<1>2. /\ st.in = "rest" => Read(st, p) = st
      /\ st.in = "argument" => Read(st, p) = InArgument(st, p)
      /\ st.in = "escaped" => Read(st, p) = A
      /\ st.in = "blanks" => Read(st, p) = B
  BY <1>1
<1> QED
  BY <1>2, Zenon DEF A, B

(* A quote opens or closes, or a mode begins; nothing else changes. *)
LEMMA MarksAre ==
    ASSUME NEW D, NEW n \in Nat, NEW st \in States(D, n), NEW c \in D,
           NEW in \in {"blanks", "argument", "escaped", "rest"}
    PROVE  /\ [st EXCEPT !.quote = c] \in States(D, n)
           /\ [st EXCEPT !.quote = c] =
                 [buf |-> st.buf, argv |-> st.argv, q |-> st.q, quote |-> c, in |-> st.in]
           /\ [st EXCEPT !.in = in] \in States(D, n)
           /\ [st EXCEPT !.in = in] =
                 [buf |-> st.buf, argv |-> st.argv, q |-> st.q, quote |-> st.quote, in |-> in]
<1>1. [st EXCEPT !.quote = c] =
          [buf |-> st.buf, argv |-> st.argv, q |-> st.q, quote |-> c, in |-> st.in]
  BY DEF States
<1>2. [st EXCEPT !.in = in] =
          [buf |-> st.buf, argv |-> st.argv, q |-> st.q, quote |-> st.quote, in |-> in]
  BY DEF States
<1>3. [st EXCEPT !.quote = c] \in States(D, n)
  BY DEF States
<1>4. [st EXCEPT !.in = in] \in States(D, n)
  BY DEF States
<1> QED
  BY <1>1, <1>2, <1>3, <1>4, Zenon

(* The argument that begins at p. *)
Begun(st, p) == [st EXCEPT !.argv = Append(st.argv, p), !.q = p, !.in = "argument"]

(* A state is a record of its five parts. *)
LEMMA StateParts ==
    ASSUME NEW D, NEW n \in Nat, NEW st \in States(D, n)
    PROVE  st = [buf |-> st.buf, argv |-> st.argv, q |-> st.q, quote |-> st.quote, in |-> st.in]
BY DEF States

(* It is the last one if there is no room for another. *)
LEMMA NewArgumentIs ==
    ASSUME NEW D, NEW n \in Nat, NEW st \in States(D, n), NEW p \in 1..(n + 1)
    PROVE  /\ Begun(st, p) \in States(D, n)
           /\ Begun(st, p) = [buf |-> st.buf, argv |-> Append(st.argv, p), q |-> p,
                              quote |-> st.quote, in |-> "argument"]
           /\ Len(st.argv) + 1 < MAXARGV => NewArgument(st, p) = Read(Begun(st, p), p)
           /\ Len(st.argv) + 1 >= MAXARGV =>
                 /\ NewArgument(st, p) \in States(D, n)
                 /\ NewArgument(st, p) = [buf |-> st.buf, argv |-> Append(st.argv, p), q |-> st.q,
                                          quote |-> st.quote, in |-> "rest"]
<1>1. /\ st.buf \in [1..(n + 1) -> D] /\ st.argv \in Seq(Nat) /\ st.q \in Nat /\ st.quote \in D
      /\ p \in Nat
  BY DEF States
<1> DEFINE argv == Append(st.argv, p)
           Pointing == [st EXCEPT !.argv = argv]
           At == [Pointing EXCEPT !.q = p]
           Full == [st EXCEPT !.argv = Append(st.argv, p), !.in = "rest"]
           f == [buf |-> st.buf, argv |-> argv, q |-> st.q,
                 quote |-> st.quote, in |-> "rest"]
           b == [buf |-> st.buf, argv |-> argv, q |-> p,
                 quote |-> st.quote, in |-> "argument"]
<1>2. argv \in Seq(Nat) /\ Len(argv) = Len(st.argv) + 1
  BY <1>1
<1>4. st = [buf |-> st.buf, argv |-> st.argv, q |-> st.q, quote |-> st.quote, in |-> st.in]
  BY StateParts
<1>5. Pointing = [buf |-> st.buf, argv |-> argv, q |-> st.q, quote |-> st.quote, in |-> st.in]
  <2> HIDE DEF argv
  <2> QED
    BY <1>4
<1> HIDE DEF Pointing
<1>6. [Pointing EXCEPT !.in = "rest"] = f
  <2> HIDE DEF argv
  <2> QED
    BY <1>5
<1>7. At = [buf |-> st.buf, argv |-> argv, q |-> p, quote |-> st.quote, in |-> st.in]
  <2> HIDE DEF argv
  <2> QED
    BY <1>5
<1> HIDE DEF At
<1>8. [At EXCEPT !.in = "argument"] = b
  <2> HIDE DEF argv
  <2> QED
    BY <1>7
<1>9. Full = f
  BY <1>6, Zenon DEF Pointing
<1>10. Begun(st, p) = b
  BY <1>8, Zenon DEF Begun, Pointing, At
<1>11. f \in States(D, n) /\ b \in States(D, n)
  BY <1>1, <1>2 DEF States
<1>12. NewArgument(st, p) = IF Len(Append(st.argv, p)) >= MAXARGV THEN Full
                           ELSE InArgument(Begun(st, p), p)
  BY Zenon DEF NewArgument, Begun
<1>13. Begun(st, p).in = "argument"
  BY <1>10
<1>14. InArgument(Begun(st, p), p) = Read(Begun(st, p), p)
  BY <1>13, ReadIs
<1>15. Len(st.argv) \in Nat /\ MAXARGV \in Nat
  BY <1>1, MaxArgvAssumption
<1> HIDE DEF Full, f, b
<1>16. /\ Len(st.argv) + 1 < MAXARGV => NewArgument(st, p) = Read(Begun(st, p), p)
       /\ Len(st.argv) + 1 >= MAXARGV => NewArgument(st, p) = f
  BY <1>2, <1>9, <1>12, <1>14, <1>15
<1> QED
  BY <1>10, <1>11, <1>16 DEF f, b

(* Reading stays within these states. *)
LEMMA ReadKeepsType ==
    ASSUME NEW D, NUL \in D, NEW n \in Nat, NEW st \in States(D, n), NEW p \in 1..(n + 1)
    PROVE  Read(st, p) \in States(D, n)
<1>1. ASSUME NEW u \in States(D, n)
      PROVE  /\ u.buf[p] \in D /\ Cut(u, p) \in States(D, n)
             /\ Write(u, u.buf[p]) \in States(D, n)
  <2>1. u.buf[p] \in D
    BY DEF States
  <2> QED
    BY <2>1, CutIs, WriteIs
<1>2. ASSUME NEW u \in States(D, n), u.in = "argument"
      PROVE  Read(u, p) \in States(D, n)
  <2>1. Read(u, p) = InArgument(u, p)
    BY <1>2, ReadIs
  <2>2. /\ [u EXCEPT !.quote = u.buf[p]] \in States(D, n)
        /\ [u EXCEPT !.quote = NUL] \in States(D, n)
        /\ [u EXCEPT !.in = "escaped"] \in States(D, n)
    BY <1>1, MarksAre
  <2> QED
    BY <1>1, <2>1, <2>2, InArgumentIs
<1>3. CASE st.in = "rest"
  BY <1>3, ReadIs
<1>4. CASE st.in = "argument"
  BY <1>2, <1>4
<1>5. CASE st.in = "escaped"
  <2>1. [Write(st, st.buf[p]) EXCEPT !.in = "argument"] \in States(D, n)
    <3>1. NUL \in D
      OBVIOUS
    <3> QED
      BY <1>1, <3>1, MarksAre
  <2> QED
    BY <1>1, <1>5, <2>1, ReadIs
<1>6. CASE st.in = "blanks"
  <2>1. NewArgument(st, p) \in States(D, n)
    <3>1. Begun(st, p) \in States(D, n) /\ Begun(st, p).in = "argument"
      BY NewArgumentIs
    <3>2. Read(Begun(st, p), p) \in States(D, n)
      BY <1>2, <3>1
    <3>3. Len(st.argv) \in Nat /\ MAXARGV \in Nat
      BY MaxArgvAssumption DEF States
    <3>4. Len(st.argv) + 1 < MAXARGV \/ Len(st.argv) + 1 >= MAXARGV
      BY <3>3
    <3> QED
      BY <3>2, <3>4, NewArgumentIs
  <2>2. [st EXCEPT !.in = "rest"] \in States(D, n)
    BY MarksAre
  <2> QED
    BY <1>6, <2>1, <2>2, ReadIs
<1> QED
  BY <1>3, <1>4, <1>5, <1>6 DEF States

(* The text of an argument from a to k: the places of its characters. *)
Texts(s, a, k) == {j \in a..k : Kind(s, j) = "text"}

(* Where they are found in the buffer: from a on. *)
Taken(s, buf, a, at) == \A i \in 1..Len(at) : buf[a + i - 1] = s[at[i]]

(* All of them up to k are, and q is behind them, at the latest behind k. *)
Gathered(s, buf, a, k, q) ==
    \E at : /\ Lists(at, Texts(s, a, k)) /\ Taken(s, buf, a, at)
            /\ q = a + Len(at) /\ q <= k + 1

(* The argument from a goes on behind k. *)
Going(s, st, a, k) ==
    /\ a \in 1..(k + 1)
    /\ st.in = (IF Escapes(s, k) THEN "escaped" ELSE "argument")
    /\ st.quote = Open(s)[k]
    /\ \A j \in a..k : Kind(s, j) # "parts"
    /\ Gathered(s, st.buf, a, k, st.q)

(* The argument from a ended at e; its text stands from a on, a NUL behind it. *)
Ended(s, buf, a, e) ==
    /\ a \in 1..(e - 1) /\ e \in 1..(Len(s) + 1)
    /\ \A j \in a..(e - 1) : Kind(s, j) # "parts"
    /\ e = Len(s) + 1 \/ Kind(s, e) = "parts"
    /\ \E at : /\ Lists(at, Texts(s, a, e - 1)) /\ Taken(s, buf, a, at)
               /\ a + Len(at) <= e /\ buf[a + Len(at)] = NUL

(* What p has not come to is as it was typed. *)
Unread(s, buf, k) == (\A j \in (k + 1)..Len(s) : buf[j] = s[j]) /\ buf[Len(s) + 1] = NUL

(* Another character of text is put behind the others. *)
LEMMA GatherText ==
    ASSUME NEW s, Len(s) \in Nat, NEW p \in 1..Len(s), NEW a \in 1..p, NEW q,
           NEW buf, NEW new, Gathered(s, buf, a, p - 1, q), Kind(s, p) = "text",
           \A j \in 1..(Len(s) + 1) : new[j] = (IF j = q THEN s[p] ELSE buf[j])
    PROVE  Gathered(s, new, a, p, q + 1) /\ q \in a..p
<1>1. PICK at : /\ Lists(at, Texts(s, a, p - 1)) /\ Taken(s, buf, a, at)
                /\ q = a + Len(at) /\ q <= p - 1 + 1
  BY DEF Gathered
<1> DEFINE S == Texts(s, a, p - 1)
           m == Len(at)
           b == Append(at, p)
<1>2. S \in SUBSET Int /\ \A y \in S : y < p
  BY DEF Texts
<1>3. Texts(s, a, p) = S \cup {p}
  BY DEF Texts
<1>4. Lists(b, Texts(s, a, p))
  <2> HIDE DEF S
  <2>1. Lists(at, S)
    BY <1>1 DEF S
  <2>2. Lists(b, S \cup {p})
    BY <1>2, <2>1, ListsMore
  <2> QED
    BY <1>3, <2>2
<1>5. at \in Seq(S) /\ m \in Nat
  BY <1>1 DEF Lists
<1>6. Len(b) = m + 1 /\ b[m + 1] = p /\ \A i \in 1..m : b[i] = at[i]
  <2> HIDE DEF S
  <2> QED
    BY <1>5
<1> HIDE DEF b, m
<1>7. q = a + m /\ q \in a..p
  BY <1>1, <1>5 DEF m
<1>8. Taken(s, new, a, b)
  <2> SUFFICES ASSUME NEW i \in 1..(m + 1)
               PROVE  new[a + i - 1] = s[b[i]]
    BY <1>6 DEF Taken
  <2>1. a + i - 1 \in 1..(Len(s) + 1)
    BY <1>5, <1>7
  <2>2. CASE i = m + 1
    BY <1>5, <1>6, <1>7, <2>1, <2>2
  <2>3. CASE i \in 1..m
    <3>1. a + i - 1 # q
      BY <1>5, <1>7, <2>3
    <3>2. buf[a + i - 1] = s[at[i]]
      BY <1>1, <2>3 DEF Taken, m
    <3> QED
      BY <1>6, <2>1, <2>3, <3>1, <3>2
  <2> QED
    BY <1>5, <2>2, <2>3
<1>9. q + 1 = a + Len(b) /\ q + 1 <= p + 1
  BY <1>5, <1>6, <1>7
<1> QED
  BY <1>4, <1>7, <1>8, <1>9 DEF Gathered

(* A mark is passed over. *)
LEMMA GatherMark ==
    ASSUME NEW s, Len(s) \in Nat, NEW p \in 1..Len(s), NEW a \in 1..p, NEW q,
           NEW buf, Gathered(s, buf, a, p - 1, q), Kind(s, p) # "text"
    PROVE  Gathered(s, buf, a, p, q)
<1>1. PICK at : /\ Lists(at, Texts(s, a, p - 1)) /\ Taken(s, buf, a, at)
                /\ q = a + Len(at) /\ q <= p - 1 + 1
  BY DEF Gathered
<1>2. Texts(s, a, p) = Texts(s, a, p - 1)
  BY DEF Texts
<1>3. Len(at) \in Nat
  BY <1>1 DEF Lists
<1>4. q <= p + 1
  BY <1>1, <1>3
<1> QED
  BY <1>1, <1>2, <1>4 DEF Gathered

(* NULs at q and at the end: the argument is a string. *)
LEMMA GatherEnd ==
    ASSUME NEW s, Len(s) \in Nat, NEW p \in 1..(Len(s) + 1), NEW a \in 1..(p - 1), NEW q,
           NEW buf, NEW new, Gathered(s, buf, a, p - 1, q),
           \A j \in a..(p - 1) : Kind(s, j) # "parts",
           p = Len(s) + 1 \/ Kind(s, p) = "parts",
           \A j \in 1..(Len(s) + 1) : new[j] = (IF j = q \/ j = p THEN NUL ELSE buf[j])
    PROVE  Ended(s, new, a, p) /\ q \in a..p
<1>1. PICK at : /\ Lists(at, Texts(s, a, p - 1)) /\ Taken(s, buf, a, at)
                /\ q = a + Len(at) /\ q <= p - 1 + 1
  BY DEF Gathered
<1>2. Len(at) \in Nat
  BY <1>1 DEF Lists
<1>3. q \in a..p /\ q \in 1..(Len(s) + 1) /\ a + Len(at) <= p /\ new[a + Len(at)] = NUL
  BY <1>1, <1>2
<1>4. Taken(s, new, a, at)
  <2> SUFFICES ASSUME NEW i \in 1..Len(at)
               PROVE  new[a + i - 1] = s[at[i]]
    BY DEF Taken
  <2>1. a + i - 1 \in 1..(Len(s) + 1) /\ a + i - 1 # q /\ a + i - 1 # p
    BY <1>1, <1>2, <1>3
  <2>2. buf[a + i - 1] = s[at[i]]
    BY <1>1 DEF Taken
  <2> QED
    BY <2>1, <2>2
<1> QED
  BY <1>1, <1>3, <1>4 DEF Ended

(* What reading p makes of the argument from a. *)
Passed(s, st, t, a, p) ==
    /\ t.argv = st.argv
    /\ \A j \in 1..(Len(s) + 1) : j < a \/ j > p => t.buf[j] = st.buf[j]
    /\ \/ Kind(s, p) = "parts" /\ t.in = "blanks" /\ t.quote = NUL /\ Ended(s, t.buf, a, p)
       \/ Kind(s, p) # "parts" /\ Going(s, t, a, p)

(* A character of text is written, and the argument goes on. *)
LEMMA PassesText ==
    ASSUME NEW C, NUL \notin C, NEW s \in Seq(C), NEW p \in 1..Len(s), NEW a \in 1..p,
           NEW st \in States(C \cup {NUL}, Len(s)), Going(s, st, a, p - 1),
           st.buf[p] = s[p], Kind(s, p) = "text", Open(s)[p] = Open(s)[p - 1],
           ~Escapes(s, p), NEW t,
           t = Write(st, s[p]) \/ t = [Write(st, s[p]) EXCEPT !.in = "argument"],
           Write(st, s[p]).in = "argument" \/ t = [Write(st, s[p]) EXCEPT !.in = "argument"]
    PROVE  Passed(s, st, t, a, p)
<1> DEFINE D == C \cup {NUL}
           n == Len(s)
           w == Write(st, s[p])
<1>1. n \in Nat /\ s[p] \in D /\ NUL \in D
  BY ElementOfSeq
<1>2. Gathered(s, st.buf, a, p - 1, st.q) /\ st.quote = Open(s)[p - 1]
      /\ \A j \in a..(p - 1) : Kind(s, j) # "parts"
  BY DEF Going
<1> HIDE DEF D, n
<1>3. st \in States(D, n)
  BY DEF D, n
<1>4. /\ w \in States(D, n) /\ w.argv = st.argv /\ w.q = st.q + 1 /\ w.quote = st.quote
      /\ \A j \in 1..(n + 1) : w.buf[j] = (IF j = st.q THEN s[p] ELSE st.buf[j])
  BY <1>1, <1>3, WriteIs
<1>5. Gathered(s, w.buf, a, p, st.q + 1) /\ st.q \in a..p
  <2> DEFINE q == st.q
             buf == st.buf
             new == w.buf
  <2>1. Gathered(s, buf, a, p - 1, q) /\ Len(s) \in Nat
        /\ \A j \in 1..(Len(s) + 1) : new[j] = (IF j = q THEN s[p] ELSE buf[j])
    BY <1>1, <1>2, <1>4 DEF n
  <2> HIDE DEF q, buf, new
  <2>2. Gathered(s, new, a, p, q + 1) /\ q \in a..p
    BY <2>1, GatherText
  <2> QED
    BY <2>2 DEF q, new
<1> HIDE DEF w
<1>6. /\ t.argv = w.argv /\ t.q = w.q /\ t.quote = w.quote /\ t.buf = w.buf
      /\ t.in = "argument"
  <2>1. w.in = "argument" \/ t = [w EXCEPT !.in = "argument"]
    BY DEF w
  <2>2. t = w \/ t = [w EXCEPT !.in = "argument"]
    BY DEF w
  <2>3. CASE t = w /\ w.in = "argument"
    BY <2>3
  <2>4. CASE t = [w EXCEPT !.in = "argument"]
    BY <1>1, <1>4, <2>4, MarksAre
  <2> QED
    BY <2>1, <2>2, <2>3, <2>4
<1>7. \A j \in 1..(Len(s) + 1) : j < a \/ j > p => t.buf[j] = st.buf[j]
  BY <1>1, <1>4, <1>5, <1>6 DEF n
<1>8. \A j \in a..p : Kind(s, j) # "parts"
  <2>1. \A j \in a..p : j \in a..(p - 1) \/ j = p
    OBVIOUS
  <2> QED
    BY <1>2, <2>1
<1>9. Gathered(s, t.buf, a, p, t.q)
  BY <1>4, <1>5, <1>6
<1>10. Going(s, t, a, p)
  BY <1>2, <1>4, <1>6, <1>8, <1>9 DEF Going
<1> QED
  BY <1>4, <1>6, <1>7, <1>10 DEF Passed

(* A mark changes the quote or escapes what is next, and nothing is written. *)
LEMMA PassesMark ==
    ASSUME NEW s, Len(s) \in Nat, NEW p \in 1..Len(s), NEW a \in 1..p,
           NEW st, Going(s, st, a, p - 1), Kind(s, p) = "mark", NEW t,
           t.buf = st.buf, t.argv = st.argv, t.q = st.q, t.quote = Open(s)[p],
           t.in = (IF Escapes(s, p) THEN "escaped" ELSE "argument")
    PROVE  Passed(s, st, t, a, p)
<1>1. Gathered(s, st.buf, a, p - 1, st.q) /\ \A j \in a..(p - 1) : Kind(s, j) # "parts"
  BY DEF Going
<1>2. Gathered(s, t.buf, a, p, t.q)
  <2> DEFINE q == st.q
             buf == st.buf
  <2>1. Gathered(s, buf, a, p - 1, q)
    BY <1>1
  <2> HIDE DEF q, buf
  <2>2. Gathered(s, buf, a, p, q)
    BY <2>1, GatherMark
  <2> QED
    BY <2>2 DEF q, buf
<1>3. \A j \in a..p : Kind(s, j) # "parts"
  <2>1. \A j \in a..p : j \in a..(p - 1) \/ j = p
    OBVIOUS
  <2> QED
    BY <1>1, <2>1
<1>4. Going(s, t, a, p)
  BY <1>2, <1>3 DEF Going
<1> QED
  BY <1>4 DEF Passed

(* What the end of the argument from a, at p, makes of st. *)
Closed(s, st, t, a, p) ==
    /\ t.argv = st.argv
    /\ \A j \in 1..(Len(s) + 1) : j < a \/ j > p => t.buf[j] = st.buf[j]
    /\ t.in = (IF st.buf[p] = NUL THEN "rest" ELSE "blanks")
    /\ t.quote = st.quote
    /\ Ended(s, t.buf, a, p)

(* A blank outside quotes, or the end of the line: NULs are put. *)
LEMMA PassesEnd ==
    ASSUME NEW C, NEW s \in Seq(C), NEW p \in 1..(Len(s) + 1), NEW a \in 1..(p - 1),
           NEW st \in States(C \cup {NUL}, Len(s)), Going(s, st, a, p - 1),
           p = Len(s) + 1 \/ Kind(s, p) = "parts"
    PROVE  Closed(s, st, Cut(st, p), a, p)
<1> DEFINE D == C \cup {NUL}
           t == Cut(st, p)
           q == st.q
           buf == st.buf
           new == t.buf
<1>1. NUL \in D /\ st \in States(D, Len(s)) /\ Len(s) \in Nat
  OBVIOUS
<1> HIDE DEF D
<1>2. /\ t.argv = st.argv /\ t.quote = st.quote
      /\ t.in = (IF st.buf[p] = NUL THEN "rest" ELSE "blanks")
      /\ \A j \in 1..(Len(s) + 1) : new[j] = (IF j = q \/ j = p THEN NUL ELSE buf[j])
  BY <1>1, CutIs
<1>3. Gathered(s, buf, a, p - 1, q) /\ \A j \in a..(p - 1) : Kind(s, j) # "parts"
  BY DEF Going
<1>4. Ended(s, new, a, p) /\ q \in a..p
  <2> HIDE DEF q, buf, new
  <2>1. /\ Len(s) \in Nat /\ p \in 1..(Len(s) + 1) /\ a \in 1..(p - 1)
        /\ p = Len(s) + 1 \/ Kind(s, p) = "parts"
    BY <1>1
  <2>2. \A j \in 1..(Len(s) + 1) : new[j] = (IF j = q \/ j = p THEN NUL ELSE buf[j])
    BY <1>2
  <2> QED
    BY ONLY <1>3, <2>1, <2>2, GatherEnd
<1>5. \A j \in 1..(Len(s) + 1) : j < a \/ j > p => new[j] = buf[j]
  BY <1>2, <1>4
<1> QED
  BY <1>2, <1>4, <1>5 DEF Closed

(* Reading a character of an argument. *)
LEMMA ArgumentGoesOn ==
    ASSUME NEW C, NUL \notin C, NEW s \in Seq(C), NEW p \in 1..Len(s), NEW a \in 1..p,
           NEW st \in States(C \cup {NUL}, Len(s)), Going(s, st, a, p - 1),
           a < p \/ Kind(s, p) # "parts", st.buf[p] = s[p]
    PROVE  Passed(s, st, Read(st, p), a, p)
<1> DEFINE D == C \cup {NUL}
           ch == s[p]
           t == Read(st, p)
<1>1. ch \in D /\ ch # NUL /\ Len(s) \in Nat /\ p \in 1..(Len(s) + 1) /\ NUL \in D
  BY ElementOfSeq
<1>2. /\ st.in = (IF Escapes(s, p - 1) THEN "escaped" ELSE "argument")
      /\ st.quote = Open(s)[p - 1]
  BY DEF Going
<1>3. /\ BLANK \notin QUOTES /\ BACKSLASH \notin QUOTES /\ BLANK # BACKSLASH
      /\ NUL \notin QUOTES /\ NUL # BLANK /\ NUL # BACKSLASH
  BY DEF BLANK, QUOTES, BACKSLASH, NUL
<1> HIDE DEF D
<1>4. st \in States(D, Len(s))
  BY DEF D
<1>5. CASE Escapes(s, p - 1)
  <2>1. Kind(s, p) = "text" /\ Open(s)[p] = Open(s)[p - 1] /\ ~Escapes(s, p)
    BY <1>1, <1>5, KindIs
  <2>2. t = [Write(st, s[p]) EXCEPT !.in = "argument"]
    BY <1>1, <1>2, <1>5, ReadIs
  <2> HIDE DEF t
  <2> QED
    BY <2>1, <2>2, PassesText DEF t
<1>6. CASE ~Escapes(s, p - 1)
  <2>1. t = InArgument(st, p) /\ st.in = "argument"
    BY <1>2, <1>6, ReadIs
  <2> HIDE DEF t
  <2>2. CASE ch = BLANK /\ st.quote = NUL
    <3>1. Kind(s, p) = "parts"
      BY <1>1, <1>2, <1>6, <2>2, KindIs
    <3>2. t = Cut(st, p) /\ a \in 1..(p - 1)
      BY <2>1, <2>2, <3>1, InArgumentIs
    <3>3. Closed(s, st, t, a, p)
      <4>1. Closed(s, st, Cut(st, p), a, p)
        BY <1>1, <3>1, <3>2, PassesEnd
      <4> QED
        BY <3>2, <4>1
    <3> QED
      BY <1>1, <2>2, <3>1, <3>3 DEF Passed, Closed, t
  <2>3. CASE ch \in QUOTES /\ st.quote = NUL
    <3>1. Kind(s, p) = "mark" /\ Open(s)[p] = ch /\ ~Escapes(s, p)
      BY <1>1, <1>2, <1>6, <2>3, KindIs
    <3>2. t = [st EXCEPT !.quote = ch]
      BY <2>1, <2>3, InArgumentIs
    <3>3. /\ t.buf = st.buf /\ t.argv = st.argv /\ t.q = st.q /\ t.quote = ch
          /\ t.in = st.in
      BY <1>1, <1>4, <3>2, MarksAre
    <3> QED
      BY <1>1, <2>1, <3>1, <3>3, PassesMark DEF t
  <2>4. CASE ch \in QUOTES /\ st.quote = ch
    <3>1. Kind(s, p) = "mark" /\ Open(s)[p] = NUL /\ ~Escapes(s, p)
      BY <1>1, <1>2, <1>6, <2>4, KindIs
    <3>2. t = [st EXCEPT !.quote = NUL]
      BY <2>1, <2>4, InArgumentIs
    <3>3. /\ t.buf = st.buf /\ t.argv = st.argv /\ t.q = st.q /\ t.quote = NUL
          /\ t.in = st.in
      BY <1>1, <1>4, <3>2, MarksAre
    <3> QED
      BY <1>1, <2>1, <3>1, <3>3, PassesMark DEF t
  <2>5. CASE ch = BACKSLASH
    <3>1. Kind(s, p) = "mark" /\ Open(s)[p] = st.quote /\ Escapes(s, p)
      BY <1>1, <1>2, <1>6, <2>5, KindIs
    <3>2. t = [st EXCEPT !.in = "escaped"]
      BY <2>1, <2>5, InArgumentIs
    <3>3. /\ t.buf = st.buf /\ t.argv = st.argv /\ t.q = st.q /\ t.quote = st.quote
          /\ t.in = "escaped"
      BY <1>1, <1>4, <3>2, MarksAre
    <3> QED
      BY <1>1, <3>1, <3>3, PassesMark DEF t
  <2>6. CASE /\ ch # BACKSLASH /\ ~(ch = BLANK /\ st.quote = NUL)
             /\ ch \in QUOTES => st.quote # NUL /\ st.quote # ch
    <3>1. t = Write(st, s[p])
      BY <1>1, <2>1, <2>6, InArgumentIs
    <3>2. Kind(s, p) = "text" /\ Open(s)[p] = Open(s)[p - 1] /\ ~Escapes(s, p)
      <4>1. CASE ch = BLANK
        BY <1>1, <1>2, <1>6, <2>6, <4>1, KindIs
      <4>2. CASE ch \in QUOTES
        BY <1>1, <1>2, <1>6, <2>6, <4>2, KindIs
      <4>3. CASE ch \notin QUOTES \cup {BLANK, BACKSLASH}
        BY <1>1, <1>6, <4>3, KindIs
      <4> QED
        BY <2>6, <4>1, <4>2, <4>3
    <3>3. Write(st, s[p]).in = "argument"
      BY <1>1, <1>4, <2>1, WriteIs
    <3> QED
      BY <3>1, <3>2, <3>3, PassesText DEF t
  <2> QED
    BY <2>2, <2>3, <2>4, <2>5, <2>6
<1> QED
  BY <1>5, <1>6

(* The NUL ends an argument. *)
LEMMA ArgumentEnds ==
    ASSUME NEW C, NEW s \in Seq(C), NEW a \in 1..Len(s),
           NEW st \in States(C \cup {NUL}, Len(s)), Going(s, st, a, Len(s)),
           st.buf[Len(s) + 1] = NUL
    PROVE  /\ Read(st, Len(s) + 1).argv = st.argv
           /\ \A j \in 1..(a - 1) : Read(st, Len(s) + 1).buf[j] = st.buf[j]
           /\ Ended(s, Read(st, Len(s) + 1).buf, a, Len(s) + 1)
<1> DEFINE p == Len(s) + 1
<1>1. Len(s) \in Nat /\ p \in 1..(Len(s) + 1) /\ a \in 1..(p - 1) /\ p - 1 = Len(s)
  OBVIOUS
<1>2. st.in \in {"argument", "escaped"} /\ st.buf[p] = NUL
  BY DEF Going
<1> HIDE DEF p
<1>3. Read(st, p) = Cut(st, p)
  BY <1>2, ReadIs, InArgumentIs
<1>4. Closed(s, st, Cut(st, p), a, p)
  <2>1. Going(s, st, a, p - 1) /\ p = Len(s) + 1
    BY <1>1 DEF p
  <2> QED
    BY <1>1, <2>1, PassesEnd
<1>5. \A j \in 1..(a - 1) : j \in 1..(Len(s) + 1)
  BY <1>1
<1> QED
  BY <1>3, <1>4, <1>5 DEF p, Closed

(* Where words begin, and those that begin at k or before. *)
WordStarts(s) ==
    {k \in 1..Len(s) : Kind(s, k) # "parts" /\ (k = 1 \/ Kind(s, k - 1) = "parts")}
StartsTo(s, k) == {j \in WordStarts(s) : j <= k}

(* The pointers are to the words up to k, as far as there is room for them. *)
Pointed(s, argv, k) ==
    \E all : /\ Lists(all, StartsTo(s, k))
             /\ argv \in Seq(Nat) /\ Len(argv) <= Len(all) /\ Len(argv) <= MAXARGV
             /\ Len(argv) < MAXARGV => Len(argv) = Len(all)
             /\ \A i \in 1..Len(argv) : argv[i] = all[i]

(* The first m arguments ended at b or before. *)
AllEnded(s, buf, argv, m, b) ==
    \A i \in 1..m : \E e \in 1..b : Ended(s, buf, argv[i], e)

(* What execute has done when p has passed k. *)
ReadTo(s, st, k) ==
    LET m == Len(st.argv)
    IN  /\ Unread(s, st.buf, k)
        /\ Pointed(s, st.argv, k)
        /\ \/ /\ st.in = "rest" /\ m = MAXARGV
              /\ Unread(s, st.buf, st.argv[m] - 1)
              /\ AllEnded(s, st.buf, st.argv, m - 1, st.argv[m] - 1)
           \/ /\ st.in = "blanks" /\ m < MAXARGV
              /\ st.quote = NUL /\ Open(s)[k] = NUL /\ (k = 0 \/ Kind(s, k) = "parts")
              /\ AllEnded(s, st.buf, st.argv, m, k)
           \/ /\ m \in 1..(MAXARGV - 1) /\ st.argv[m] \in 1..k
              /\ Going(s, st, st.argv[m], k)
              /\ AllEnded(s, st.buf, st.argv, m - 1, st.argv[m] - 1)

(* A word that begins at p is the last of them so far. *)
LEMMA StartsGrow ==
    ASSUME NEW s, Len(s) \in Nat, NEW p \in 1..Len(s)
    PROVE  /\ StartsTo(s, p) = IF p \in WordStarts(s) THEN StartsTo(s, p - 1) \cup {p}
                               ELSE StartsTo(s, p - 1)
           /\ StartsTo(s, p - 1) \in SUBSET Int
           /\ \A j \in StartsTo(s, p - 1) : j < p
<1>1. WordStarts(s) \in SUBSET (1..Len(s))
  BY DEF WordStarts
<1>2. \A j \in WordStarts(s) : j \in Int /\ (j <= p <=> j <= p - 1 \/ j = p) /\ (j <= p - 1 => j < p)
  BY <1>1
<1> QED
  BY <1>2 DEF StartsTo

(* No pointer to it is needed if none begins or there is no room. *)
LEMMA PointedAsWell ==
    ASSUME NEW s, Len(s) \in Nat, NEW p \in 1..Len(s), NEW argv, Pointed(s, argv, p - 1),
           p \notin WordStarts(s) \/ Len(argv) = MAXARGV
    PROVE  Pointed(s, argv, p)
<1>1. CASE p \notin WordStarts(s)
  <2>1. StartsTo(s, p) = StartsTo(s, p - 1)
    BY <1>1, StartsGrow
  <2> QED
    BY <2>1 DEF Pointed
<1>2. CASE p \in WordStarts(s) /\ Len(argv) = MAXARGV
  <2> DEFINE S == StartsTo(s, p - 1)
  <2>1. PICK all : /\ Lists(all, S)
                   /\ argv \in Seq(Nat) /\ Len(argv) <= Len(all) /\ Len(argv) <= MAXARGV
                   /\ Len(argv) < MAXARGV => Len(argv) = Len(all)
                   /\ \A i \in 1..Len(argv) : argv[i] = all[i]
    BY DEF Pointed
  <2>2. S \in SUBSET Int /\ (\A y \in S : y < p) /\ StartsTo(s, p) = S \cup {p}
    BY <1>2, StartsGrow
  <2> HIDE DEF S
  <2> DEFINE b == Append(all, p)
  <2>3. Lists(b, StartsTo(s, p))
    BY <2>1, <2>2, ListsMore
  <2>4. all \in Seq(S) /\ Len(all) \in Nat /\ Len(argv) \in Nat
    BY <2>1 DEF Lists
  <2>5. Len(b) = Len(all) + 1 /\ \A i \in 1..Len(all) : b[i] = all[i]
    BY <2>4
  <2> HIDE DEF b
  <2>6. Len(argv) <= Len(b) /\ \A i \in 1..Len(argv) : argv[i] = b[i]
    BY <2>1, <2>4, <2>5
  <2>7. ~(Len(argv) < MAXARGV)
    BY <1>2, <2>4
  <2> QED
    BY <2>1, <2>3, <2>6, <2>7 DEF Pointed
<1> QED
  BY <1>1, <1>2

(* Otherwise the pointer is put behind the others. *)
LEMMA PointedToo ==
    ASSUME NEW s, Len(s) \in Nat, NEW p \in 1..Len(s), NEW argv, Pointed(s, argv, p - 1),
           p \in WordStarts(s), Len(argv) < MAXARGV
    PROVE  Pointed(s, Append(argv, p), p)
<1> DEFINE S == StartsTo(s, p - 1)
<1>1. PICK all : /\ Lists(all, S)
                 /\ argv \in Seq(Nat) /\ Len(argv) = Len(all)
                 /\ \A i \in 1..Len(argv) : argv[i] = all[i]
  BY DEF Pointed
<1>2. S \in SUBSET Int /\ (\A y \in S : y < p) /\ StartsTo(s, p) = S \cup {p}
  BY StartsGrow
<1> HIDE DEF S
<1> DEFINE b == Append(all, p)
           c == Append(argv, p)
<1>3. Lists(b, StartsTo(s, p))
  BY <1>1, <1>2, ListsMore
<1>4. all \in Seq(S) /\ Len(all) \in Nat /\ MAXARGV \in Nat
  BY <1>1, MaxArgvAssumption DEF Lists
<1>5. Len(b) = Len(all) + 1 /\ b[Len(all) + 1] = p /\ \A i \in 1..Len(all) : b[i] = all[i]
  BY <1>4
<1>6. /\ c \in Seq(Nat) /\ Len(c) = Len(argv) + 1 /\ c[Len(argv) + 1] = p
      /\ \A i \in 1..Len(argv) : c[i] = argv[i]
  BY <1>1
<1> HIDE DEF b, c
<1>7. Len(c) = Len(b) /\ Len(c) <= MAXARGV /\ \A i \in 1..Len(c) : c[i] = b[i]
  <2>1. Len(c) = Len(b) /\ Len(c) <= MAXARGV
    BY <1>1, <1>4, <1>5, <1>6
  <2>2. ASSUME NEW i \in 1..Len(c)
        PROVE  c[i] = b[i]
    <3>1. i = Len(argv) + 1 \/ i \in 1..Len(argv)
      BY <1>1, <1>4, <1>6
    <3> QED
      BY <1>1, <1>5, <1>6, <3>1
  <2> QED
    BY <2>1, <2>2
<1>8. Len(c) <= Len(b)
  BY <1>4, <1>5, <1>7
<1>9. Pointed(s, c, p)
  BY <1>3, <1>6, <1>7, <1>8 DEF Pointed
<1> QED
  BY <1>9 DEF c

(* An argument that ended stays as it is where nothing is written up to its end. *)
LEMMA EndedStays ==
    ASSUME NEW s, Len(s) \in Nat, NEW buf, NEW new, NEW a, NEW e, Ended(s, buf, a, e),
           \A j \in 1..e : new[j] = buf[j]
    PROVE  Ended(s, new, a, e)
<1>1. a \in 1..(e - 1) /\ e \in 1..(Len(s) + 1)
  BY DEF Ended
<1>2. PICK at : /\ Lists(at, Texts(s, a, e - 1)) /\ Taken(s, buf, a, at)
                /\ a + Len(at) <= e /\ buf[a + Len(at)] = NUL
  BY DEF Ended
<1>3. Len(at) \in Nat
  BY <1>2 DEF Lists
<1>4. new[a + Len(at)] = NUL
  <2>1. a + Len(at) \in 1..e
    BY <1>1, <1>2, <1>3
  <2> QED
    BY <1>2, <2>1
<1>5. Taken(s, new, a, at)
  <2> SUFFICES ASSUME NEW i \in 1..Len(at)
               PROVE  new[a + i - 1] = s[at[i]]
    BY DEF Taken
  <2>1. a + i - 1 \in 1..e
    BY <1>1, <1>2, <1>3
  <2> QED
    BY <1>2, <2>1 DEF Taken
<1> QED
  BY <1>2, <1>4, <1>5 DEF Ended

(* So do several. *)
LEMMA AllEndedStay ==
    ASSUME NEW s, Len(s) \in Nat, NEW buf, NEW new, NEW argv, NEW more, NEW m, NEW b \in Int,
           AllEnded(s, buf, argv, m, b), \A j \in 1..b : new[j] = buf[j],
           \A i \in 1..m : more[i] = argv[i]
    PROVE  AllEnded(s, new, more, m, b)
<1> SUFFICES ASSUME NEW i \in 1..m
             PROVE  \E e \in 1..b : Ended(s, new, more[i], e)
  BY DEF AllEnded
<1>1. PICK e \in 1..b : Ended(s, buf, argv[i], e)
  BY DEF AllEnded
<1>2. \A j \in 1..e : new[j] = buf[j]
  BY <1>1
<1>3. Ended(s, new, argv[i], e)
  BY <1>1, <1>2, EndedStays
<1> QED
  BY <1>3

(* Before p has read anything. *)
LEMMA ReadToNone ==
    ASSUME NEW C, NEW s \in Seq(C)
    PROVE  Start(s) \in States(C \cup {NUL}, Len(s)) /\ ReadTo(s, Start(s), 0)
<1> DEFINE b == Append(s, NUL)
<1>1. s \in Seq(C \cup {NUL}) /\ Len(s) \in Nat
  BY ElementOfSeq
<1>2. /\ b \in [1..(Len(s) + 1) -> C \cup {NUL}]
      /\ b[Len(s) + 1] = NUL /\ \A j \in 1..Len(s) : b[j] = s[j]
  <2> DEFINE D == C \cup {NUL}
  <2>1. s \in Seq(D) /\ NUL \in D
    BY <1>1
  <2> HIDE DEF D
  <2>2. /\ b \in Seq(D) /\ Len(b) = Len(s) + 1
        /\ b[Len(s) + 1] = NUL /\ \A j \in 1..Len(s) : b[j] = s[j]
    BY <2>1
  <2> HIDE DEF b
  <2>3. b \in [1..(Len(s) + 1) -> D]
    BY <2>2
  <2> QED
    BY <2>2, <2>3 DEF D
<1> HIDE DEF b
<1>3. Start(s) = [buf |-> b, argv |-> << >>, q |-> 0, quote |-> NUL, in |-> "blanks"]
  BY DEF Start, b
<1>4. << >> \in Seq(Nat) /\ Len(<< >>) = 0 /\ 0 \in Nat
  OBVIOUS
<1>5. Start(s) \in States(C \cup {NUL}, Len(s))
  BY <1>2, <1>3, <1>4 DEF States
<1>6. Pointed(s, << >>, 0)
  <2>1. StartsTo(s, 0) = {}
    BY <1>1 DEF StartsTo, WordStarts
  <2>2. Lists(<< >>, StartsTo(s, 0))
    BY <2>1, ListsNone
  <2>3. Len(<< >>) <= MAXARGV /\ Len(<< >>) <= Len(<< >>)
    BY <1>4, MaxArgvAssumption
  <2> QED
    BY <1>4, <2>2, <2>3 DEF Pointed
<1>7. Unread(s, b, 0)
  BY <1>1, <1>2 DEF Unread
<1>8. Open(s)[0] = NUL
  BY <1>1, OpenIs
<1>9. AllEnded(s, b, << >>, 0, 0)
  BY DEF AllEnded
<1>10. 0 < MAXARGV
  BY MaxArgvAssumption
<1> QED
  BY <1>3, <1>4, <1>5, <1>6, <1>7, <1>8, <1>9, <1>10 DEF ReadTo

(* What is unread stays so where nothing is written behind p. *)
LEMMA UnreadStays ==
    ASSUME NEW s, Len(s) \in Nat, NEW p \in 1..Len(s), NEW buf, NEW new, Unread(s, buf, p - 1),
           \A j \in 1..(Len(s) + 1) : j > p => new[j] = buf[j]
    PROVE  Unread(s, new, p) /\ buf[p] = s[p]
<1>1. /\ \A j \in (p + 1)..Len(s) : j \in 1..(Len(s) + 1) /\ j > p /\ j \in (p - 1 + 1)..Len(s)
      /\ Len(s) + 1 \in 1..(Len(s) + 1) /\ Len(s) + 1 > p /\ p \in (p - 1 + 1)..Len(s)
  OBVIOUS
<1> QED
  BY <1>1 DEF Unread

(* Nothing is escaped behind a blank that parts. *)
LEMMA NoneEscaped ==
    ASSUME NEW s, Len(s) \in Nat, NEW k \in 0..Len(s), k = 0 \/ Kind(s, k) = "parts"
    PROVE  ~Escapes(s, k)
<1>1. CASE k = 0
  BY <1>1 DEF Escapes
<1>2. CASE k \in 1..Len(s)
  BY <1>2, KindIs
<1> QED
  BY <1>1, <1>2

(* At a blank between arguments. *)
LEMMA ReadsBlanks ==
    ASSUME NEW C, NUL \notin C, NEW s \in Seq(C), NEW p \in 1..Len(s),
           NEW st \in States(C \cup {NUL}, Len(s)), ReadTo(s, st, p - 1),
           st.in = "blanks", s[p] = BLANK
    PROVE  ReadTo(s, Read(st, p), p)
<1> DEFINE m == Len(st.argv)
<1>1. Len(s) \in Nat /\ s[p] \in C /\ p - 1 \in 0..Len(s)
  BY ElementOfSeq
<1>2. /\ Unread(s, st.buf, p - 1) /\ Pointed(s, st.argv, p - 1)
      /\ m < MAXARGV /\ st.quote = NUL /\ Open(s)[p - 1] = NUL
      /\ p - 1 = 0 \/ Kind(s, p - 1) = "parts"
      /\ AllEnded(s, st.buf, st.argv, m, p - 1)
  BY DEF ReadTo, Going
<1>3. ~Escapes(s, p - 1)
  BY <1>1, <1>2, NoneEscaped
<1>4. Kind(s, p) = "parts" /\ Open(s)[p] = NUL
  BY <1>1, <1>2, <1>3, KindIs
<1>5. Unread(s, st.buf, p) /\ st.buf[p] = s[p]
  BY <1>1, <1>2, UnreadStays
<1>6. Read(st, p) = st
  BY <1>5, ReadIs
<1>7. p \notin WordStarts(s)
  BY <1>4 DEF WordStarts
<1>8. Pointed(s, st.argv, p)
  <2> DEFINE argv == st.argv
  <2>1. Pointed(s, argv, p - 1)
    BY <1>2
  <2> HIDE DEF argv
  <2>2. Pointed(s, argv, p)
    BY <1>1, <1>7, <2>1, PointedAsWell
  <2> QED
    BY <2>2 DEF argv
<1>9. AllEnded(s, st.buf, st.argv, m, p)
  <2>1. \A e \in 1..(p - 1) : e \in 1..p
    OBVIOUS
  <2> QED
    BY <1>2, <2>1 DEF AllEnded
<1> QED
  BY <1>2, <1>4, <1>5, <1>6, <1>8, <1>9 DEF ReadTo

(* Where an argument begins. *)
LEMMA ReadsBeginning ==
    ASSUME NEW C, NUL \notin C, NEW s \in Seq(C), NEW p \in 1..Len(s),
           NEW st \in States(C \cup {NUL}, Len(s)), ReadTo(s, st, p - 1),
           st.in = "blanks", s[p] # BLANK
    PROVE  ReadTo(s, Read(st, p), p)
<1> DEFINE D == C \cup {NUL}
           n == Len(s)
           m == Len(st.argv)
           argv == Append(st.argv, p)
           u == Begun(st, p)
           t == Read(st, p)
<1>1. /\ n \in Nat /\ s[p] \in C /\ p - 1 \in 0..n /\ p \in 1..(n + 1) /\ NUL \in D
      /\ p \in Nat
  BY ElementOfSeq
<1>2. /\ Unread(s, st.buf, p - 1) /\ Pointed(s, st.argv, p - 1)
      /\ m < MAXARGV /\ st.quote = NUL /\ Open(s)[p - 1] = NUL
      /\ p - 1 = 0 \/ Kind(s, p - 1) = "parts"
      /\ AllEnded(s, st.buf, st.argv, m, p - 1)
  BY DEF ReadTo, Going
<1>3. ~Escapes(s, p - 1)
  BY <1>1, <1>2, NoneEscaped
<1>4. Kind(s, p) # "parts"
  BY <1>1, <1>2, <1>3, KindIs
<1>5. Unread(s, st.buf, p) /\ st.buf[p] = s[p]
  BY <1>1, <1>2, UnreadStays
<1>6. p \in WordStarts(s)
  BY <1>1, <1>2, <1>4 DEF WordStarts
<1>7. st.argv \in Seq(Nat) /\ m \in Nat /\ MAXARGV \in Nat
  BY MaxArgvAssumption DEF States
<1>8. Pointed(s, argv, p)
  <2> DEFINE old == st.argv
  <2>1. Pointed(s, old, p - 1) /\ Len(old) < MAXARGV
    BY <1>2
  <2> HIDE DEF old, argv
  <2>2. Pointed(s, Append(old, p), p)
    BY <1>1, <1>6, <2>1, PointedToo
  <2> QED
    BY <2>2 DEF old, argv
<1>9. Len(argv) = m + 1 /\ argv[m + 1] = p /\ \A i \in 1..m : argv[i] = st.argv[i]
  BY <1>1, <1>7
<1>10. t = NewArgument(st, p)
  BY <1>1, <1>5, ReadIs
<1> HIDE DEF D, argv, m, n
<1>11. st \in States(D, n)
  BY DEF D, n
<1>12. CASE m + 1 >= MAXARGV
  <2>1. t = [buf |-> st.buf, argv |-> argv, q |-> st.q, quote |-> st.quote, in |-> "rest"]
    BY <1>1, <1>10, <1>11, <1>12, NewArgumentIs DEF argv, m
  <2> HIDE DEF t
  <2>2. t.buf = st.buf /\ t.argv = argv /\ t.in = "rest"
    BY <2>1
  <2>3. Len(t.argv) = MAXARGV /\ t.argv[MAXARGV] = p /\ MAXARGV - 1 = m
    BY <1>2, <1>7, <1>9, <1>12, <2>2
  <2>4. AllEnded(s, t.buf, t.argv, m, p - 1)
    BY <1>2, <1>9, <2>2, Zenon DEF AllEnded
  <2>5. ReadTo(s, t, p)
    BY <1>2, <1>5, <1>8, <2>2, <2>3, <2>4 DEF ReadTo
  <2> QED
    BY <2>5 DEF t
<1>13. CASE m + 1 < MAXARGV
  <2>1. /\ u \in States(D, n)
        /\ u = [buf |-> st.buf, argv |-> argv, q |-> p, quote |-> st.quote, in |-> "argument"]
        /\ t = Read(u, p)
    BY <1>1, <1>10, <1>11, <1>13, NewArgumentIs, SMTT(30) DEF argv, m
  <2> HIDE DEF t, u
  <2>2. u.buf = st.buf /\ u.argv = argv /\ u.q = p /\ u.quote = st.quote /\ u.in = "argument"
    BY <2>1
  <2>3. Gathered(s, u.buf, p, p - 1, u.q)
    <3>1. Texts(s, p, p - 1) = {}
      BY <1>1 DEF Texts
    <3>2. Lists(<< >>, Texts(s, p, p - 1))
      BY <3>1, ListsNone
    <3>3. Taken(s, u.buf, p, << >>)
      BY DEF Taken
    <3>4. u.q = p + Len(<< >>) /\ u.q <= p - 1 + 1
      BY <1>1, <2>2
    <3> QED
      BY <3>2, <3>3, <3>4 DEF Gathered
  <2>4. Going(s, u, p, p - 1)
    <3>1. p \in 1..(p - 1 + 1) /\ \A j \in p..(p - 1) : FALSE
      BY <1>1
    <3> QED
      BY <1>2, <1>3, <2>2, <2>3, <3>1 DEF Going
  <2>5. Passed(s, u, t, p, p)
    <3>1. p \in 1..p /\ u.buf[p] = s[p] /\ u \in States(C \cup {NUL}, Len(s))
      BY <1>1, <1>5, <2>1, <2>2 DEF D, n
    <3>2. Passed(s, u, Read(u, p), p, p)
      BY <1>4, <2>4, <3>1, ArgumentGoesOn
    <3> QED
      BY <2>1, <3>2
  <2>6. /\ t.argv = argv /\ Going(s, t, p, p)
        /\ \A j \in 1..(Len(s) + 1) : j < p \/ j > p => t.buf[j] = st.buf[j]
    BY <1>4, <2>2, <2>5 DEF Passed
  <2>7. Unread(s, t.buf, p)
    <3> DEFINE buf == st.buf
               new == t.buf
    <3>1. Unread(s, buf, p - 1) /\ \A j \in 1..(Len(s) + 1) : j > p => new[j] = buf[j]
      BY <1>2, <2>6
    <3> HIDE DEF buf, new
    <3>2. Unread(s, new, p)
      BY <1>1, <3>1, UnreadStays DEF n
    <3> QED
      BY <3>2 DEF new
  <2>8. AllEnded(s, t.buf, t.argv, m, p - 1)
    <3> DEFINE buf == st.buf
               new == t.buf
               old == st.argv
               more == t.argv
    <3>1. \A j \in 1..(p - 1) : new[j] = buf[j]
      <4>1. \A j \in 1..(p - 1) : j \in 1..(Len(s) + 1) /\ j < p
        BY <1>1 DEF n
      <4> QED
        BY <2>6, <4>1
    <3>2. \A i \in 1..m : more[i] = old[i]
      BY <1>9, <2>6
    <3>3. AllEnded(s, buf, old, m, p - 1) /\ p - 1 \in Int /\ Len(s) \in Nat
      BY <1>1, <1>2 DEF n
    <3> HIDE DEF buf, new, old, more
    <3>4. AllEnded(s, new, more, m, p - 1)
      BY <3>1, <3>2, <3>3, AllEndedStay
    <3> QED
      BY <3>4 DEF new, more
  <2>9. Len(t.argv) = m + 1 /\ t.argv[m + 1] = p /\ m + 1 - 1 = m
        /\ m + 1 \in 1..(MAXARGV - 1) /\ p \in 1..p
    BY <1>1, <1>7, <1>9, <1>13, <2>6
  <2>10. ReadTo(s, t, p)
    <3> DEFINE l == Len(t.argv)
    <3>1. /\ l \in 1..(MAXARGV - 1) /\ t.argv[l] = p /\ l - 1 = m /\ t.argv[l] \in 1..p
      <4>1. l = m + 1 /\ t.argv[m + 1] = p /\ m + 1 \in 1..(MAXARGV - 1) /\ p \in 1..p
        BY <2>9
      <4> HIDE DEF l
      <4> QED
        BY <1>7, <4>1
    <3>2. Going(s, t, t.argv[l], p) /\ AllEnded(s, t.buf, t.argv, l - 1, t.argv[l] - 1)
      <4> HIDE DEF l
      <4> QED
        BY <2>6, <2>8, <3>1
    <3>3. Pointed(s, t.argv, p)
      BY <1>8, <2>6
    <3> QED
      BY <2>7, <3>1, <3>2, <3>3 DEF ReadTo
  <2> QED
    BY <2>10 DEF t
<1> QED
  BY <1>7, <1>12, <1>13

(* Behind the beginning of an argument. *)
LEMMA ReadsArgument ==
    ASSUME NEW C, NUL \notin C, NEW s \in Seq(C), NEW p \in 1..Len(s),
           NEW st \in States(C \cup {NUL}, Len(s)), ReadTo(s, st, p - 1),
           st.in \in {"argument", "escaped"}
    PROVE  ReadTo(s, Read(st, p), p)
<1> DEFINE n == Len(s)
           m == Len(st.argv)
           a == st.argv[m]
           t == Read(st, p)
<1>1. n \in Nat /\ p - 1 \in 0..n /\ MAXARGV \in Nat
  BY MaxArgvAssumption
<1>2. /\ Unread(s, st.buf, p - 1) /\ Pointed(s, st.argv, p - 1)
      /\ m \in 1..(MAXARGV - 1) /\ a \in 1..(p - 1)
      /\ Going(s, st, a, p - 1)
      /\ AllEnded(s, st.buf, st.argv, m - 1, a - 1)
  BY DEF ReadTo
<1> HIDE DEF n, m, a
<1>3. st.buf[p] = s[p]
  BY <1>1, <1>2, UnreadStays DEF n
<1>4. Passed(s, st, t, a, p)
  <2>1. a \in 1..p /\ a < p
    BY <1>2
  <2> QED
    BY <1>2, <1>3, <2>1, ArgumentGoesOn
<1> HIDE DEF t
<1>5. /\ t.argv = st.argv
      /\ \A j \in 1..(Len(s) + 1) : j < a \/ j > p => t.buf[j] = st.buf[j]
  BY <1>4 DEF Passed
<1>6. Unread(s, t.buf, p)
  <2> DEFINE buf == st.buf
             new == t.buf
  <2>1. Unread(s, buf, p - 1) /\ \A j \in 1..(Len(s) + 1) : j > p => new[j] = buf[j]
    BY <1>2, <1>5
  <2> HIDE DEF buf, new
  <2>2. Unread(s, new, p)
    BY <1>1, <2>1, UnreadStays DEF n
  <2> QED
    BY <2>2 DEF new
<1>7. p \notin WordStarts(s)
  <2>1. Kind(s, p - 1) # "parts" /\ p # 1
    BY <1>2 DEF Going
  <2> QED
    BY <2>1 DEF WordStarts
<1>8. Pointed(s, t.argv, p)
  <2> DEFINE argv == st.argv
  <2>1. Pointed(s, argv, p - 1)
    BY <1>2
  <2> HIDE DEF argv
  <2>2. Pointed(s, argv, p)
    BY <1>1, <1>7, <2>1, PointedAsWell DEF n
  <2> QED
    BY <1>5, <2>2 DEF argv
<1>9. AllEnded(s, t.buf, t.argv, m - 1, a - 1)
  <2> DEFINE buf == st.buf
             new == t.buf
             old == st.argv
             more == t.argv
             b == a - 1
             l == m - 1
  <2>1. \A j \in 1..b : new[j] = buf[j]
    <3>1. \A j \in 1..b : j \in 1..(Len(s) + 1) /\ j < a
      BY <1>1, <1>2 DEF n
    <3> QED
      BY <1>5, <3>1
  <2>2. \A i \in 1..l : more[i] = old[i]
    BY <1>5
  <2>3. AllEnded(s, buf, old, l, b) /\ b \in Int /\ Len(s) \in Nat
    BY <1>1, <1>2 DEF n
  <2> HIDE DEF buf, new, old, more, b, l
  <2>4. AllEnded(s, new, more, l, b)
    BY <2>1, <2>2, <2>3, AllEndedStay
  <2> QED
    BY <2>4 DEF new, more, b, l
<1>10. Len(t.argv) = m /\ t.argv[m] = a
  BY <1>5 DEF m, a
<1>11. CASE Kind(s, p) = "parts"
  <2>1. t.in = "blanks" /\ t.quote = NUL /\ Ended(s, t.buf, a, p)
    BY <1>4, <1>11 DEF Passed
  <2>2. AllEnded(s, t.buf, t.argv, m, p)
    <3> SUFFICES ASSUME NEW i \in 1..m
                 PROVE  \E e \in 1..p : Ended(s, t.buf, t.argv[i], e)
      BY DEF AllEnded
    <3>1. CASE i = m
      <4>1. p \in 1..p
        OBVIOUS
      <4> QED
        BY <1>10, <2>1, <3>1, <4>1
    <3>2. CASE i # m
      <4>1. i \in 1..(m - 1) /\ \A e \in 1..(a - 1) : e \in 1..p
        BY <1>2, <3>2
      <4> QED
        BY <1>9, <4>1 DEF AllEnded
    <3> QED
      BY <3>1, <3>2
  <2>3. Open(s)[p] = NUL
    BY <1>1, <1>11, KindIs DEF n
  <2>4. m < MAXARGV
    BY <1>1, <1>2
  <2> QED
    BY <1>6, <1>8, <1>10, <1>11, <2>1, <2>2, <2>3, <2>4 DEF ReadTo, t
<1>12. CASE Kind(s, p) # "parts"
  <2>1. Going(s, t, a, p)
    BY <1>4, <1>12 DEF Passed
  <2>2. a \in 1..p
    BY <1>2
  <2> QED
    BY <1>2, <1>6, <1>8, <1>9, <1>10, <2>1, <2>2 DEF ReadTo, t
<1> QED
  BY <1>11, <1>12

(* Behind the beginning of the last argument there is room for. *)
LEMMA ReadsRest ==
    ASSUME NEW C, NEW s \in Seq(C), NEW p \in 1..Len(s), NEW st,
           ReadTo(s, st, p - 1), st.in = "rest"
    PROVE  ReadTo(s, Read(st, p), p)
<1> DEFINE m == Len(st.argv)
<1>1. Read(st, p) = st
  BY ReadIs
<1>2. /\ Unread(s, st.buf, p - 1) /\ Pointed(s, st.argv, p - 1)
      /\ m = MAXARGV /\ Unread(s, st.buf, st.argv[m] - 1)
      /\ AllEnded(s, st.buf, st.argv, m - 1, st.argv[m] - 1)
  BY DEF ReadTo, Going
<1>3. Len(s) \in Nat
  OBVIOUS
<1>4. Unread(s, st.buf, p)
  BY <1>2, <1>3, UnreadStays
<1>5. Pointed(s, st.argv, p)
  <2> DEFINE argv == st.argv
  <2>1. Pointed(s, argv, p - 1) /\ Len(argv) = MAXARGV
    BY <1>2
  <2> HIDE DEF argv
  <2>2. Pointed(s, argv, p)
    BY <1>3, <2>1, PointedAsWell
  <2> QED
    BY <2>2 DEF argv
<1> QED
  BY <1>1, <1>2, <1>4, <1>5 DEF ReadTo

(* Each character. *)
LEMMA ReadsOn ==
    ASSUME NEW C, NUL \notin C, NEW s \in Seq(C), NEW p \in 1..Len(s),
           NEW st \in States(C \cup {NUL}, Len(s)), ReadTo(s, st, p - 1)
    PROVE  ReadTo(s, Read(st, p), p)
<1>1. st.in \in {"blanks", "argument", "escaped", "rest"}
  BY DEF States
<1>2. CASE st.in = "blanks" /\ s[p] = BLANK
  BY <1>2, ReadsBlanks
<1>3. CASE st.in = "blanks" /\ s[p] # BLANK
  BY <1>3, ReadsBeginning
<1>4. CASE st.in \in {"argument", "escaped"}
  BY <1>4, ReadsArgument
<1>5. CASE st.in = "rest"
  BY <1>5, ReadsRest
<1> QED
  BY <1>1, <1>2, <1>3, <1>4, <1>5

(* What execute leaves: pointers to all words there is room for, each but the last
   of these with its text and a NUL behind it. *)
AllRead(s, buf, argv) ==
    /\ Pointed(s, argv, Len(s))
    /\ \A i \in 1..Len(argv) :
          IF i = MAXARGV THEN Unread(s, buf, argv[i] - 1)
          ELSE \E e : Ended(s, buf, argv[i], e)

(* The NUL at the end. *)
LEMMA ReadsEnd ==
    ASSUME NEW C, NUL \notin C, NEW s \in Seq(C),
           NEW st \in States(C \cup {NUL}, Len(s)), ReadTo(s, st, Len(s))
    PROVE  AllRead(s, Read(st, Len(s) + 1).buf, Read(st, Len(s) + 1).argv)
<1> DEFINE D == C \cup {NUL}
           n == Len(s)
           m == Len(st.argv)
           t == Read(st, n + 1)
<1>1. n \in Nat /\ n + 1 \in 1..(n + 1) /\ NUL \in D /\ MAXARGV \in Nat /\ m \in Nat
  BY MaxArgvAssumption DEF States
<1>2. Unread(s, st.buf, n) /\ Pointed(s, st.argv, n)
  BY DEF ReadTo
<1>3. st.buf[n + 1] = NUL
  BY <1>2 DEF Unread
<1>4. NUL # BLANK
  BY DEF NUL, BLANK
<1> HIDE DEF D, n, m, t
<1>5. CASE st.in = "rest"
  <2>1. t = st
    BY <1>5, ReadIs DEF t
  <2>2. m = MAXARGV /\ Unread(s, st.buf, st.argv[m] - 1)
        /\ AllEnded(s, st.buf, st.argv, m - 1, st.argv[m] - 1)
    BY <1>5 DEF ReadTo, Going, m, n
  <2>3. ASSUME NEW i \in 1..m
        PROVE  IF i = MAXARGV THEN Unread(s, st.buf, st.argv[i] - 1)
               ELSE \E e : Ended(s, st.buf, st.argv[i], e)
    <3>1. CASE i = MAXARGV
      BY <2>2, <3>1
    <3>2. CASE i # MAXARGV
      <4>1. i \in 1..(m - 1)
        BY <1>1, <2>2, <3>2
      <4> QED
        BY <2>2, <3>2, <4>1 DEF AllEnded
    <3> QED
      BY <3>1, <3>2
  <2> QED
    BY <1>2, <2>1, <2>3 DEF AllRead, m, n, t
<1>6. CASE st.in = "blanks"
  <2>1. t = [st EXCEPT !.in = "rest"]
    BY <1>3, <1>4, <1>6, ReadIs DEF t
  <2>2. t.buf = st.buf /\ t.argv = st.argv
    <3>1. st \in States(D, n)
      BY DEF D, n
    <3> QED
      BY <1>1, <2>1, <3>1, MarksAre
  <2>3. m < MAXARGV /\ AllEnded(s, st.buf, st.argv, m, n)
    BY <1>6 DEF ReadTo, Going, m, n
  <2>4. ASSUME NEW i \in 1..m
        PROVE  i # MAXARGV /\ \E e : Ended(s, st.buf, st.argv[i], e)
    <3>1. i # MAXARGV
      BY <1>1, <2>3
    <3> QED
      BY <2>3, <3>1 DEF AllEnded
  <2> QED
    BY <1>2, <2>2, <2>4 DEF AllRead, m, n, t
<1>7. CASE st.in \in {"argument", "escaped"}
  <2> DEFINE a == st.argv[m]
  <2>1. /\ m \in 1..(MAXARGV - 1) /\ a \in 1..n /\ Going(s, st, a, n)
        /\ AllEnded(s, st.buf, st.argv, m - 1, a - 1)
    BY <1>7 DEF ReadTo, m, n
  <2> HIDE DEF a
  <2>2. /\ t.argv = st.argv /\ \A j \in 1..(a - 1) : t.buf[j] = st.buf[j]
        /\ Ended(s, t.buf, a, n + 1)
    <3>1. a \in 1..Len(s) /\ Going(s, st, a, Len(s)) /\ st.buf[Len(s) + 1] = NUL
      BY <1>3, <2>1 DEF n
    <3> QED
      BY <3>1, ArgumentEnds DEF t, n
  <2>3. AllEnded(s, t.buf, st.argv, m - 1, a - 1)
    <3> DEFINE buf == st.buf
               new == t.buf
               old == st.argv
               b == a - 1
               l == m - 1
    <3>1. \A j \in 1..b : new[j] = buf[j]
      BY <2>2
    <3>2. \A i \in 1..l : old[i] = old[i]
      OBVIOUS
    <3>3. AllEnded(s, buf, old, l, b) /\ b \in Int /\ Len(s) \in Nat
      BY <1>1, <2>1 DEF n
    <3> HIDE DEF buf, new, old, b, l
    <3>4. AllEnded(s, new, old, l, b)
      BY <3>1, <3>2, <3>3, AllEndedStay
    <3> QED
      BY <3>4 DEF new, old, b, l
  <2>4. ASSUME NEW i \in 1..m
        PROVE  i # MAXARGV /\ \E e : Ended(s, t.buf, st.argv[i], e)
    <3>1. i # MAXARGV
      BY <1>1, <2>1
    <3>2. CASE i = m
      BY <2>2, <3>1, <3>2 DEF a
    <3>3. CASE i \in 1..(m - 1)
      BY <2>3, <3>1, <3>3 DEF AllEnded
    <3> QED
      BY <1>1, <3>2, <3>3
  <2> QED
    BY <1>2, <2>2, <2>4 DEF AllRead, m, n, t
<1> QED
  BY <1>5, <1>6, <1>7 DEF States

(* r: what reading a line of n characters and the NUL goes through. *)
Readings(r, V, st, n) ==
    /\ r \in [0..n -> V]
    /\ r[0] = st
    /\ \A k \in 1..n : r[k] = Read(r[k - 1], k)

(* The loop goes through states of V, if its body leads from each to another. *)
LEMMA ReadLoop ==
    ASSUME NEW V, NEW st \in V, NEW n \in Nat,
           \A v \in V, p \in 1..n : Read(v, p) \in V
    PROVE  \E r : Readings(r, V, st, n) /\ FoldLeft(Read, st, [p \in 1..n |-> p]) = r[n]
<1> DEFINE s == [p \in 1..n |-> p]
           Step == [k \in 1..n |-> [v \in V |-> Read(v, s[k])]]
           Body(g) == [x \in SUBSET (1..n) |->
                          IF x = {} THEN st ELSE Read(g[x \ {Max(x)}], s[Max(x)])]
           h == CHOOSE g : g = Body(g)
<1>1. DOMAIN s = 1..n /\ Len(s) = n /\ \A k \in 1..n : s[k] = k
  OBVIOUS
<1> HIDE DEF s
<1>2. FoldLeft(Read, st, s) = h[1..n]
  BY <1>1, Zenon DEF FoldLeft, MapThenFoldSet, h, Body
<1>3. Step \in [1..n -> [V -> V]]
  BY <1>1
<1>4. ASSUME NEW k \in 1..n, NEW v \in V
      PROVE  Step[k][v] = Read(v, s[k])
  BY <1>4, Zenon
<1> HIDE DEF Step
<1>5. \E g : g = Body(g)
  <2>1. PICK g : IsFold(g, n, V, st, Step)
    BY <1>1, <1>3, FoldExists
  <2>2. /\ g \in [SUBSET (1..n) -> V]
        /\ g[{}] = st
        /\ \A x \in SUBSET (1..n) : x # {} => g[x] = Step[Max(x)][g[x \ {Max(x)}]]
    BY <2>1 DEF IsFold
  <2>3. ASSUME NEW x \in SUBSET (1..n), x # {}
        PROVE  g[x] = Read(g[x \ {Max(x)}], s[Max(x)])
    <3>1. Max(x) \in 1..n /\ x \ {Max(x)} \in SUBSET (1..n)
      BY <2>3, MaxOfRange
    <3> QED
      BY <1>4, <2>2, <2>3, <3>1
  <2>4. g = Body(g)
    BY <2>2, <2>3
  <2> QED
    BY <2>4
<1>6. h = Body(h)
  <2> HIDE DEF Body
  <2> QED
    BY <1>5
<1>7. h[{}] = st
  BY <1>6, EmptyPrefix
<1>8. \A x \in SUBSET (1..n) :
          x # {} /\ h[x \ {Max(x)}] \in V => h[x] = Step[Max(x)][h[x \ {Max(x)}]]
  <2> SUFFICES ASSUME NEW x \in SUBSET (1..n), x # {}, h[x \ {Max(x)}] \in V
               PROVE  h[x] = Step[Max(x)][h[x \ {Max(x)}]]
    OBVIOUS
  <2>1. h[x] = Read(h[x \ {Max(x)}], s[Max(x)])
    BY <1>6, Zenon
  <2>2. Max(x) \in 1..n
    BY MaxOfRange
  <2> QED
    BY <1>4, <2>1, <2>2
<1> HIDE DEF h, Body
<1>9. PICK r : IsChain(r, n, V, st, Step) /\ h[1..n] = r[n]
  <2>1. GoesBy(h, n, V, st, Step)
    BY <1>7, <1>8 DEF GoesBy
  <2>2. n \in Nat /\ st \in V
    OBVIOUS
  <2> QED
    BY ONLY <1>3, <2>1, <2>2, FoldSteps
<1>10. \A k \in 1..n : k - 1 \in 0..n
  OBVIOUS
<1>11. \A k \in 1..n : r[k] = Read(r[k - 1], k)
  BY <1>1, <1>4, <1>9, <1>10, SMTT(30) DEF IsChain
<1> QED
  BY <1>2, <1>9, <1>11 DEF IsChain, Readings, s

(* So at the end all of the line is read. *)
LEMMA LineIsRead ==
    ASSUME NEW C, NUL \notin C, NEW s \in Seq(C)
    PROVE  \E st \in States(C \cup {NUL}, Len(s)) :
               /\ FoldLeft(Read, Start(s), [p \in 1..(Len(s) + 1) |-> p]) = st
               /\ AllRead(s, st.buf, st.argv)
<1> DEFINE D == C \cup {NUL}
           n == Len(s)
           V == States(D, n)
<1>1. n \in Nat /\ n + 1 \in Nat /\ NUL \in D
  OBVIOUS
<1>2. Start(s) \in V /\ ReadTo(s, Start(s), 0)
  BY ReadToNone
<1> HIDE DEF D, n
<1>3. \A v \in V, p \in 1..(n + 1) : Read(v, p) \in V
  BY <1>1, ReadKeepsType
<1> HIDE DEF V
<1>4. PICK r : /\ Readings(r, V, Start(s), n + 1)
               /\ FoldLeft(Read, Start(s), [p \in 1..(n + 1) |-> p]) = r[n + 1]
  <2> DEFINE m == n + 1
  <2>1. m \in Nat /\ \A v \in V, p \in 1..m : Read(v, p) \in V
    BY <1>1, <1>3
  <2> HIDE DEF m
  <2>2. \E r : /\ Readings(r, V, Start(s), m)
               /\ FoldLeft(Read, Start(s), [p \in 1..m |-> p]) = r[m]
    BY <1>2, <2>1, ReadLoop
  <2> QED
    BY <2>2 DEF m
<1>5. /\ r \in [0..(n + 1) -> V] /\ r[0] = Start(s)
      /\ \A k \in 1..(n + 1) : r[k] = Read(r[k - 1], k)
  BY <1>4 DEF Readings
<1> DEFINE T == {k \in Nat : k <= n => ReadTo(s, r[k], k)}
<1>6. 0 \in T
  BY <1>2, <1>5
<1>7. ASSUME NEW k \in Nat, k \in T
      PROVE  k + 1 \in T
  <2> SUFFICES ASSUME k + 1 <= n
               PROVE  ReadTo(s, r[k + 1], k + 1)
    OBVIOUS
  <2> DEFINE p == k + 1
             st == r[k]
  <2>1. /\ p \in 1..n /\ p \in 1..(n + 1) /\ p - 1 = k /\ k \in 0..(n + 1)
        /\ ReadTo(s, st, k)
    BY <1>1, <1>7
  <2>2. st \in V /\ r[p] = Read(st, p)
    <3> HIDE DEF p
    <3> QED
      BY <1>5, <2>1
  <2> HIDE DEF p, st
  <2>3. ReadTo(s, Read(st, p), p)
    <3>1. p \in 1..Len(s) /\ ReadTo(s, st, p - 1) /\ st \in States(C \cup {NUL}, Len(s))
      BY <2>1, <2>2 DEF n, V, D
    <3> QED
      BY <3>1, ReadsOn
  <2> QED
    BY <2>2, <2>3 DEF p
<1>8. n \in T
  <2> HIDE DEF T
  <2> QED
    BY <1>1, <1>6, <1>7, Induction
<1> DEFINE st == r[n]
           t == r[n + 1]
<1>9. /\ ReadTo(s, st, n) /\ st \in V /\ t \in V /\ t = Read(st, n + 1)
  <2>1. n \in 0..(n + 1) /\ n + 1 \in 0..(n + 1) /\ n + 1 \in 1..(n + 1) /\ n + 1 - 1 = n
    BY <1>1
  <2> QED
    BY <1>1, <1>5, <1>8, <2>1
<1> HIDE DEF st, t
<1>10. AllRead(s, t.buf, t.argv)
  <2>1. AllRead(s, Read(st, Len(s) + 1).buf, Read(st, Len(s) + 1).argv)
    <3>1. ReadTo(s, st, Len(s)) /\ st \in States(C \cup {NUL}, Len(s))
      BY <1>9 DEF n, V, D
    <3> QED
      BY <3>1, ReadsEnd
  <2> QED
    BY <1>9, <2>1 DEF n
<1> QED
  BY <1>4, <1>9, <1>10 DEF t, n, V, D

-----------------------------------------------------------------------------
(* Words *)

(* The least number of a set is the one no other is below. *)
LEMMA MinIs ==
    ASSUME NEW S \in SUBSET Nat, NEW x \in S, \A y \in S : x <= y
    PROVE  Min(S) = x
<1>1. S # {}
  OBVIOUS
<1>2. Min(S) \in S /\ \A y \in S : Min(S) <= y
  BY <1>1, LeastIs
<1>3. Min(S) <= x /\ x <= Min(S)
  BY <1>2
<1>4. Min(S) \in Nat /\ x \in Nat
  BY <1>2
<1> QED
  BY <1>3, <1>4

(* The last pointer is to the rest of the line as it is. *)
LEMMA RestIs ==
    ASSUME NEW C, NUL \notin C, NEW s \in Seq(C), NEW buf \in [1..(Len(s) + 1) -> C \cup {NUL}],
           NEW a \in 1..Len(s), Unread(s, buf, a - 1)
    PROVE  StringAt(buf, a) = SubSeq(s, a, Len(s))
<1> DEFINE n == Len(s)
           N == {k \in a..Len(buf) : buf[k] = NUL}
<1>1. n \in Nat /\ \A k \in 1..n : s[k] \in C
  BY ElementOfSeq
<1>2. buf \in Seq(C \cup {NUL}) /\ Len(buf) = n + 1
  BY <1>1
<1>3. /\ \A j \in a..n : buf[j] = s[j]
      /\ buf[n + 1] = NUL
  BY DEF Unread
<1> HIDE DEF n
<1>4. N = {n + 1}
  BY <1>1, <1>2, <1>3 DEF n
<1>5. Min(N) = n + 1
  <2>1. N \in SUBSET Nat /\ n + 1 \in N /\ \A y \in N : n + 1 <= y
    BY <1>1, <1>4
  <2> HIDE DEF N
  <2>2. n + 1 \in Nat
    BY <1>1
  <2> DEFINE x == n + 1
  <2> HIDE DEF x
  <2>3. N \in SUBSET Nat /\ x \in N /\ \A y \in N : x <= y
    BY <2>1 DEF x
  <2>4. Min(N) = x
    BY <2>3, MinIs
  <2> QED
    BY <2>4 DEF x
<1>6. StringAt(buf, a) = SubSeq(buf, a, n)
  <2>1. StringAt(buf, a) = SubSeq(buf, a, Min(N) - 1)
    BY DEF StringAt
  <2> HIDE DEF N
  <2>2. Min(N) - 1 = n
    BY <1>1, <1>5
  <2> QED
    BY <2>1, <2>2
<1>7. SubSeq(buf, a, n) = SubSeq(s, a, n)
  <2> DEFINE m == n - a + 1
  <2>1. a \in Nat /\ a \in 1..n /\ m \in Nat
    BY <1>1 DEF n
  <2>2. SubSeq(buf, a, n) = [i \in 1..m |-> buf[a + i - 1]]
    BY <1>1, <1>2, <2>1
  <2>3. SubSeq(s, a, n) = [i \in 1..m |-> s[a + i - 1]]
    BY <1>1, <2>1 DEF n
  <2>4. \A i \in 1..m : a + i - 1 \in a..n
    BY <1>1, <2>1
  <2> HIDE DEF m
  <2>5. \A i \in 1..m : buf[a + i - 1] = s[a + i - 1]
    BY <1>3, <2>4
  <2> QED
    BY <2>2, <2>3, <2>5
<1> QED
  BY <1>6, <1>7 DEF n

(* Any other is to the text of its argument. *)
LEMMA StringIs ==
    ASSUME NEW C, NUL \notin C, NEW s \in Seq(C), NEW buf \in [1..(Len(s) + 1) -> C \cup {NUL}],
           NEW a, NEW e, Ended(s, buf, a, e)
    PROVE  \E at : /\ Lists(at, Texts(s, a, e - 1))
                   /\ StringAt(buf, a) = [i \in 1..Len(at) |-> s[at[i]]]
<1> DEFINE n == Len(s)
           N == {k \in a..Len(buf) : buf[k] = NUL}
<1>1. n \in Nat /\ \A k \in 1..n : s[k] \in C
  BY ElementOfSeq
<1>2. buf \in Seq(C \cup {NUL}) /\ Len(buf) = n + 1
  BY <1>1
<1>3. a \in 1..(e - 1) /\ e \in 1..(n + 1)
  BY DEF Ended
<1>4. PICK at : /\ Lists(at, Texts(s, a, e - 1)) /\ Taken(s, buf, a, at)
                /\ a + Len(at) <= e /\ buf[a + Len(at)] = NUL
  BY DEF Ended
<1> DEFINE m == Len(at)
           x == a + m
<1>5. m \in Nat /\ \A i \in 1..m : at[i] \in Texts(s, a, e - 1)
  BY <1>4, ElementOfSeq DEF Lists
<1>6. \A i \in 1..m : at[i] \in 1..n
  <2>1. Texts(s, a, e - 1) \subseteq 1..n
    BY <1>1, <1>3 DEF Texts
  <2> QED
    BY <1>5, <2>1
<1> HIDE DEF n, m
<1>7. \A i \in 1..m : buf[a + i - 1] = s[at[i]] /\ s[at[i]] # NUL
  BY <1>1, <1>4, <1>6 DEF Taken, m
<1>8. x \in Nat /\ x \in a..(n + 1) /\ x <= n + 1
  BY <1>1, <1>3, <1>4, <1>5 DEF m
<1>9. Min(N) = x
  <2>1. N \in SUBSET Nat
    BY <1>3
  <2>2. x \in N
    BY <1>2, <1>4, <1>8 DEF m
  <2>3. ASSUME NEW y \in N
        PROVE  x <= y
    <3>1. y \in a..(n + 1) /\ buf[y] = NUL
      BY <1>2
    <3>2. CASE y < x
      <4>1. y - a + 1 \in 1..m /\ a + (y - a + 1) - 1 = y
        BY <1>3, <1>5, <1>8, <3>1, <3>2
      <4> QED
        BY <1>7, <3>1, <4>1
    <3> QED
      BY <1>8, <3>1, <3>2
  <2> HIDE DEF N, x
  <2> QED
    BY <2>1, <2>2, <2>3, MinIs
<1>10. StringAt(buf, a) = SubSeq(buf, a, x - 1)
  BY <1>9 DEF StringAt
<1>11. SubSeq(buf, a, x - 1) = [i \in 1..m |-> buf[a + i - 1]]
  <2> DEFINE z == x - 1
  <2>1. z \in Int /\ z - a + 1 = m /\ a \in Nat
    BY <1>3, <1>5
  <2> HIDE DEF z
  <2>2. SubSeq(buf, a, z) = [i \in 1..(z - a + 1) |-> buf[a + i - 1]]
    BY <1>2, <2>1
  <2> QED
    BY <2>1, <2>2 DEF z
<1>12. [i \in 1..m |-> buf[a + i - 1]] = [i \in 1..m |-> s[at[i]]]
  BY <1>7
<1> QED
  BY <1>4, <1>10, <1>11, <1>12 DEF m

(* A line of any characters is cut into its words, however long it is and however
   few pointers there are (execute). *)
THEOREM LineIsCut ==
    ASSUME NEW C, NUL \notin C, NEW s \in Seq(C)
    PROVE  LineIsCutIntoWords(s)
<1> DEFINE n == Len(s)
           D == C \cup {NUL}
           kind == [k \in 1..n |-> Kind(s, k)]
           Increasing(S) == InOrder(S, [k \in S |-> k])
           B == {k \in 1..n : kind[k] # "parts" /\ (k = 1 \/ kind[k - 1] = "parts")}
           starts == Increasing(B)
           P(k) == {j \in k..n : kind[j] = "parts"} \cup {n + 1}
           End(k) == Min(P(k)) - 1
           X(i, j) == {k \in i..j : kind[k] = "text"}
           Text(i, j) == LET at == Increasing(X(i, j))
                         IN  [x \in 1..Len(at) |-> s[at[x]]]
           Argument(i) == IF i = MAXARGV THEN SubSeq(s, starts[i], n)
                      ELSE Text(starts[i], End(starts[i]))
<1>1. Words(s) = [i \in 1..Min({Len(starts), MAXARGV}) |-> Argument(i)]
  BY Zenon DEF Words
<1>2. n \in Nat /\ MAXARGV \in Nat
  BY MaxArgvAssumption
<1>3. \A k \in 1..n : kind[k] = Kind(s, k)
  OBVIOUS
<1> HIDE DEF kind
<1>4. B = StartsTo(s, n) /\ B \in SUBSET (1..n) /\ B \in SUBSET Int
  <2>1. \A k \in 1..n : k = 1 \/ k - 1 \in 1..n
    BY <1>2
  <2>2. B = WordStarts(s)
    BY <1>3, <2>1 DEF WordStarts
  <2>3. WordStarts(s) \in SUBSET (1..n)
    BY DEF WordStarts
  <2>4. StartsTo(s, n) = WordStarts(s)
    BY <1>2, <2>3 DEF StartsTo
  <2>5. 1..n \in SUBSET Int
    BY <1>2
  <2> QED
    BY <2>2, <2>3, <2>4, <2>5
<1>5. PICK st \in States(D, n) :
          /\ FoldLeft(Read, Start(s), [p \in 1..(n + 1) |-> p]) = st
          /\ AllRead(s, st.buf, st.argv)
  BY LineIsRead
<1> DEFINE argv == st.argv
           buf == st.buf
<1>6. execute(s) = [k \in 1..Len(argv) |-> StringAt(buf, argv[k])]
  BY <1>5, Zenon DEF execute
<1>7. buf \in [1..(n + 1) -> D]
  BY DEF States
<1> HIDE DEF n, D, B
<1>8. PICK all : /\ Lists(all, B)
                 /\ argv \in Seq(Nat) /\ Len(argv) <= Len(all) /\ Len(argv) <= MAXARGV
                 /\ Len(argv) < MAXARGV => Len(argv) = Len(all)
                 /\ \A i \in 1..Len(argv) : argv[i] = all[i]
  BY <1>4, <1>5 DEF AllRead, Pointed, n
<1>9. starts = all
  BY <1>4, <1>8, ListsIs
<1>10. all \in Seq(B) /\ Len(all) \in Nat /\ Len(argv) \in Nat
       /\ \A i \in 1..Len(all) : all[i] \in 1..n
  <2>1. all \in Seq(B) /\ Len(all) \in Nat /\ \A i \in 1..Len(all) : all[i] \in B
    BY <1>8, ElementOfSeq DEF Lists
  <2> QED
    BY <1>4, <1>8, <2>1
<1> HIDE DEF starts, argv, buf
<1>11. Min({Len(starts), MAXARGV}) = Len(argv)
  <2> DEFINE x == Len(all)
  <2>1. x \in Int /\ MAXARGV \in Int
    BY <1>2, <1>10
  <2> HIDE DEF x
  <2>2. Min({x, MAXARGV}) = IF x <= MAXARGV THEN x ELSE MAXARGV
    BY <2>1, MinOfTwo
  <2>3. Len(argv) = IF Len(all) <= MAXARGV THEN Len(all) ELSE MAXARGV
    BY <1>2, <1>8, <1>10
  <2> QED
    BY <1>9, <2>2, <2>3 DEF x
<1>12. ASSUME NEW i \in 1..Len(argv)
       PROVE  StringAt(buf, argv[i]) = Argument(i)
  <2> DEFINE a == argv[i]
  <2>1. starts[i] = a /\ a \in 1..n
    BY <1>8, <1>9, <1>10
  <2>2. IF i = MAXARGV THEN Unread(s, buf, a - 1) ELSE \E e : Ended(s, buf, a, e)
    BY <1>5 DEF AllRead, argv, buf
  <2> HIDE DEF a
  <2>3. CASE i = MAXARGV
    <3>1. StringAt(buf, a) = SubSeq(s, a, n)
      <4>1. /\ buf \in [1..(Len(s) + 1) -> C \cup {NUL}] /\ a \in 1..Len(s)
            /\ Unread(s, buf, a - 1)
        BY <1>7, <2>1, <2>2, <2>3 DEF n, D
      <4> QED
        BY <4>1, RestIs DEF n
    <3>2. Argument(i) = SubSeq(s, a, n)
      BY <2>1, <2>3
    <3> QED
      BY <3>1, <3>2 DEF a
  <2>4. CASE i # MAXARGV
    <3>1. PICK e : Ended(s, buf, a, e)
      BY <2>2, <2>4
    <3>2. PICK at : /\ Lists(at, Texts(s, a, e - 1))
                    /\ StringAt(buf, a) = [x \in 1..Len(at) |-> s[at[x]]]
      <4>1. buf \in [1..(Len(s) + 1) -> C \cup {NUL}]
        BY <1>7 DEF n, D
      <4> QED
        BY <3>1, <4>1, StringIs
    <3>3. /\ a \in 1..(e - 1) /\ e \in 1..(n + 1)
          /\ \A j \in a..(e - 1) : Kind(s, j) # "parts"
          /\ e = n + 1 \/ Kind(s, e) = "parts"
      BY <3>1 DEF Ended, n
    <3>4. \A j \in a..(e - 1) : j \in 1..n
      BY <1>2, <3>3
    <3>5. Min(P(a)) = e
      <4>1. P(a) \in SUBSET Nat
        BY <1>2, <3>3
      <4>2. e \in P(a)
        <5>1. e # n + 1 => e \in 1..n /\ e \in a..n
          BY <1>2, <3>3
        <5> QED
          BY <1>3, <3>3, <5>1
      <4>3. ASSUME NEW y \in P(a)
            PROVE  e <= y
        <5>1. y \in a..(n + 1) /\ (y # n + 1 => y \in a..n /\ y \in 1..n /\ kind[y] = "parts")
          BY <1>2, <3>3
        <5>2. CASE y = n + 1
          BY <3>3, <5>2
        <5>3. CASE y # n + 1 /\ y < e
          <6>1. y \in a..(e - 1) /\ Kind(s, y) = "parts"
            BY <1>3, <3>3, <5>1, <5>3
          <6> QED
            BY <3>3, <6>1
        <5> QED
          BY <3>3, <5>1, <5>2, <5>3
      <4> HIDE DEF P
      <4> QED
        BY <4>1, <4>2, <4>3, MinIs
    <3>6. X(a, e - 1) = Texts(s, a, e - 1)
      BY <1>3, <3>4 DEF Texts
    <3>7. Increasing(X(a, e - 1)) = at
      <4>1. Texts(s, a, e - 1) \in SUBSET Int
        BY <3>3 DEF Texts
      <4>2. InOrder(Texts(s, a, e - 1), [k \in Texts(s, a, e - 1) |-> k]) = at
        BY <3>2, <4>1, ListsIs
      <4> HIDE DEF X
      <4> QED
        BY <3>6, <4>2
    <3>8. Text(a, e - 1) = [x \in 1..Len(at) |-> s[at[x]]]
      <4> HIDE DEF Increasing, X
      <4> QED
        BY <3>7
    <3>9. Argument(i) = Text(a, End(a))
      <4> HIDE DEF Text, End
      <4> QED
        BY <2>1, <2>4
    <3>10. End(a) = e - 1
      <4> HIDE DEF P
      <4> QED
        BY <3>5
    <3> HIDE DEF Text, End, Argument
    <3> QED
      BY <3>2, <3>8, <3>9, <3>10 DEF a
  <2> QED
    BY <2>3, <2>4
<1> HIDE DEF Argument
<1>13. Words(s) = [i \in 1..Len(argv) |-> Argument(i)]
  BY <1>1, <1>11
<1>14. execute(s) = Words(s)
  BY <1>6, <1>12, <1>13
<1> QED
  BY <1>14 DEF LineIsCutIntoWords

(* A step of a run of MCCmdline is one of the editor, or leaves it alone. *)
LEMMA EditorSteps == [MCNext]_<<vars, doing, text>> => [cmdline_input]_vars
<1> SUFFICES ASSUME [MCNext]_<<vars, doing, text>>
             PROVE  [cmdline_input]_vars
  OBVIOUS
<1>1. ASSUME NEW key, Strike(key)
      PROVE  cmdline_input
  BY <1>1 DEF Strike, cmdline_input
<1>2. ASSUME NEW chars, NEW length, Type(chars, length)
      PROVE  UNCHANGED vars
  BY <1>2 DEF Type
<1>3. CASE UNCHANGED <<vars, doing, text>>
  BY <1>3
<1> QED
  BY <1>1, <1>2, <1>3 DEF MCNext

(* Whatever is typed, deleted, yanked or recalled in the editor, and whenever it is
   entered: what the command gets as its arguments are the words of the line, for
   lines of any size and any printing characters (commandline, execute).  So are
   those of the texts that a run of MCCmdline types past the editor. *)
THEOREM ArgumentsAlways == MCSpec => []ArgumentsAreWords
<1> DEFINE C == ForWords \cup ForNumbers
           TextOK == text \in Seq(C)
           EditorOK == cmdline \in Good
<1>1. MCInit => TextOK /\ EditorOK
  <2>1. MCInit => EditorOK
    BY InitGood DEF MCInit
  <2> QED
    BY <2>1 DEF MCInit
<1>2. TextOK /\ [MCNext]_<<vars, doing, text>> => TextOK'
  <2> SUFFICES ASSUME TextOK, [MCNext]_<<vars, doing, text>>
               PROVE  TextOK'
    OBVIOUS
  <2>1. ASSUME NEW chars \in SUBSET C, NEW length, Type(chars, length)
        PROVE  TextOK'
    <3>1. PICK ch \in chars : text' = Append(IF Len(text) < length THEN text ELSE << >>, ch)
      BY <2>1 DEF Type
    <3> HIDE DEF C
    <3>2. << >> \in Seq(C) /\ text \in Seq(C) /\ ch \in C
      BY <3>1
    <3> QED
      BY <3>1, <3>2
  <2>2. CASE UNCHANGED text
    BY <2>2
  <2>3. CASE Type(ForWords, WordsLength)
    <3>1. ForWords \in SUBSET C
      OBVIOUS
    <3> HIDE DEF C, TextOK
    <3> QED
      BY <2>1, <2>3, <3>1
  <2>4. CASE Type(ForNumbers, NumberLength)
    <3>1. ForNumbers \in SUBSET C
      OBVIOUS
    <3> HIDE DEF C, TextOK
    <3> QED
      BY <2>1, <2>4, <3>1
  <2> HIDE DEF TextOK
  <2> QED
    BY <2>2, <2>3, <2>4 DEF MCNext
<1>3. EditorOK /\ [MCNext]_<<vars, doing, text>> => EditorOK'
  <2> SUFFICES ASSUME EditorOK, [MCNext]_<<vars, doing, text>>
               PROVE  EditorOK'
    OBVIOUS
  <2>1. [cmdline_input]_vars
    BY EditorSteps
  <2> QED
    BY <2>1, StepGood DEF Steps
<1>4. ASSUME TextOK, EditorOK
      PROVE  ArgumentsAreWords
  <2>1. NUL \notin C
    BY DEF ForWords, ForNumbers, NUL
  <2> HIDE DEF C
  <2>2. LineIsCutIntoWords(text)
    BY <1>4, <2>1, LineIsCut
  <2>3. cmdline.line \in Seq(Char)
    BY <1>4, GoodFields DEF Editor
  <2>4. NUL \notin Char
    BY FitsAssumption DEF Fits
  <2>5. LineIsCutIntoWords(cmdline.line)
    BY <2>3, <2>4, LineIsCut
  <2> QED
    BY <2>2, <2>5 DEF ArgumentsAreWords
<1> QED
  <2> HIDE DEF TextOK, EditorOK
  <2> QED
    BY <1>1, <1>2, <1>3, <1>4, PTL DEF MCSpec

-----------------------------------------------------------------------------
(* Numbers of arguments *)

(* Comparing with a quotient is comparing the product. *)
LEMMA BeyondQuotient ==
    ASSUME NEW a \in Nat, NEW d \in Nat, d > 0, NEW v \in Nat
    PROVE  v > a \div d <=> v * d > a
<1> DEFINE q == a \div d
           r == a % d
<1>1. q \in Int /\ r \in Int /\ 0 <= r /\ r < d /\ a = d * q + r
  OBVIOUS
<1> HIDE DEF q, r
<1>2. ASSUME v > q
      PROVE  v * d > a
  <2>1. v - q - 1 >= 0 /\ v - q - 1 \in Int
    BY <1>1, <1>2
  <2>2. (v - q - 1) * d >= 0
    BY <2>1
  <2>3. v * d = (v - q - 1) * d + d * q + d
    BY <1>1
  <2> QED
    BY <1>1, <2>2, <2>3
<1>3. ASSUME v <= q
      PROVE  v * d <= a
  <2>1. (q - v) * d >= 0
    BY <1>1, <1>3
  <2>2. d * q = v * d + (q - v) * d
    BY <1>1
  <2> QED
    BY <1>1, <2>1, <2>2
<1> QED
  BY <1>1, <1>2, <1>3 DEF q

(* What is in range does not wrap. *)
LEMMA InRangeIsNotWrapped ==
    ASSUME NEW n \in LONG_MIN..LONG_MAX
    PROVE  Wrapped(n) = n
<1> DEFINE y == n - LONG_MIN
<1>1. LONG_MAX \in Nat
  BY BitsAssumption
<1>2. y \in 0..(Word - 1) /\ Word \in Nat
  BY <1>1 DEF LONG_MIN, Word
<1>3. y % Word = y
  BY <1>2
<1> QED
  BY <1>1, <1>3 DEF Wrapped, LONG_MIN

(* A digit is added when the result fits, and else the number stays at the
   limit: no number in range is refused and none beyond it wraps round, on
   either side, for a long of any width and for any base (strtol). *)
THEOREM DigitIsAddedExactly ==
    ASSUME NEW base \in Nat, base > 1, base <= LONG_MAX + 1,
           NEW ch, DigitOf(ch) \in 0..(base - 1),
           NEW v \in Nat
    PROVE  LET n(val) == [val |-> val, over |-> FALSE, ended |-> FALSE]
               c == DigitOf(ch)
           IN  /\ v <= LONG_MAX =>
                    AddDigit(base, FALSE, n(v), ch).val
                        = IF v * base + c <= LONG_MAX THEN v * base + c ELSE LONG_MAX
               /\ -v >= LONG_MIN =>
                    AddDigit(base, TRUE, n(-v), ch).val
                        = IF (-v) * base - c >= LONG_MIN THEN (-v) * base - c ELSE LONG_MIN
<1> DEFINE n(val) == [val |-> val, over |-> FALSE, ended |-> FALSE]
           c == DigitOf(ch)
<1>1. LONG_MAX \in Nat /\ c \in Nat /\ c < base /\ c <= LONG_MAX /\ LONG_MIN = -LONG_MAX - 1
  BY BitsAssumption DEF LONG_MIN
<1> HIDE DEF c
<1>2. Quotient(Wrapped(LONG_MAX - c), base) = (LONG_MAX - c) \div base
  <2>1. LONG_MAX - c \in LONG_MIN..LONG_MAX /\ LONG_MAX - c >= 0
    BY <1>1
  <2> QED
    BY <2>1, InRangeIsNotWrapped DEF Quotient
<1>3. Quotient(Wrapped(LONG_MIN + c), base) = -((LONG_MAX + 1 - c) \div base)
  <2>1. LONG_MIN + c \in LONG_MIN..LONG_MAX /\ LONG_MIN + c < 0
    BY <1>1
  <2>2. -(LONG_MIN + c) = LONG_MAX + 1 - c
    BY <1>1
  <2> QED
    BY <2>1, <2>2, InRangeIsNotWrapped DEF Quotient
<1>4. v * base \in Int /\ (-v) * base = -(v * base)
  OBVIOUS
<1>5. AddDigit(base, FALSE, n(v), ch).val
        = IF v > (LONG_MAX - c) \div base THEN LONG_MAX ELSE v * base + c
  BY <1>1, <1>2 DEF AddDigit, c
<1>6. AddDigit(base, TRUE, n(-v), ch).val
        = IF -v < -((LONG_MAX + 1 - c) \div base) THEN LONG_MIN ELSE (-v) * base - c
  <2>1. ASSUME NEW w \in Int
        PROVE  AddDigit(base, TRUE, n(w), ch).val
                  = IF w < Quotient(Wrapped(LONG_MIN + c), base)
                    THEN LONG_MIN ELSE w * base - c
    <3>1. ~(c >= base)
      BY <1>1
    <3> HIDE DEF Quotient, Wrapped
    <3> QED
      BY <3>1 DEF AddDigit, c
  <2>2. -v \in Int
    OBVIOUS
  <2> QED
    BY <2>1, <2>2, <1>3
<1>7. v > (LONG_MAX - c) \div base <=> v * base + c > LONG_MAX
  <2>1. LONG_MAX - c \in Nat
    BY <1>1
  <2> QED
    BY <1>1, <1>4, <2>1, BeyondQuotient
<1>8. v > (LONG_MAX + 1 - c) \div base <=> (-v) * base - c < LONG_MIN
  <2>1. LONG_MAX + 1 - c \in Nat
    BY <1>1
  <2> QED
    BY <1>1, <1>4, <2>1, BeyondQuotient
<1>9. (LONG_MAX - c) \div base \in Int /\ (LONG_MAX + 1 - c) \div base \in Int
  BY <1>1
<1>10. v * base + c \in Int /\ (-v) * base - c \in Int
  BY <1>1, <1>4
<1>11. AddDigit(base, FALSE, n(v), ch).val
         = IF v * base + c <= LONG_MAX THEN v * base + c ELSE LONG_MAX
  <2> HIDE DEF n
  <2>1. v * base + c <= LONG_MAX <=> ~(v * base + c > LONG_MAX)
    BY <1>1, <1>10
  <2> QED
    BY <1>5, <1>7, <2>1
<1>12. AddDigit(base, TRUE, n(-v), ch).val
         = IF (-v) * base - c >= LONG_MIN THEN (-v) * base - c ELSE LONG_MIN
  <2> HIDE DEF n
  <2>1. (-v) * base - c >= LONG_MIN <=> ~((-v) * base - c < LONG_MIN)
    BY <1>1, <1>10
  <2>2. -v < -((LONG_MAX + 1 - c) \div base) <=> v > (LONG_MAX + 1 - c) \div base
    BY <1>9
  <2> QED
    BY <1>6, <1>8, <2>1, <2>2
<1> QED
  BY <1>11, <1>12 DEF c
=============================================================================
