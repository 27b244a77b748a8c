----------------------------- MODULE FifoProofs -----------------------------
(* What fifo.c's calls do to the contents of the ring, for a buffer of any   *)
(* size and bytes of any values, and that the ring is a bounded queue.       *)
EXTENDS Fifo, Induction, SequenceTheorems, TLAPS

(* The contents of a well-formed ring are a byte string of its length. *)
LEMMA ContentsIsSeq ==
    ASSUME NEW f \in Fifo
    PROVE  /\ Contents(f) \in Seq(Byte)
           /\ Len(Contents(f)) = f.len
           /\ DOMAIN Contents(f) = 1..f.len
           /\ \A i \in 1..f.len : Contents(f)[i] = f.buf[Mask(f.rd + i - 1)]
<1> USE BufsizeAssumption, ByteAssumption
<1>1. \A i \in 1..f.len : Mask(f.rd + i - 1) \in Index
  BY DEF Fifo, Mask, Index
<1>2. \A i \in 1..f.len : f.buf[Mask(f.rd + i - 1)] \in Byte
  BY <1>1 DEF Fifo
<1>3. f.len \in Nat
  BY DEF Fifo
<1>4. Contents(f) \in Seq(Byte)
  BY <1>2, <1>3, IsASeq DEF Contents
<1>5. Len(Contents(f)) = f.len
  BY <1>3, <1>4 DEF Contents
<1> QED
  BY <1>4, <1>5 DEF Contents

(* Counting round the ring from rd stays in it. *)
LEMMA RoundTheRing ==
    ASSUME NEW rd \in Index, NEW i \in 1..FIFO_BUFSIZE
    PROVE  Mask(rd + i - 1) \in Index
<1> USE BufsizeAssumption
<1>1. /\ rd \in Int /\ rd >= 0 /\ rd < FIFO_BUFSIZE
      /\ i \in Int /\ i >= 1 /\ i <= FIFO_BUFSIZE
  BY DEF Index
<1> QED
  BY <1>1 DEF Mask, Index

(* How far index i lies ahead of index from, going round the ring. *)
Ahead(i, from) == IF i >= from THEN i - from ELSE i - from + FIFO_BUFSIZE

(* The i-th byte counted from rd lies i - 1 - len ahead of the write index,
   going round the ring when it is one of the len bytes held. *)
LEMMA AheadOfWrite ==
    ASSUME NEW rd \in Index, NEW len \in 0..FIFO_BUFSIZE, NEW i \in 1..FIFO_BUFSIZE
    PROVE  Ahead(Mask(rd + i - 1), Mask(rd + len))
             = IF i <= len THEN FIFO_BUFSIZE - len + i - 1 ELSE i - 1 - len
<1> USE BufsizeAssumption
<1>1. /\ rd \in Int /\ rd >= 0 /\ rd < FIFO_BUFSIZE
      /\ len \in Int /\ len >= 0 /\ len <= FIFO_BUFSIZE
      /\ i \in Int /\ i >= 1 /\ i <= FIFO_BUFSIZE
  BY DEF Index
<1>2. CASE rd + i - 1 < FIFO_BUFSIZE /\ rd + len < FIFO_BUFSIZE
  BY <1>1, <1>2 DEF Ahead, Mask
<1>3. CASE rd + i - 1 < FIFO_BUFSIZE /\ ~(rd + len < FIFO_BUFSIZE)
  BY <1>1, <1>3 DEF Ahead, Mask
<1>4. CASE ~(rd + i - 1 < FIFO_BUFSIZE) /\ rd + len < FIFO_BUFSIZE
  BY <1>1, <1>4 DEF Ahead, Mask
<1>5. CASE ~(rd + i - 1 < FIFO_BUFSIZE) /\ ~(rd + len < FIFO_BUFSIZE)
  BY <1>1, <1>5 DEF Ahead, Mask
<1> QED
  BY <1>2, <1>3, <1>4, <1>5

(* Going round the ring twice is going round it once by the sum. *)
LEMMA MaskOfSum ==
    ASSUME NEW rd \in Index, NEW len \in 0..FIFO_BUFSIZE, NEW n \in 0..(FIFO_BUFSIZE - len)
    PROVE  Mask(Mask(rd + len) + n) = Mask(rd + (len + n))
<1> USE BufsizeAssumption
<1>1. /\ rd \in Int /\ rd >= 0 /\ rd < FIFO_BUFSIZE
      /\ len \in Int /\ len >= 0 /\ len <= FIFO_BUFSIZE
      /\ n \in Int /\ n >= 0 /\ len + n <= FIFO_BUFSIZE
      /\ FIFO_BUFSIZE \in Int
  BY DEF Index
<1>2. CASE rd + len < FIFO_BUFSIZE
  BY <1>1, <1>2 DEF Mask
<1>3. CASE ~(rd + len < FIFO_BUFSIZE)
  <2>1. rd + len - FIFO_BUFSIZE + n < FIFO_BUFSIZE
    BY <1>1
  <2> QED
    BY <1>1, <1>3, <2>1 DEF Mask
<1> QED
  BY <1>2, <1>3

(* fifo_putc keeps the struct's fields in their ranges. *)
LEMMA PutcStaysFifo ==
    ASSUME NEW f \in Fifo, NEW c \in Byte
    PROVE  fifo_putc(f, c) \in Fifo
<1> USE BufsizeAssumption
<1>1. CASE f.len >= FIFO_BUFSIZE
  BY <1>1 DEF fifo_putc
<1>2. CASE ~(f.len >= FIFO_BUFSIZE)
  <2>1. f.rd \in Index /\ f.wr \in Index /\ f.len \in 0..FIFO_BUFSIZE /\ f.buf \in [Index -> Byte]
    BY DEF Fifo
  <2>2. fifo_putc(f, c) = [rd |-> f.rd, wr |-> Mask(f.wr + 1),
                           len |-> f.len + 1, buf |-> [f.buf EXCEPT ![f.wr] = c]]
    BY <1>2 DEF fifo_putc, Fifo
  <2>3. Mask(f.wr + 1) \in Index /\ f.len + 1 \in 0..FIFO_BUFSIZE
    BY <1>2, <2>1 DEF Mask, Index
  <2>4. [f.buf EXCEPT ![f.wr] = c] \in [Index -> Byte]
    BY <2>1
  <2> HIDE DEF Index
  <2> QED
    BY <2>1, <2>2, <2>3, <2>4 DEF Fifo
<1> QED
  BY <1>1, <1>2

(* A loop of fifo_putc over s goes through the rings r, one per byte. *)
LEMMA PutcLoop ==
    ASSUME NEW f \in Fifo, NEW s \in Seq(Byte)
    PROVE  \E r \in [0..Len(s) -> Fifo] :
              /\ r[0] = f
              /\ \A k \in 1..Len(s) : r[k] = fifo_putc(r[k - 1], s[k])
              /\ FoldLeft(fifo_putc, f, s) = r[Len(s)]
<1> DEFINE n == Len(s)
           Step == [k \in 1..n |-> [v \in Fifo |-> fifo_putc(v, s[k])]]
           Body(g) == [x \in SUBSET (1..n) |->
                          IF x = {} THEN f ELSE fifo_putc(g[x \ {Max(x)}], s[Max(x)])]
           h == CHOOSE g : g = Body(g)
<1>1. n \in Nat /\ DOMAIN s = 1..n /\ \A k \in 1..n : s[k] \in Byte
  OBVIOUS
<1> HIDE DEF n
<1>2. Step \in [1..n -> [Fifo -> Fifo]]
  BY <1>1, PutcStaysFifo
<1>3. \E g : g = Body(g)
  <2>1. PICK g : IsFold(g, n, Fifo, f, Step)
    <3> HIDE DEF Step
    <3>1. n \in Nat
      BY <1>1
    <3> QED
      BY <3>1, <1>2, FoldExists
  <2>2. /\ g \in [SUBSET (1..n) -> Fifo]
        /\ g[{}] = f
        /\ \A x \in SUBSET (1..n) : x # {} => g[x] = Step[Max(x)][g[x \ {Max(x)}]]
    BY <2>1 DEF IsFold
  <2>3. ASSUME NEW x \in SUBSET (1..n), x # {}
        PROVE  g[x] = fifo_putc(g[x \ {Max(x)}], s[Max(x)])
    <3> DEFINE a == g[x \ {Max(x)}]
               m == Max(x)
    <3>1. m \in 1..n /\ a \in Fifo
      BY <1>1, <2>2, <2>3, MaxOfRange
    <3>2. g[x] = Step[m][a]
      BY <2>2, <2>3
    <3> HIDE DEF a, m
    <3>3. Step[m][a] = fifo_putc(a, s[m])
      BY <3>1, Zenon
    <3> QED
      BY <3>2, <3>3 DEF a, m
  <2>4. g = Body(g)
    BY <2>2, <2>3
  <2> QED
    BY <2>4
<1>4. h = Body(h)
  <2> HIDE DEF Body
  <2> QED
    BY <1>3
<1>5. FoldLeft(fifo_putc, f, s) = h[1..n]
  BY <1>1, Zenon DEF FoldLeft, MapThenFoldSet, h, Body
<1> HIDE DEF h
<1>6. h[1..0] = f
  BY <1>1, <1>4, EmptyPrefix
<1>7. \A k \in 1..n : h[1..k] = fifo_putc(h[1..(k - 1)], s[k])
  <2> SUFFICES ASSUME NEW k \in 1..n
               PROVE  h[1..k] = fifo_putc(h[1..(k - 1)], s[k])
    OBVIOUS
  <2>1. /\ 1..k \in SUBSET (1..n) /\ 1..k # {}
        /\ Max(1..k) = k /\ (1..k) \ {k} = 1..(k - 1)
    BY <1>1, PrefixPositions
  <2>2. h[1..k] = fifo_putc(h[(1..k) \ {Max(1..k)}], s[Max(1..k)])
    BY <1>4, <2>1, Zenon
  <2> QED
    BY <2>1, <2>2
<1> DEFINE T == {k \in Nat : k <= n => h[1..k] \in Fifo}
<1>8. 0 \in T
  BY <1>6
<1>9. ASSUME NEW k \in Nat, k \in T
      PROVE  k + 1 \in T
  <2>1. k + 1 <= n => k + 1 \in 1..n /\ k + 1 - 1 = k /\ s[k + 1] \in Byte /\ h[1..k] \in Fifo
    BY <1>1, <1>9
  <2> QED
    BY <1>7, <2>1, PutcStaysFifo
<1>10. \A k \in Nat : k \in T
  <2> HIDE DEF T
  <2> QED
    BY <1>8, <1>9, Induction
<1> DEFINE r == [k \in 0..n |-> h[1..k]]
<1>11. r \in [0..n -> Fifo] /\ \A k \in 0..n : r[k] = h[1..k]
  BY <1>1, <1>10
<1>12. \A k \in 1..n : k \in 0..n /\ k - 1 \in 0..n
  BY <1>1
<1>13. 0 \in 0..n /\ n \in 0..n
  BY <1>1
<1> HIDE DEF r
<1>14. /\ r[0] = f
       /\ \A k \in 1..n : r[k] = fifo_putc(r[k - 1], s[k])
       /\ FoldLeft(fifo_putc, f, s) = r[n]
  BY <1>5, <1>6, <1>7, <1>11, <1>12, <1>13
<1> QED
  BY <1>11, <1>14 DEF n

(* The ring f after the first n bytes of s have gone in. *)
Filled(f, s, n) ==
    [rd |-> f.rd,
     wr |-> Mask(f.wr + n),
     len |-> f.len + n,
     buf |-> [i \in Index |-> IF Ahead(i, f.wr) < n
                              THEN s[Ahead(i, f.wr) + 1]
                              ELSE f.buf[i]]]

(* Before the first byte the ring is as it was. *)
LEMMA NothingFilled ==
    ASSUME NEW f \in Fifo, NEW s
    PROVE  Filled(f, s, 0) = f
<1> USE BufsizeAssumption
<1>1. /\ f.rd \in Index /\ f.wr \in Index /\ f.len \in 0..FIFO_BUFSIZE
      /\ f.buf \in [Index -> Byte]
      /\ f = [rd |-> f.rd, wr |-> f.wr, len |-> f.len, buf |-> f.buf]
  BY DEF Fifo
<1>2. \A i \in Index : ~(Ahead(i, f.wr) < 0)
  BY <1>1 DEF Ahead, Index
<1>3. Mask(f.wr + 0) = f.wr /\ f.len + 0 = f.len
  BY <1>1 DEF Mask, Index
<1>4. [i \in Index |-> IF Ahead(i, f.wr) < 0 THEN s[Ahead(i, f.wr) + 1]
                       ELSE f.buf[i]] = f.buf
  BY <1>1, <1>2
<1> QED
  BY <1>1, <1>3, <1>4 DEF Filled

(* fifo_putc adds the next byte of s, wherever the write index wraps. *)
LEMMA OneMoreFilled ==
    ASSUME NEW f \in Fifo, NEW s, NEW n \in Nat, f.len + n < FIFO_BUFSIZE
    PROVE  fifo_putc(Filled(f, s, n), s[n + 1]) = Filled(f, s, n + 1)
<1> USE BufsizeAssumption
<1>1. f.rd \in Index /\ f.wr \in Index /\ f.len \in 0..FIFO_BUFSIZE
  BY DEF Fifo
<1>2. /\ f.wr \in Int /\ f.wr >= 0 /\ f.wr < FIFO_BUFSIZE
      /\ f.len \in Int /\ f.len >= 0
      /\ n < FIFO_BUFSIZE
  BY <1>1 DEF Index
<1> DEFINE w == Mask(f.wr + n)
           buf(m) == [i \in Index |-> IF Ahead(i, f.wr) < m THEN s[Ahead(i, f.wr) + 1]
                                      ELSE f.buf[i]]
<1>3. w \in Index /\ Mask(w + 1) = Mask(f.wr + (n + 1))
  <2>1. CASE f.wr + n < FIFO_BUFSIZE
    <3>1. w = f.wr + n
      BY <1>2, <2>1 DEF Mask
    <3> QED
      BY <1>2, <2>1, <3>1 DEF Mask, Index
  <2>2. CASE ~(f.wr + n < FIFO_BUFSIZE)
    <3>1. w = f.wr + n - FIFO_BUFSIZE
      BY <1>2, <2>2 DEF Mask
    <3> QED
      BY <1>2, <2>2, <3>1 DEF Mask, Index
  <2> QED
    BY <2>1, <2>2
<1>4. Ahead(w, f.wr) = n
  <2>1. CASE f.wr + n < FIFO_BUFSIZE
    <3>1. w = f.wr + n
      BY <1>2, <2>1 DEF Mask
    <3> QED
      BY <1>2, <2>1, <3>1 DEF Ahead
  <2>2. CASE ~(f.wr + n < FIFO_BUFSIZE)
    <3>1. w = f.wr + n - FIFO_BUFSIZE
      BY <1>2, <2>2 DEF Mask
    <3> QED
      BY <1>2, <2>2, <3>1 DEF Ahead
  <2> QED
    BY <2>1, <2>2
<1>5. \A i \in Index : Ahead(i, f.wr) \in Nat /\ (Ahead(i, f.wr) = n => i = w)
  <2> SUFFICES ASSUME NEW i \in Index
               PROVE  Ahead(i, f.wr) \in Nat /\ (Ahead(i, f.wr) = n => i = w)
    OBVIOUS
  <2>1. i \in Int /\ i >= 0 /\ i < FIFO_BUFSIZE
    BY DEF Index
  <2> QED
    BY <1>2, <2>1 DEF Ahead, Mask
<1>6. [buf(n) EXCEPT ![w] = s[n + 1]] = buf(n + 1)
  <2>1. ASSUME NEW i \in Index
        PROVE  [buf(n) EXCEPT ![w] = s[n + 1]][i] = buf(n + 1)[i]
    <3>1. CASE i = w
      <4>1. [buf(n) EXCEPT ![w] = s[n + 1]][i] = s[n + 1]
        BY <3>1
      <4>2. Ahead(i, f.wr) < n + 1 /\ Ahead(i, f.wr) + 1 = n + 1
        BY <3>1, <1>4
      <4> QED
        BY <4>1, <4>2
    <3>2. CASE i # w
      <4>1. [buf(n) EXCEPT ![w] = s[n + 1]][i] = buf(n)[i]
        BY <3>2
      <4>2. Ahead(i, f.wr) < n + 1 <=> Ahead(i, f.wr) < n
        BY <3>2, <1>5
      <4> QED
        BY <4>1, <4>2
    <3> QED
      BY <3>1, <3>2
  <2>2. DOMAIN [buf(n) EXCEPT ![w] = s[n + 1]] = Index /\ DOMAIN buf(n + 1) = Index
    OBVIOUS
  <2> HIDE DEF buf
  <2>3. buf(n) = [i \in Index |-> buf(n)[i]] /\ buf(n + 1) = [i \in Index |-> buf(n + 1)[i]]
    BY DEF buf
  <2> QED
    BY <2>1, <2>2, <2>3
<1> HIDE DEF buf, w
<1>7. Filled(f, s, n) = [rd |-> f.rd, wr |-> w, len |-> f.len + n, buf |-> buf(n)]
  BY DEF Filled, w, buf
<1>8. ~(f.len + n >= FIFO_BUFSIZE) /\ (f.len + n) + 1 = f.len + (n + 1)
  BY <1>2
<1>9. fifo_putc(Filled(f, s, n), s[n + 1])
        = [rd |-> f.rd, wr |-> Mask(w + 1), len |-> f.len + n + 1,
           buf |-> [buf(n) EXCEPT ![w] = s[n + 1]]]
  <2> DEFINE g == [rd |-> f.rd, wr |-> w, len |-> f.len + n, buf |-> buf(n)]
  <2>1. ~(g.len >= FIFO_BUFSIZE)
    BY <1>8
  <2>2. fifo_putc(g, s[n + 1])
          = [g EXCEPT !.buf = [g.buf EXCEPT ![g.wr] = s[n + 1]],
                      !.wr = Mask(g.wr + 1), !.len = g.len + 1]
    BY <2>1, Zenon DEF fifo_putc
  <2> QED
    BY <1>7, <2>2
<1>10. Filled(f, s, n + 1)
        = [rd |-> f.rd, wr |-> Mask(f.wr + (n + 1)), len |-> f.len + (n + 1), buf |-> buf(n + 1)]
  BY DEF Filled, buf
<1> QED
  BY <1>3, <1>6, <1>8, <1>9, <1>10

(* fifo_write's loop puts the bytes that fit behind the contents, wherever the
   write index wraps (fifo.c:74-88). *)
LEMMA WriteFills ==
    ASSUME NEW f \in Fifo, NEW s \in Seq(Byte)
    PROVE  fifo_write(f, s) = Filled(f, s, Taken(f, s))
<1> USE BufsizeAssumption
<1> DEFINE n == Taken(f, s)
           p == SubSeq(s, 1, n)
<1>1. n \in Nat /\ f.len \in Nat /\ f.len + n <= FIFO_BUFSIZE /\ n \in 0..Len(s)
  BY DEF Fifo, Taken, Smaller, fifo_space
<1> HIDE DEF n
<1>2. p \in Seq(Byte) /\ Len(p) = n /\ \A k \in 1..n : p[k] = s[k]
  BY <1>1, SubSeqProperties
<1> HIDE DEF p
<1>3. PICK r \in [0..Len(p) -> Fifo] :
              /\ r[0] = f
              /\ \A k \in 1..Len(p) : r[k] = fifo_putc(r[k - 1], p[k])
              /\ FoldLeft(fifo_putc, f, p) = r[Len(p)]
  BY <1>2, PutcLoop
<1> DEFINE T == {k \in Nat : k <= n => r[k] = Filled(f, s, k)}
<1>4. 0 \in T
  BY <1>3, NothingFilled
<1>5. ASSUME NEW k \in Nat, k \in T
      PROVE  k + 1 \in T
  <2> SUFFICES ASSUME k + 1 <= n
               PROVE  r[k + 1] = Filled(f, s, k + 1)
    OBVIOUS
  <2>1. r[k] = Filled(f, s, k) /\ k + 1 \in 1..n /\ (k + 1) - 1 = k /\ f.len + k < FIFO_BUFSIZE
    BY <1>1, <1>5
  <2>2. r[k + 1] = fifo_putc(r[k], s[k + 1])
    BY <1>2, <1>3, <2>1
  <2> QED
    BY <2>1, <2>2, OneMoreFilled
<1>6. n \in T
  <2> HIDE DEF T
  <2> QED
    BY <1>1, <1>4, <1>5, Induction
<1>7. FoldLeft(fifo_putc, f, p) = Filled(f, s, n)
  BY <1>1, <1>2, <1>3, <1>6
<1>8. fifo_write(f, s) = FoldLeft(fifo_putc, f, p)
  BY DEF fifo_write, n, p
<1> QED
  BY <1>7, <1>8 DEF n

(* fifo_write appends what fits and leaves the ring well formed, whatever
   the positions of the indices (fifo.c:74-88). *)
LEMMA WriteContents ==
    ASSUME NEW f \in Fifo, IsCoherent(f), NEW s \in Seq(Byte)
    PROVE  /\ fifo_write(f, s) \in Fifo
           /\ IsCoherent(fifo_write(f, s))
           /\ Contents(fifo_write(f, s)) = Q!Push(Contents(f), s)
           /\ Len(Contents(fifo_write(f, s))) - Len(Contents(f)) = Taken(f, s)
<1> USE BufsizeAssumption, ByteAssumption
<1> DEFINE n == Taken(f, s)
           g == fifo_write(f, s)
<1>0. g = Filled(f, s, n)
  BY WriteFills
<1>1. /\ n \in 0..(FIFO_BUFSIZE - f.len)
      /\ n <= Len(s)
      /\ Len(s) \in Nat
      /\ f.len \in 0..FIFO_BUFSIZE
      /\ f.rd \in Index /\ f.wr \in Index
  BY DEF Fifo, Taken, Smaller, fifo_space
<1>2. \A i \in Index : Ahead(i, f.wr) \in Nat
  <2> SUFFICES ASSUME NEW i \in Index PROVE Ahead(i, f.wr) \in Nat
    OBVIOUS
  <2>1. i \in Int /\ i >= 0 /\ i < FIFO_BUFSIZE /\ f.wr \in Int /\ f.wr < FIFO_BUFSIZE
    BY <1>1 DEF Index
  <2> QED
    BY <2>1 DEF Ahead
<1>3. \A i \in Index : Ahead(i, f.wr) < n => s[Ahead(i, f.wr) + 1] \in Byte
  <2> SUFFICES ASSUME NEW i \in Index, Ahead(i, f.wr) < n
               PROVE  s[Ahead(i, f.wr) + 1] \in Byte
    OBVIOUS
  <2> DEFINE a == Ahead(i, f.wr)
  <2>1. a \in Nat
    BY <1>2
  <2> HIDE DEF n, a
  <2>2. n \in Int /\ a < n
    BY <1>1 DEF a
  <2>3. a + 1 \in 1..Len(s)
    BY <1>1, <2>1, <2>2
  <2> QED
    BY <2>3, ElementOfSeq DEF a
<1>4. \A i \in Index : f.buf[i] \in Byte
  BY DEF Fifo
<1> HIDE DEF n, g
<1>10. /\ FIFO_BUFSIZE \in Int
       /\ f.rd \in Int /\ f.rd >= 0 /\ f.rd < FIFO_BUFSIZE
       /\ f.len \in Int /\ f.len >= 0 /\ n \in Int /\ n >= 0
       /\ f.len + n <= FIFO_BUFSIZE
  BY <1>1 DEF Index
<1> USE DEF g
<1>5. Mask(f.wr + n) \in Index
  <2>1. /\ f.wr \in Int /\ f.wr >= 0 /\ f.wr < FIFO_BUFSIZE
        /\ n \in Int /\ n >= 0 /\ n <= FIFO_BUFSIZE
    BY <1>1 DEF Index
  <2> HIDE DEF g
  <2> QED
    BY <2>1 DEF Mask, Index
<1>6. g.buf \in [Index -> Byte]
  <2>1. g.buf = [i \in Index |-> IF Ahead(i, f.wr) < n THEN s[Ahead(i, f.wr) + 1]
                                ELSE f.buf[i]]
    BY <1>0 DEF Filled
  <2> HIDE DEF g
  <2> QED
    BY <2>1, <1>3, <1>4
<1>7. g \in Fifo
  BY <1>0, <1>1, <1>5, <1>6 DEF Fifo, Filled
<1>8. IsCoherent(g)
  <2>1. Mask(f.wr + n) = Mask(f.rd + (f.len + n))
    BY <1>1, MaskOfSum DEF IsCoherent
  <2> QED
    BY <1>0, <2>1 DEF IsCoherent, Filled
<1>9. Contents(g) = Q!Push(Contents(f), s)
  <2> DEFINE p == SubSeq(s, 1, n)
  <2>1. /\ p \in Seq(Byte)
        /\ Len(p) = n
        /\ \A i \in 1..n : p[i] = s[i]
    BY <1>1, SubSeqProperties
  <2>2. Q!Push(Contents(f), s) = Contents(f) \o p
    <3>1. Len(Contents(f)) = f.len
      BY ContentsIsSeq
    <3>2. Q!Least(Len(s), FIFO_BUFSIZE - f.len) = n
      BY <1>1 DEF Q!Least, n, Taken, Smaller, fifo_space
    <3> QED
      BY <3>1, <3>2 DEF Q!Push, Q!Fitting
  <2>3. g.len = f.len + n /\ g.rd = f.rd
    BY <1>0 DEF Filled
  <2>4. \A i \in 1..f.len : g.buf[Mask(g.rd + i - 1)] = f.buf[Mask(f.rd + i - 1)]
    <3> SUFFICES ASSUME NEW i \in 1..f.len
                 PROVE  g.buf[Mask(g.rd + i - 1)] = f.buf[Mask(f.rd + i - 1)]
      OBVIOUS
    <3> DEFINE j == Mask(f.rd + i - 1)
    <3>1. j \in Index
      <4> HIDE DEF g
      <4>1. i \in 1..FIFO_BUFSIZE
        BY <1>10
      <4> QED
        BY <1>1, <4>1, RoundTheRing
    <3>2. ~(Ahead(j, f.wr) < n)
      <4>1. i \in 1..FIFO_BUFSIZE
        BY <1>1
      <4>2. Ahead(j, f.wr) = FIFO_BUFSIZE - f.len + i - 1
        <5>1. f.wr = Mask(f.rd + f.len)
          BY DEF IsCoherent
        <5> HIDE DEF g
        <5>2. Ahead(j, Mask(f.rd + f.len))
                = IF i <= f.len THEN FIFO_BUFSIZE - f.len + i - 1 ELSE i - 1 - f.len
          BY <1>1, <4>1, AheadOfWrite
        <5> HIDE DEF j
        <5> QED
          BY <5>1, <5>2
      <4> QED
        BY <1>1, <4>2
    <3>3. g.buf[j] = f.buf[j]
      BY <1>0, <3>1, <3>2 DEF Filled
    <3> QED
      BY <3>3, <2>3
  <2>5. \A i \in (f.len + 1)..(f.len + n) :
            g.buf[Mask(g.rd + i - 1)] = p[i - f.len]
    <3> SUFFICES ASSUME NEW i \in (f.len + 1)..(f.len + n)
                 PROVE  g.buf[Mask(g.rd + i - 1)] = p[i - f.len]
      OBVIOUS
    <3> DEFINE j == Mask(f.rd + i - 1)
    <3>1. j \in Index
      <4> HIDE DEF g, p
      <4>1. i \in 1..FIFO_BUFSIZE
        BY <1>10
      <4> QED
        BY <1>1, <4>1, RoundTheRing
    <3>2. Ahead(j, f.wr) = i - f.len - 1
      <4>1. i \in 1..FIFO_BUFSIZE /\ ~(i <= f.len)
        <5> HIDE DEF g, p, j
        <5> QED
          BY <1>10
      <4>2. Ahead(j, f.wr) = i - 1 - f.len
        <5>1. f.wr = Mask(f.rd + f.len)
          BY DEF IsCoherent
        <5> HIDE DEF g, p
        <5>2. Ahead(j, Mask(f.rd + f.len))
                = IF i <= f.len THEN FIFO_BUFSIZE - f.len + i - 1 ELSE i - 1 - f.len
          BY <1>1, <4>1, AheadOfWrite
        <5> HIDE DEF j
        <5> QED
          BY <4>1, <5>1, <5>2
      <4> HIDE DEF j
      <4> QED
        BY <1>10, <4>2
    <3>3. i - f.len - 1 < n
      BY <1>10
    <3>4. g.buf[j] = s[i - f.len]
      <4>1. g.buf[j] = s[Ahead(j, f.wr) + 1]
        BY <1>0, <3>1, <3>2, <3>3 DEF Filled
      <4>2. (i - f.len - 1) + 1 = i - f.len
        BY <1>10
      <4> QED
        BY <4>1, <4>2, <3>2
    <3>5. i - f.len \in 1..n
      BY <1>10
    <3> QED
      BY <3>4, <3>5, <2>1, <2>3
  <2> HIDE DEF g, p
  <2>6. /\ Contents(g) \in Seq(Byte)
        /\ Len(Contents(g)) = f.len + n
        /\ \A i \in 1..(f.len + n) : Contents(g)[i] = g.buf[Mask(g.rd + i - 1)]
    BY <1>7, <2>3, ContentsIsSeq
  <2>7. /\ Contents(f) \o p \in Seq(Byte)
        /\ Len(Contents(f) \o p) = f.len + n
        /\ \A i \in 1..(f.len + n) :
              (Contents(f) \o p)[i] = IF i <= f.len THEN Contents(f)[i]
                                      ELSE p[i - f.len]
    <3> DEFINE c == Contents(f)
    <3>1. c \in Seq(Byte) /\ Len(c) = f.len
      BY ContentsIsSeq
    <3> HIDE DEF c
    <3>2. /\ c \o p \in Seq(Byte)
          /\ Len(c \o p) = Len(c) + Len(p)
          /\ \A i \in 1..Len(c) + Len(p) :
                (c \o p)[i] = IF i <= Len(c) THEN c[i] ELSE p[i - Len(c)]
      BY <2>1, <3>1, ConcatProperties
    <3>3. c \o p \in Seq(Byte) /\ Len(c \o p) = f.len + n
      BY <3>1, <3>2, <2>1
    <3>4. \A i \in 1..(f.len + n) :
              (c \o p)[i] = IF i <= f.len THEN c[i] ELSE p[i - f.len]
      BY <3>1, <3>2, <2>1
    <3> QED
      BY <3>3, <3>4 DEF c
  <2>8. \A i \in 1..(f.len + n) : Contents(g)[i] = (Contents(f) \o p)[i]
    <3> SUFFICES ASSUME NEW i \in 1..(f.len + n)
                 PROVE  Contents(g)[i] = (Contents(f) \o p)[i]
      OBVIOUS
    <3>1. CASE i <= f.len
      <4>1. i \in 1..f.len
        BY <1>1, <3>1
      <4> QED
        BY <4>1, <3>1, <2>4, <2>6, <2>7, ContentsIsSeq
    <3>2. CASE ~(i <= f.len)
      <4>1. i \in (f.len + 1)..(f.len + n)
        BY <1>1, <3>2
      <4> QED
        BY <4>1, <3>2, <2>5, <2>6, <2>7
    <3> QED
      BY <3>1, <3>2
  <2> QED
    BY <2>2, <2>6, <2>7, <2>8, SeqEqual
<1>11. Len(Contents(g)) - Len(Contents(f)) = n
  <2>1. Len(Contents(g)) = g.len
    BY <1>7, ContentsIsSeq
  <2>2. g.len = f.len + n
    BY <1>0 DEF Filled
  <2> QED
    BY <2>1, <2>2, <1>1, ContentsIsSeq
<1> QED
  BY <1>7, <1>8, <1>9, <1>11 DEF n

(* fifo_putc is a one-byte fifo_write, and leaves the ring well formed. *)
LEMMA PutcIsWrite ==
    ASSUME NEW f \in Fifo, NEW c \in Byte
    PROVE  /\ fifo_putc(f, c) = fifo_write(f, <<c>>)
           /\ Taken(f, <<c>>) = IF f.len >= FIFO_BUFSIZE THEN 0 ELSE 1
<1> USE BufsizeAssumption
<1> DEFINE s == <<c>>
<1>1. s \in Seq(Byte) /\ Len(s) = 1 /\ s[1] = c
  OBVIOUS
<1>2. f.len \in 0..FIFO_BUFSIZE
  BY DEF Fifo
<1>3. Taken(f, s) = IF f.len >= FIFO_BUFSIZE THEN 0 ELSE 1
  BY <1>1, <1>2 DEF Taken, Smaller, fifo_space
<1> HIDE DEF s
<1>4. fifo_write(f, s) = Filled(f, s, Taken(f, s)) /\ Filled(f, s, 0) = f
  BY <1>1, WriteFills, NothingFilled
<1>5. CASE f.len >= FIFO_BUFSIZE
  <2>1. fifo_putc(f, c) = f
    BY <1>5 DEF fifo_putc
  <2> QED
    BY <2>1, <1>3, <1>4, <1>5 DEF s
<1>6. CASE ~(f.len >= FIFO_BUFSIZE)
  <2>1. f.len + 0 < FIFO_BUFSIZE
    BY <1>2, <1>6
  <2>2. fifo_putc(Filled(f, s, 0), s[0 + 1]) = Filled(f, s, 0 + 1)
    BY <2>1, OneMoreFilled
  <2> QED
    BY <2>2, <1>1, <1>3, <1>4, <1>6 DEF s
<1> QED
  BY <1>5, <1>6

(* Taking n bytes off the front removes exactly the first n bytes. *)
LEMMA AdvanceDrops ==
    ASSUME NEW f \in Fifo, IsCoherent(f), NEW n \in 0..f.len
    PROVE  /\ Advance(f, n) \in Fifo
           /\ IsCoherent(Advance(f, n))
           /\ Contents(Advance(f, n)) = Q!Drop(Contents(f), n)
<1> USE BufsizeAssumption
<1> DEFINE g == Advance(f, n)
<1>1. /\ f.len \in 0..FIFO_BUFSIZE /\ f.rd \in Index /\ f.wr \in Index
      /\ n \in 0..FIFO_BUFSIZE
  BY DEF Fifo
<1>2. /\ g = [rd |-> Mask(f.rd + n), wr |-> f.wr, len |-> f.len - n, buf |-> f.buf]
      /\ g.rd = Mask(f.rd + n) /\ g.len = f.len - n /\ g.wr = f.wr /\ g.buf = f.buf
  <2> DEFINE r == [rd |-> Mask(f.rd + n), wr |-> f.wr, len |-> f.len - n, buf |-> f.buf]
  <2>1. g = r
    <3>1. f = [rd |-> f.rd, wr |-> f.wr, len |-> f.len, buf |-> f.buf]
      BY DEF Fifo
    <3>2. g = [[f EXCEPT !.rd = Mask(f.rd + n)] EXCEPT !.len = f.len - n]
      BY <3>1 DEF Advance
    <3> QED
      BY <3>1, <3>2
  <2>2. r.rd = Mask(f.rd + n) /\ r.len = f.len - n /\ r.wr = f.wr /\ r.buf = f.buf
    OBVIOUS
  <2> QED
    BY <2>1, <2>2
<1>3. Mask(f.rd + n) \in Index
  BY <1>1 DEF Mask, Index
<1>4. g \in Fifo
  <2>1. f.len - n \in 0..FIFO_BUFSIZE /\ f.buf \in [Index -> Byte]
    BY <1>1 DEF Fifo
  <2> QED
    BY <1>1, <1>2, <1>3, <2>1 DEF Fifo
<1>5. IsCoherent(g)
  <2>1. Mask(Mask(f.rd + n) + (f.len - n)) = Mask(f.rd + f.len)
    <3>1. CASE f.rd + n < FIFO_BUFSIZE
      BY <1>1, <3>1 DEF Mask, Index
    <3>2. CASE ~(f.rd + n < FIFO_BUFSIZE)
      BY <1>1, <3>2 DEF Mask, Index
    <3> QED
      BY <3>1, <3>2
  <2> QED
    BY <1>2, <2>1 DEF IsCoherent
<1>6. Contents(g) = Q!Drop(Contents(f), n)
  <2> DEFINE c == Contents(f)
             d == SubSeq(c, n + 1, f.len)
  <2>1. /\ c \in Seq(Byte)
        /\ Len(c) = f.len
        /\ \A i \in 1..f.len : c[i] = f.buf[Mask(f.rd + i - 1)]
    BY ContentsIsSeq
  <2> HIDE DEF c
  <2>2. \A i \in (n + 1)..f.len : c[i] \in Byte
    BY <2>1, <1>1, ElementOfSeq
  <2>3. /\ d \in Seq(Byte)
        /\ Len(d) = f.len - n
        /\ \A i \in 1..(f.len - n) : d[i] = c[n + i]
    BY <2>1, <2>2, <1>1, SubSeqProperties
  <2> HIDE DEF g, d
  <2>4. /\ Contents(g) \in Seq(Byte)
        /\ Len(Contents(g)) = f.len - n
        /\ \A i \in 1..(f.len - n) :
              Contents(g)[i] = f.buf[Mask(Mask(f.rd + n) + i - 1)]
    BY <1>2, <1>4, ContentsIsSeq
  <2>5. \A i \in 1..(f.len - n) : Contents(g)[i] = d[i]
    <3> SUFFICES ASSUME NEW i \in 1..(f.len - n)
                 PROVE  Contents(g)[i] = d[i]
      OBVIOUS
    <3>1. Mask(Mask(f.rd + n) + i - 1) = Mask(f.rd + (n + i) - 1)
      BY <1>1 DEF Mask, Index
    <3>2. n + i \in 1..f.len
      BY <1>1
    <3> QED
      BY <3>1, <3>2, <2>1, <2>3, <2>4
  <2>6. Contents(g) = d
    BY <2>3, <2>4, <2>5, SeqEqual
  <2> QED
    BY <2>6, <2>1 DEF Q!Drop, d, c
<1> QED
  BY <1>4, <1>5, <1>6

(* fifo_getbulk lends a prefix of the contents and keeps the rest, in the
   wrapping case and in the other one (fifo.c:106-135). *)
LEMMA BulkTakesPrefix ==
    ASSUME NEW f \in Fifo, IsCoherent(f)
    PROVE  /\ fifo_getbulk(f) \in Fifo
           /\ IsCoherent(fifo_getbulk(f))
           /\ BulkCount(f) \in 0..f.len
           /\ f.len > 0 => BulkCount(f) > 0
           /\ BulkData(f) = SubSeq(Contents(f), 1, BulkCount(f))
           /\ Contents(fifo_getbulk(f)) = Q!Drop(Contents(f), BulkCount(f))
<1> USE BufsizeAssumption
<1> DEFINE k == BulkCount(f)
           g == fifo_getbulk(f)
           c == Contents(f)
<1>1. /\ f.len \in 0..FIFO_BUFSIZE /\ f.rd \in Index /\ f.wr \in Index
      /\ f.buf \in [Index -> Byte]
  BY DEF Fifo
<1>2. k \in 0..f.len /\ (f.len > 0 => k > 0)
  BY <1>1 DEF BulkCount, Wraps, Index
<1>3. f.rd + k <= FIFO_BUFSIZE
  BY <1>1 DEF BulkCount, Wraps, Index
<1>4. /\ c \in Seq(Byte)
      /\ Len(c) = f.len
      /\ \A i \in 1..f.len : c[i] = f.buf[Mask(f.rd + i - 1)]
  BY ContentsIsSeq
<1>5. BulkData(f) = SubSeq(c, 1, k)
  <2> DEFINE p == SubSeq(c, 1, k)
  <2> HIDE DEF c, k
  <2>1. \A i \in 1..k : c[i] \in Byte
    BY <1>1, <1>2, <1>4, ElementOfSeq
  <2>2. /\ p \in Seq(Byte)
        /\ Len(p) = k
        /\ \A i \in 1..k : p[i] = c[i]
    BY <1>1, <1>2, <2>1, SubSeqProperties
  <2>3. \A i \in 1..k : f.buf[f.rd + i - 1] = p[i]
    <3> SUFFICES ASSUME NEW i \in 1..k
                 PROVE  f.buf[f.rd + i - 1] = p[i]
      OBVIOUS
    <3>1. Mask(f.rd + i - 1) = f.rd + i - 1
      BY <1>1, <1>2, <1>3 DEF Mask, Index
    <3>2. i \in 1..f.len
      BY <1>1, <1>2
    <3> QED
      BY <3>1, <3>2, <1>4, <2>2
  <2>4. p = [i \in 1..k |-> p[i]]
    <3>1. DOMAIN p = 1..k
      BY <2>2, LenProperties
    <3> QED
      BY <2>2, <3>1, LenProperties
  <2>5. BulkData(f) = [i \in 1..k |-> f.buf[f.rd + i - 1]]
    BY DEF BulkData, k
  <2> QED
    BY <2>3, <2>4, <2>5
<1>6. /\ g \in Fifo
      /\ IsCoherent(g)
      /\ Contents(g) = Q!Drop(c, k)
  <2>1. CASE f.len = 0
    <3>1. g = f /\ k = 0
      BY <1>2, <2>1 DEF fifo_getbulk
    <3>2. Q!Drop(c, 0) = c
      BY <1>4, <2>1 DEF Q!Drop
    <3> QED
      BY <3>1, <3>2
  <2>2. CASE f.len # 0 /\ Wraps(f)
    <3>1. k = FIFO_BUFSIZE - f.rd
      BY <2>2 DEF BulkCount
    <3>2. Mask(f.rd + k) = 0
      BY <3>1, <1>1 DEF Mask, Index
    <3>3. g = [f EXCEPT !.len = @ - k, !.rd = 0]
      BY <2>2 DEF fifo_getbulk
    <3>4. Advance(f, k) = [f EXCEPT !.len = @ - k, !.rd = 0]
      BY <3>2 DEF Advance, Fifo
    <3> QED
      BY <3>3, <3>4, <1>2, AdvanceDrops
  <2>3. CASE f.len # 0 /\ ~Wraps(f)
    <3>1. k = f.len
      BY <2>3 DEF BulkCount
    <3>2. g = [rd |-> 0, wr |-> 0, len |-> 0, buf |-> f.buf]
      BY <2>3 DEF fifo_getbulk, Fifo
    <3>3. 0 \in Index /\ 0 \in 0..FIFO_BUFSIZE
      BY DEF Index
    <3>4. g \in Fifo
      BY <3>2, <3>3, <1>1 DEF Fifo
    <3>5. IsCoherent(g)
      BY <3>2 DEF IsCoherent, Mask
    <3>6. Contents(g) = << >>
      BY <3>2, <3>4, ContentsIsSeq
    <3>7. Q!Drop(c, k) = << >>
      BY <3>1, <1>1, <1>4, SubSeqEmpty DEF Q!Drop
    <3> QED
      BY <3>4, <3>5, <3>6, <3>7
  <2> QED
    BY <2>1, <2>2, <2>3
<1> QED
  BY <1>2, <1>5, <1>6

(* fifo_getc returns the oldest byte, and only that one goes. *)
LEMMA GetcTakesHead ==
    ASSUME NEW f \in Fifo, IsCoherent(f)
    PROVE  /\ fifo_getc(f) \in Fifo
           /\ IsCoherent(fifo_getc(f))
           /\ Gotten(f) \in Int
           /\ f.len = 0 => fifo_getc(f) = f /\ Gotten(f) = -1
           /\ f.len # 0 => /\ Gotten(f) = Contents(f)[1]
                           /\ Contents(fifo_getc(f)) = Q!Drop(Contents(f), 1)
<1> USE BufsizeAssumption, ByteAssumption
<1>1. f.len \in 0..FIFO_BUFSIZE /\ f.rd \in Index /\ f.buf \in [Index -> Byte]
  BY DEF Fifo
<1>2. CASE f.len = 0
  BY <1>2 DEF fifo_getc, Gotten
<1>3. CASE f.len # 0
  <2>1. 1 \in 0..f.len /\ 1 \in 1..f.len
    BY <1>1, <1>3
  <2>2. fifo_getc(f) = Advance(f, 1) /\ Gotten(f) = f.buf[f.rd]
    BY <1>3 DEF fifo_getc, Gotten
  <2>3. Mask(f.rd + 1 - 1) = f.rd
    BY <1>1 DEF Mask, Index
  <2>4. Contents(f)[1] = f.buf[f.rd]
    BY <2>1, <2>3, ContentsIsSeq
  <2>5. Gotten(f) \in Int
    <3>1. f.buf[f.rd] \in Byte
      BY <1>1
    <3>2. \A b \in Byte : b \in Int
      OBVIOUS
    <3> QED
      BY <2>2, <3>1, <3>2, Zenon
  <2>6. /\ Advance(f, 1) \in Fifo
        /\ IsCoherent(Advance(f, 1))
        /\ Contents(Advance(f, 1)) = Q!Drop(Contents(f), 1)
    BY <2>1, AdvanceDrops
  <2> QED
    BY <1>3, <2>2, <2>4, <2>5, <2>6
<1> QED
  BY <1>2, <1>3

(* fifo_read hands out the oldest bytes in order, and bytes of 0xff only when
   there are none left (fifo.c:90-104). *)
LEMMA ReadTakesPrefix ==
    ASSUME NEW f \in Fifo, IsCoherent(f), NEW n \in Nat
    PROVE  /\ fifo_read(f, n) \in Fifo
           /\ IsCoherent(fifo_read(f, n))
           /\ ReadCount(f, n) \in 0..n
           /\ ReadData(f, n) = Q!Padded(Contents(f), ReadCount(f, n))
           /\ ReadData(f, n) \in Seq(Byte)
           /\ Contents(fifo_read(f, n))
                = Q!Drop(Contents(f), Q!Least(ReadCount(f, n), Len(Contents(f))))
<1> USE BufsizeAssumption, ByteAssumption
<1> DEFINE k == ReadCount(f, n)
           m == Smaller(k, f.len)
<1>1. f.len \in 0..FIFO_BUFSIZE
  BY DEF Fifo
<1>2. k \in 0..n /\ k \in Nat
  BY <1>1 DEF ReadCount, Smaller, fifo_space
<1>3. m \in 0..f.len
  BY <1>1, <1>2 DEF Smaller
<1>4. /\ Contents(f) \in Seq(Byte)
      /\ Len(Contents(f)) = f.len
      /\ \A i \in 1..f.len : Contents(f)[i] = f.buf[Mask(f.rd + i - 1)]
  BY ContentsIsSeq
<1>5. Q!Least(k, Len(Contents(f))) = m
  BY <1>4 DEF Q!Least, Smaller
<1>6. fifo_read(f, n) = Advance(f, m)
  BY DEF fifo_read
<1> HIDE DEF k
<1>7. ReadData(f, n) = Q!Padded(Contents(f), k)
  <2>1. \A i \in 1..k :
            (IF i <= f.len THEN f.buf[Mask(f.rd + i - 1)] ELSE 255)
              = IF i <= f.len THEN Contents(f)[i] ELSE 255
    BY <1>1, <1>2, <1>4
  <2> QED
    <3>1. ReadData(f, n) = [i \in 1..k |-> IF i <= f.len
                                           THEN f.buf[Mask(f.rd + i - 1)]
                                           ELSE 255]
      BY DEF ReadData, k
    <3>2. Q!Padded(Contents(f), k)
            = [i \in 1..k |-> IF i <= f.len THEN Contents(f)[i] ELSE 255]
      BY <1>4 DEF Q!Padded, Q!Pad
    <3> QED
      BY <2>1, <3>1, <3>2
<1>8. ReadData(f, n) \in Seq(Byte)
  <2> DEFINE e(i) == IF i <= f.len THEN f.buf[Mask(f.rd + i - 1)] ELSE 255
  <2>1. \A i \in 1..k : e(i) \in Byte
    <3> SUFFICES ASSUME NEW i \in 1..k
                 PROVE  e(i) \in Byte
      OBVIOUS
    <3>1. CASE i <= f.len
      <4>1. i \in 1..f.len
        BY <1>1, <1>2, <3>1
      <4>2. Contents(f)[i] \in Byte
        BY <4>1, <1>4, ElementOfSeq
      <4> QED
        BY <3>1, <4>1, <4>2, <1>4
    <3>2. CASE ~(i <= f.len)
      BY <3>2
    <3> QED
      BY <3>1, <3>2
  <2> HIDE DEF e
  <2>2. [i \in 1..k |-> e(i)] \in Seq(Byte)
    BY <1>2, <2>1, IsASeq
  <2> QED
    BY <2>2 DEF e, ReadData, k
<1> QED
  BY <1>2, <1>3, <1>5, <1>6, <1>7, <1>8, AdvanceDrops DEF k

-----------------------------------------------------------------------------

(* The struct's fields agree with each other in every reachable state. *)
IInv == TypeOK /\ Coherent

(* fifo_init leaves an empty ring with both indices at 0. *)
LEMMA InitEstablishes == Init => IInv
<1> SUFFICES ASSUME Init
             PROVE  IInv
  OBVIOUS
<1> USE BufsizeAssumption, ByteAssumption
<1>1. 0 \in Index /\ 0 \in 0..FIFO_BUFSIZE
  BY DEF Index
<1>2. fifo \in Fifo
  BY <1>1 DEF Init, fifo_init, Fifo
<1>3. IsCoherent(fifo)
  BY DEF Init, fifo_init, IsCoherent, Mask
<1>4. ret \in [n : Int, data : Seq(Byte)]
  BY EmptySeq DEF Init
<1> QED
  BY <1>2, <1>3, <1>4 DEF IInv, TypeOK, Coherent

(* Every call preserves the invariant and is a step of the bounded queue. *)
LEMMA StepPreservesAndRefines ==
    IInv /\ [Next]_vars => IInv' /\ [Q!Next]_(Q!qvars)
<1> SUFFICES ASSUME IInv, [Next]_vars
             PROVE  IInv' /\ [Q!Next]_(Q!qvars)
  OBVIOUS
<1> USE BufsizeAssumption, ByteAssumption, InputsAssumption
<1> DEFINE c == Contents(fifo)
<1>1. fifo \in Fifo /\ IsCoherent(fifo)
  BY DEF IInv, TypeOK, Coherent
<1>2. /\ c \in Seq(Byte)
      /\ Len(c) = fifo.len
      /\ fifo.len \in 0..FIFO_BUFSIZE
  BY <1>1, ContentsIsSeq DEF Fifo
<1>3. << >> \in Seq(Byte)
  BY EmptySeq
<1>4. fifo.len = 0 <=> c = << >>
  BY <1>2, EmptySeq
<1>5. ASSUME NEW s \in Inputs, Write(s)
      PROVE  IInv' /\ Q!Next
  <2>1. s \in Seq(Byte)
    OBVIOUS
  <2>2. Taken(fifo, s) \in Int
    BY <1>2, <2>1 DEF Taken, Smaller, fifo_space
  <2>3. IInv'
    BY <1>1, <1>3, <1>5, <2>1, <2>2, WriteContents DEF Write, IInv, TypeOK, Coherent
  <2>4. Q!Write(s)
    BY <1>1, <1>5, <2>1, WriteContents DEF Write, Q!Write
  <2> QED
    BY <2>3, <2>4 DEF Q!Next
<1>6. ASSUME NEW s \in Inputs, Read(Len(s))
      PROVE  IInv' /\ Q!Next
  <2>1. s \in Seq(Byte) /\ Len(s) \in Nat
    OBVIOUS
  <2>2. ReadCount(fifo, Len(s)) \in 0..Len(s)
    BY <1>1, <2>1, ReadTakesPrefix
  <2>3. IInv'
    BY <1>1, <1>6, <2>1, <2>2, ReadTakesPrefix DEF Read, IInv, TypeOK, Coherent
  <2>4. Q!Read(Len(s))
    BY <1>1, <1>6, <2>1, <2>2, ReadTakesPrefix DEF Read, Q!Read
  <2> QED
    BY <2>3, <2>4 DEF Q!Next
<1>7. ASSUME NEW b \in Byte, <<b>> \in Inputs, Putc(b)
      PROVE  IInv' /\ Q!Next
  <2>1. <<b>> \in Seq(Byte)
    OBVIOUS
  <2>2. /\ fifo' = fifo_write(fifo, <<b>>)
        /\ ret' = [n |-> Taken(fifo, <<b>>), data |-> << >>]
    BY <1>1, <1>7, PutcIsWrite DEF Putc
  <2>3. Write(<<b>>)
    BY <2>2 DEF Write
  <2> QED
    BY <1>5, <1>7, <2>3
<1>8. ASSUME Getc
      PROVE  IInv' /\ Q!Next
  <2>1. IInv'
    BY <1>1, <1>3, <1>8, GetcTakesHead DEF Getc, IInv, TypeOK, Coherent
  <2>2. Q!Getc
    <3>1. CASE fifo.len = 0
      BY <1>1, <1>4, <1>8, <3>1, GetcTakesHead DEF Getc, Q!Getc, Q!EOF
    <3>2. CASE fifo.len # 0
      BY <1>1, <1>4, <1>8, <3>2, GetcTakesHead DEF Getc, Q!Getc
    <3> QED
      BY <3>1, <3>2
  <2> QED
    BY <2>1, <2>2 DEF Q!Next
<1>9. ASSUME Getbulk
      PROVE  IInv' /\ Q!Next
  <2> DEFINE k == BulkCount(fifo)
  <2>1. /\ k \in 0..fifo.len
        /\ fifo.len > 0 => k > 0
        /\ BulkData(fifo) = SubSeq(c, 1, k)
        /\ fifo' \in Fifo
        /\ IsCoherent(fifo')
        /\ Contents(fifo') = Q!Drop(c, k)
    BY <1>1, <1>9, BulkTakesPrefix DEF Getbulk
  <2>2. \A i \in 1..k : c[i] \in Byte
    BY <1>2, <2>1, ElementOfSeq
  <2>3. SubSeq(c, 1, k) \in Seq(Byte)
    BY <1>2, <2>1, <2>2, SubSeqProperties
  <2>4. ret' = [n |-> k, data |-> SubSeq(c, 1, k)]
    BY <1>9, <2>1 DEF Getbulk
  <2> HIDE DEF c, k
  <2>5. IInv'
    BY <1>2, <2>1, <2>3, <2>4 DEF IInv, TypeOK, Coherent
  <2>6. Q!Bulk
    <3>1. CASE fifo.len = 0
      <4>1. k = 0 /\ c = << >>
        BY <1>4, <2>1, <3>1 DEF c
      <4>2. SubSeq(c, 1, 0) = << >>
        BY SubSeqEmpty
      <4>3. fifo' = fifo
        BY <1>9, <3>1 DEF Getbulk, fifo_getbulk
      <4> QED
        BY <2>4, <4>1, <4>2, <4>3 DEF Q!Bulk, c
    <3>2. CASE fifo.len # 0
      <4>1. k \in 1..Len(c)
        BY <1>2, <2>1, <3>2 DEF c
      <4> QED
        BY <2>1, <2>4, <4>1 DEF Q!Bulk, c
    <3> QED
      BY <3>1, <3>2
  <2> QED
    BY <2>5, <2>6 DEF Q!Next
<1>10. CASE UNCHANGED vars
  BY <1>10 DEF vars, IInv, TypeOK, Coherent, Contents, Q!qvars
<1> QED
  BY <1>5, <1>6, <1>7, <1>8, <1>9, <1>10 DEF Next

(* In every reachable state rd, wr and len agree, and the struct stays in
   range, for a buffer of any size (fifo.c:30-135). *)
THEOREM FifoInvariant == Spec => [](TypeOK /\ Coherent)
<1>1. Init => IInv
  BY InitEstablishes
<1>2. IInv /\ [Next]_vars => IInv'
  BY StepPreservesAndRefines
<1>3. IInv => TypeOK /\ Coherent
  BY DEF IInv
<1> QED
  BY <1>1, <1>2, <1>3, PTL DEF Spec

(* The ring buffer implements the bounded queue. *)
THEOREM FifoRefinesQueue == Spec => IsBoundedQueue
<1>1. Init => Q!Init
  <2> SUFFICES ASSUME Init
               PROVE  Q!Init
    OBVIOUS
  <2>1. fifo \in Fifo
    BY InitEstablishes DEF IInv, TypeOK
  <2>2. fifo.len = 0
    BY DEF Init, fifo_init
  <2>3. Contents(fifo) = << >>
    BY <2>1, <2>2, ContentsIsSeq
  <2> QED
    BY <2>3 DEF Init, Q!Init
<1>2. IInv /\ [Next]_vars => [Q!Next]_(Q!qvars)
  BY StepPreservesAndRefines
<1>3. Spec => []IInv
  BY InitEstablishes, StepPreservesAndRefines, PTL DEF Spec
<1> QED
  BY <1>1, <1>2, <1>3, PTL DEF Spec, Q!Spec, IsBoundedQueue
=============================================================================
