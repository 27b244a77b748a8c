------------------------------ MODULE Induction ------------------------------
(* Induction over the naturals as a statement about sets, drawn from the      *)
(* well-foundedness of < on them, and what a proof about a recursive function *)
(* or a fold over a sequence needs: that the function exists.                 *)
EXTENDS Integers, FiniteSetsExt, WellFoundedInduction, TLAPS

(* A set of naturals with a member has a least one. *)
LEMMA LeastNumber ==
    ASSUME NEW T \in SUBSET Nat, T # {}
    PROVE  \E x \in T : \A y \in T : x <= y
<1>1. IsWellFoundedOn(OpToRel(<, Nat), Nat)
  BY NatLessThanWellFounded
<1>2. PICK x \in T : \A y \in T : ~ (<<y, x>> \in OpToRel(<, Nat))
  BY <1>1, WFMin
<1>3. \A y \in T : ~ (y < x)
  BY <1>2 DEF OpToRel
<1> QED
  BY <1>3

(* A set with 0 in it that holds the successor of each of its members holds
   every natural. *)
LEMMA Induction ==
    ASSUME NEW T, 0 \in T, \A k \in Nat : k \in T => k + 1 \in T
    PROVE  \A k \in Nat : k \in T
<1> DEFINE Missing == {k \in Nat : k \notin T}
<1> SUFFICES ASSUME Missing # {} PROVE FALSE
  OBVIOUS
<1>1. PICK x \in Missing : \A y \in Missing : x <= y
  BY LeastNumber
<1>2. x # 0 /\ x - 1 \in Nat /\ x - 1 \notin Missing
  BY <1>1
<1> QED
  BY <1>1, <1>2

(* r starts at base and goes on by Step, with values in V. *)
IsChain(r, n, V, base, Step) ==
    /\ r \in [0..n -> V]
    /\ r[0] = base
    /\ \A k \in 1..n : r[k] = Step[k][r[k - 1]]

(* There is such a function. *)
LEMMA PrefixRecursion ==
    ASSUME NEW n \in Nat, NEW V, NEW base \in V, NEW Step \in [1..n -> [V -> V]]
    PROVE  \E f : IsChain(f, n, V, base, Step)
<1> DEFINE Upto(m, f) == f[0] = base /\ \A k \in 1..m : f[k] = Step[k][f[k - 1]]
           T == {m \in Nat : m <= n => \E f \in [0..m -> V] : Upto(m, f)}
<1>1. 0 \in T
  <2>1. Upto(0, [k \in 0..0 |-> base]) /\ [k \in 0..0 |-> base] \in [0..0 -> V]
    OBVIOUS
  <2> QED
    BY <2>1
<1>2. ASSUME NEW m \in Nat, m \in T
      PROVE  m + 1 \in T
  <2> SUFFICES ASSUME m + 1 <= n
               PROVE  \E f \in [0..(m + 1) -> V] : Upto(m + 1, f)
    OBVIOUS
  <2>1. PICK f \in [0..m -> V] : Upto(m, f)
    BY <1>2
  <2> DEFINE g == [k \in 0..(m + 1) |-> IF k <= m THEN f[k] ELSE Step[m + 1][f[m]]]
  <2>2. Step[m + 1][f[m]] \in V
    OBVIOUS
  <2>3. g \in [0..(m + 1) -> V]
    BY <2>2
  <2>4. \A k \in 0..m : g[k] = f[k]
    OBVIOUS
  <2>5. g[m + 1] = Step[m + 1][g[m]]
    <3>1. m + 1 \in 0..(m + 1) /\ ~(m + 1 <= m) /\ m \in 0..m
      OBVIOUS
    <3>2. g[m + 1] = Step[m + 1][f[m]]
      BY <3>1, Zenon
    <3> QED
      BY <3>1, <3>2, <2>4
  <2>6. \A k \in 1..m : k - 1 \in 0..m
    OBVIOUS
  <2> HIDE DEF g
  <2>7. ASSUME NEW k \in 1..(m + 1)
        PROVE  g[k] = Step[k][g[k - 1]]
    <3>1. CASE k = m + 1
      BY <3>1, <2>5
    <3>2. CASE k \in 1..m
      BY <3>2, <2>1, <2>4, <2>6
    <3> QED
      BY <3>1, <3>2
  <2>8. g[0] = base
    BY <2>1, <2>4
  <2> QED
    BY <2>3, <2>7, <2>8
<1>3. n \in T
  <2> HIDE DEF T
  <2> QED
    BY <1>1, <1>2, Induction
<1> QED
  BY <1>3 DEF IsChain

(* The greatest of some numbers from 0 to n is one of them. *)
LEMMA MaxUpto ==
    ASSUME NEW n \in Nat, NEW s \in SUBSET (0..n), s # {}
    PROVE  Max(s) \in s /\ \A y \in s : y <= Max(s)
<1> DEFINE T == {n - y : y \in s}
<1>1. T \in SUBSET Nat
  <2>1. \A y \in s : n - y \in Nat
    OBVIOUS
  <2> QED
    BY <2>1
<1>2. T # {}
  <2>1. PICK y \in s : TRUE
    OBVIOUS
  <2>2. n - y \in T
    OBVIOUS
  <2> QED
    BY <2>2
<1>3. PICK x \in T : \A y \in T : x <= y
  BY <1>1, <1>2, LeastNumber
<1>4. PICK z \in s : x = n - z
  BY <1>3
<1>5. \A y \in s : z >= y
  <2> SUFFICES ASSUME NEW y \in s PROVE z >= y
    OBVIOUS
  <2>1. n - y \in T
    OBVIOUS
  <2>2. n - z <= n - y
    BY <2>1, <1>3, <1>4
  <2> QED
    BY <2>2
<1>6. Max(s) \in s /\ \A y \in s : Max(s) >= y
  BY <1>4, <1>5 DEF Max
<1> QED
  BY <1>6

(* So is that of some positions. *)
LEMMA MaxOfRange ==
    ASSUME NEW n \in Nat, NEW s \in SUBSET (1..n), s # {}
    PROVE  Max(s) \in s /\ \A y \in s : y <= Max(s)
<1>1. s \in SUBSET (0..n)
  OBVIOUS
<1> QED
  BY <1>1, MaxUpto

(* The member that no other exceeds is the greatest. *)
LEMMA MaxIs ==
    ASSUME NEW s \in SUBSET Int, NEW m \in s, \A y \in s : y <= m
    PROVE  Max(s) = m
<1>1. Max(s) \in s /\ \A y \in s : Max(s) >= y
  BY DEF Max
<1> DEFINE x == Max(s)
<1>2. x \in Int /\ m \in Int /\ x >= m /\ x <= m
  BY <1>1
<1> HIDE DEF x
<1>3. x = m
  BY <1>2
<1> QED
  BY <1>3 DEF x

(* g is the function FoldLeft goes through: over the positions of a sequence,
   the last position of each set of them first. *)
IsFold(g, n, V, base, Step) ==
    /\ g \in [SUBSET (1..n) -> V]
    /\ g[{}] = base
    /\ \A s \in SUBSET (1..n) : s # {} => g[s] = Step[Max(s)][g[s \ {Max(s)}]]

(* The function FoldLeft goes through exists, whatever the step. *)
LEMMA FoldExists ==
    ASSUME NEW n \in Nat, NEW V, NEW base \in V, NEW Step \in [1..n -> [V -> V]]
    PROVE  \E g : IsFold(g, n, V, base, Step)
<1> DEFINE Fold(m, g) == \A s \in SUBSET (1..m) :
                g[s] = IF s = {} THEN base ELSE Step[Max(s)][g[s \ {Max(s)}]]
           Exists(m) == \E g \in [SUBSET (1..m) -> V] : Fold(m, g)
           T == {m \in Nat : m <= n => Exists(m)}
<1> HIDE DEF Fold, Exists
<1>1. 0 \in T
  <2> DEFINE g == [s \in SUBSET (1..0) |-> base]
  <2>1. g \in [SUBSET (1..0) -> V]
    OBVIOUS
  <2>2. \A s \in SUBSET (1..0) : s = {} /\ g[s] = base
    OBVIOUS
  <2>3. Fold(0, g)
    BY <2>2 DEF Fold
  <2> HIDE DEF g
  <2>4. Exists(0)
    BY <2>1, <2>3 DEF Exists
  <2> QED
    BY <2>4
<1>2. ASSUME NEW m \in Nat, m \in T
      PROVE  m + 1 \in T
  <2> SUFFICES ASSUME m + 1 <= n
               PROVE  Exists(m + 1)
    OBVIOUS
  <2>1. PICK g \in [SUBSET (1..m) -> V] : Fold(m, g)
    <3>1. Exists(m)
      BY <1>2
    <3> QED
      BY <3>1 DEF Exists
  <2> DEFINE h == [s \in SUBSET (1..(m + 1)) |->
                      IF m + 1 \in s THEN Step[m + 1][g[s \ {m + 1}]] ELSE g[s]]
  <2>2. \A s \in SUBSET (1..(m + 1)) :
            /\ m + 1 \in s => s \ {m + 1} \in SUBSET (1..m) /\ Max(s) = m + 1
            /\ m + 1 \notin s => s \in SUBSET (1..m)
    <3> SUFFICES ASSUME NEW s \in SUBSET (1..(m + 1))
                 PROVE  /\ m + 1 \in s => s \ {m + 1} \in SUBSET (1..m) /\ Max(s) = m + 1
                        /\ m + 1 \notin s => s \in SUBSET (1..m)
      OBVIOUS
    <3>1. \A y \in s : y \in Int /\ y <= m + 1 /\ (y # m + 1 => y \in 1..m)
      OBVIOUS
    <3>2. m + 1 \in s => Max(s) = m + 1
      BY <3>1, MaxIs
    <3> QED
      BY <3>1, <3>2
  <2>3. m + 1 \in 1..n
    OBVIOUS
  <2>4. h \in [SUBSET (1..(m + 1)) -> V]
    <3> SUFFICES ASSUME NEW s \in SUBSET (1..(m + 1))
                 PROVE  (IF m + 1 \in s THEN Step[m + 1][g[s \ {m + 1}]] ELSE g[s]) \in V
      BY Zenon
    <3> QED
      BY <2>2, <2>3
  <2>5. \A s \in SUBSET (1..m) : h[s] = g[s]
    <3> SUFFICES ASSUME NEW s \in SUBSET (1..m) PROVE h[s] = g[s]
      OBVIOUS
    <3>1. s \in SUBSET (1..(m + 1)) /\ m + 1 \notin s
      OBVIOUS
    <3> QED
      BY <3>1, Zenon
  <2>6. \A s \in SUBSET (1..(m + 1)) : m + 1 \in s => h[s] = Step[m + 1][g[s \ {m + 1}]]
    BY Zenon
  <2> HIDE DEF h
  <2>7. ASSUME NEW s \in SUBSET (1..(m + 1))
        PROVE  h[s] = IF s = {} THEN base ELSE Step[Max(s)][h[s \ {Max(s)}]]
    <3>1. CASE m + 1 \in s
      BY <3>1, <2>2, <2>5, <2>6
    <3>2. CASE m + 1 \notin s
      <4>1. s \in SUBSET (1..m)
        BY <3>2, <2>2
      <4>2. s # {} => s \ {Max(s)} \in SUBSET (1..m)
        BY <4>1
      <4>3. g[s] = IF s = {} THEN base ELSE Step[Max(s)][g[s \ {Max(s)}]]
        BY <4>1, <2>1 DEF Fold
      <4> QED
        BY <4>1, <4>2, <4>3, <2>5
    <3> QED
      BY <3>1, <3>2
  <2>8. Fold(m + 1, h)
    BY <2>7 DEF Fold
  <2> QED
    BY <2>4, <2>8 DEF Exists
<1>3. n \in T
  <2> HIDE DEF T
  <2> QED
    BY <1>1, <1>2, Induction
<1>4. PICK g \in [SUBSET (1..n) -> V] : Fold(n, g)
  <2>1. Exists(n)
    BY <1>3
  <2> QED
    BY <2>1 DEF Exists
<1>5. g[{}] = base
  <2>1. {} \in SUBSET (1..n)
    OBVIOUS
  <2> QED
    BY <1>4, <2>1 DEF Fold
<1>6. \A s \in SUBSET (1..n) : s # {} => g[s] = Step[Max(s)][g[s \ {Max(s)}]]
  BY <1>4 DEF Fold
<1>7. IsFold(g, n, V, base, Step)
  BY <1>4, <1>5, <1>6 DEF IsFold
<1> QED
  BY <1>7

(* A prefix of a sequence's positions without its last one. *)
LEMMA PrefixPositions ==
    ASSUME NEW n \in Nat, NEW k \in 1..n
    PROVE  /\ 1..k \in SUBSET (1..n)
           /\ 1..k # {}
           /\ Max(1..k) = k
           /\ (1..k) \ {k} = 1..(k - 1)
           /\ k \in Nat /\ k - 1 \in Nat /\ k - 1 \in 0..n /\ k - 1 + 1 = k
<1>1. k \in 1..k /\ 1..k \in SUBSET (1..n) /\ 1..k \in SUBSET Int /\ \A y \in 1..k : y <= k
  OBVIOUS
<1>2. Max(1..k) = k
  BY <1>1, MaxIs
<1>3. (1..k) \ {k} = 1..(k - 1)
  OBVIOUS
<1> QED
  BY <1>1, <1>2, <1>3

(* Before the first position there is none. *)
LEMMA EmptyPrefix ==
    ASSUME NEW n \in Nat
    PROVE  1..0 = {} /\ {} \in SUBSET (1..n)
OBVIOUS

(* h is what a fold over 1..n goes through, as long as its values stay in V. *)
GoesBy(h, n, V, base, Step) ==
    /\ h[{}] = base
    /\ \A x \in SUBSET (1..n) :
          x # {} /\ h[x \ {Max(x)}] \in V => h[x] = Step[Max(x)][h[x \ {Max(x)}]]

(* A fold goes through one value per position, provided that the step leads from
   each of them to another. *)
LEMMA FoldSteps ==
    ASSUME NEW n \in Nat, NEW V, NEW base \in V, NEW Step \in [1..n -> [V -> V]], NEW h,
           GoesBy(h, n, V, base, Step)
    PROVE  \E r : IsChain(r, n, V, base, Step) /\ h[1..n] = r[n]
<1> USE DEF GoesBy
<1>1. h[1..0] = base
  BY EmptyPrefix
<1>2. ASSUME NEW k \in 1..n, h[1..(k - 1)] \in V
      PROVE  h[1..k] = Step[k][h[1..(k - 1)]]
  <2>1. /\ 1..k \in SUBSET (1..n) /\ 1..k # {}
        /\ Max(1..k) = k /\ (1..k) \ {k} = 1..(k - 1)
    BY PrefixPositions
  <2>2. h[1..k] = Step[Max(1..k)][h[(1..k) \ {Max(1..k)}]]
    BY <1>2, <2>1
  <2> QED
    BY <2>1, <2>2
<1> DEFINE T == {k \in Nat : k <= n => h[1..k] \in V}
<1>3. 0 \in T
  BY <1>1
<1>4. ASSUME NEW k \in Nat, k \in T
      PROVE  k + 1 \in T
  <2>1. k + 1 <= n => k + 1 \in 1..n /\ k + 1 - 1 = k /\ h[1..k] \in V
    BY <1>4
  <2>2. k + 1 <= n => h[1..(k + 1)] = Step[k + 1][h[1..k]]
    BY <1>2, <2>1
  <2> QED
    BY <2>1, <2>2
<1>5. \A k \in Nat : k \in T
  <2> HIDE DEF T
  <2> QED
    BY <1>3, <1>4, Induction
<1> DEFINE r == [k \in 0..n |-> h[1..k]]
<1>6. r \in [0..n -> V] /\ \A k \in 0..n : r[k] = h[1..k]
  BY <1>5
<1>7. \A k \in 1..n : k \in 0..n /\ k - 1 \in 0..n
  OBVIOUS
<1>8. 0 \in 0..n /\ n \in 0..n
  OBVIOUS
<1> HIDE DEF r
<1>9. \A k \in 1..n : r[k] = Step[k][r[k - 1]]
  BY <1>2, <1>6, <1>7
<1> QED
  BY <1>1, <1>6, <1>8, <1>9 DEF IsChain
=============================================================================
