---------------------------- MODULE KernelProofs ----------------------------
(* Lemmas about the operators of ChSchd and ChSem, for any number of        *)
(* threads and objects: what each does to the queues and to the states of   *)
(* the threads.  The theorems about the modules that use the kernel cite    *)
(* them.                                                                    *)
EXTENDS ChSem, SequenceTheorems, WellFoundedInduction, TLAPS

-----------------------------------------------------------------------------
(* Folds.  FoldLeft is a recursive function over the subsets of the         *)
(* indices; that there is one, and what it keeps, is by induction on the    *)
(* number of turns: the least one that goes wrong goes right.               *)

LEMMA Least ==
    ASSUME NEW T \in SUBSET Nat, T # {}
    PROVE  \E x \in T : \A y \in T : x <= y
<1>1. PICK x \in T : \A y \in T : ~(<<y, x>> \in OpToRel(<, Nat))
  BY NatLessThanWellFounded, WFMin
<1>2. \A y \in T : ~(y < x)
  BY <1>1 DEF OpToRel
<1>3. QED
  BY <1>2

LEMMA MaxOf ==
    ASSUME NEW m \in Nat, NEW s \in SUBSET (1..(m + 1)), m + 1 \in s
    PROVE  Max(s) = m + 1
<1>1. \A y \in s : m + 1 >= y
  OBVIOUS
<1>2. Max(s) \in s /\ \A y \in s : Max(s) >= y
  BY <1>1 DEF Max
<1>3. Max(s) \in 1..(m + 1) /\ Max(s) <= m + 1 /\ Max(s) >= m + 1
  BY <1>1, <1>2
<1>4. QED
  BY <1>3

LEMMA MaxIn ==
    ASSUME NEW n \in Nat, NEW s \in SUBSET (1..n), s # {}
    PROVE  Max(s) \in s /\ \A y \in s : Max(s) >= y
<1> DEFINE T == {d \in Nat : n - d \in s}
<1>1. T \in SUBSET Nat /\ T # {} /\ \A y \in s : n - y \in T
  <2>1. \A y \in s : n - y \in Nat /\ n - (n - y) = y
    OBVIOUS
  <2>2. QED
    BY <2>1
<1>2. PICK x \in T : \A y \in T : x <= y
  BY <1>1, Least
<1>3. n - x \in s /\ x \in Nat
  BY <1>2
<1>4. \A y \in s : n - x >= y
  <2>1. ASSUME NEW y \in s PROVE n - x >= y
    <3>1. x <= n - y /\ y \in Nat
      BY <1>1, <1>2
    <3>2. QED
      BY <1>3, <3>1
  <2>2. QED
    BY <2>1
<1>5. QED
  BY <1>3, <1>4 DEF Max

\* A fold of st over 1..n exists
Folds(g, R, st, base, n) ==
    /\ g \in [SUBSET (1..n) -> R]
    /\ \A s \in SUBSET (1..n) :
           g[s] = IF s = {} THEN base ELSE st[<<g[s \ {Max(s)}], Max(s)>>]

LEMMA FoldExists ==
    ASSUME NEW R, NEW n \in Nat, NEW base \in R, NEW st \in [R \X (1..n) -> R]
    PROVE  \E g : Folds(g, R, st, base, n)
<1> DEFINE T == {m \in 0..n : ~ \E g : Folds(g, R, st, base, m)}
<1> SUFFICES ASSUME T # {} PROVE FALSE
  BY DEF T
<1>1. PICK x \in T : \A y \in T : x <= y
  <2>1. T \in SUBSET Nat
    OBVIOUS
  <2>2. QED
    BY <2>1, Least
<1>2. x # 0
  <2> DEFINE g == [s \in SUBSET (1..0) |-> base]
  <2>1. 1..0 = {}
    OBVIOUS
  <2>2. Folds(g, R, st, base, 0)
    BY <2>1 DEF Folds
  <2>3. QED
    BY <2>2
<1>3. x - 1 \in 0..n /\ x \in 1..n /\ x - 1 \notin T
  BY <1>1, <1>2
<1>4. PICK h : Folds(h, R, st, base, x - 1)
  BY <1>3
<1> DEFINE g == [s \in SUBSET (1..x) |->
                   IF x \in s THEN st[<<h[s \ {x}], x>>] ELSE h[s]]
<1>5. \A s \in SUBSET (1..x) : /\ s \ {x} \in SUBSET (1..(x - 1))
                               /\ x \notin s => s \in SUBSET (1..(x - 1))
                               /\ x \in s => Max(s) = x
  <2>1. ASSUME NEW s \in SUBSET (1..x) PROVE s \ {x} \in SUBSET (1..(x - 1))
    BY <1>3
  <2>2. ASSUME NEW s \in SUBSET (1..x), x \in s PROVE Max(s) = x
    <3>1. (x - 1) + 1 = x /\ x - 1 \in Nat
      BY <1>3
    <3>2. QED
      BY <2>2, <3>1, MaxOf
  <2>3. QED
    BY <2>1, <2>2
<1>6. g \in [SUBSET (1..x) -> R]
  BY <1>3, <1>4, <1>5 DEF Folds
<1>7. ASSUME NEW s \in SUBSET (1..x)
      PROVE  g[s] = IF s = {} THEN base ELSE st[<<g[s \ {Max(s)}], Max(s)>>]
  <2>1. CASE x \in s
    <3>1. g[s] = st[<<h[s \ {x}], x>>] /\ Max(s) = x /\ s # {}
      BY <1>5, <2>1
    <3>2. g[s \ {x}] = h[s \ {x}]
      OBVIOUS
    <3>3. QED
      BY <3>1, <3>2
  <2>2. CASE x \notin s
    <3>1. g[s] = h[s] /\ s \in SUBSET (1..(x - 1))
      BY <1>5, <2>2
    <3>2. s # {} => g[s \ {Max(s)}] = h[s \ {Max(s)}]
      BY <2>2
    <3>3. QED
      BY <1>4, <3>1, <3>2 DEF Folds
  <2>3. QED
    BY <2>1, <2>2
<1>8. Folds(g, R, st, base, x)
  BY <1>6, <1>7 DEF Folds
<1>9. QED
  BY <1>8

LEMMA UpTo ==
    ASSUME NEW n \in Nat, NEW m \in 1..n
    PROVE  /\ 1..m \in SUBSET (1..n) /\ 1..m # {} /\ m \in Nat
           /\ (1..m) \ {m} = 1..(m - 1) /\ Max(1..m) = m
<1>1. m \in Nat /\ m \in 1..m /\ m <= n
  OBVIOUS
<1>2. \A y : y \in 1..m => y \in 1..n
  BY <1>1
<1>3. \A y : y \in (1..m) \ {m} <=> y \in 1..(m - 1)
  BY <1>1
<1>4. Max(1..m) \in 1..m /\ \A y \in 1..m : Max(1..m) >= y
  BY <1>1, MaxIn
<1>5. Max(1..m) = m
  BY <1>1, <1>4
<1>6. QED
  BY <1>1, <1>2, <1>3, <1>5

\* What holds before the first turn and is kept by each holds after the last
LEMMA Chain ==
    ASSUME NEW Rs, NEW h, NEW n \in Nat, h[{}] \in Rs[0],
           \A m \in 1..n : h[1..(m - 1)] \in Rs[m - 1] => h[1..m] \in Rs[m]
    PROVE  h[1..n] \in Rs[n]
<1> DEFINE T == {m \in 0..n : h[1..m] \notin Rs[m]}
<1> SUFFICES ASSUME T # {} PROVE FALSE
  OBVIOUS
<1>1. PICK x \in T : \A y \in T : x <= y
  <2>1. T \in SUBSET Nat
    OBVIOUS
  <2>2. QED
    BY <2>1, Least
<1>2. x # 0
  <2>1. 1..0 = {}
    OBVIOUS
  <2>2. QED
    BY <2>1
<1>3. x - 1 \in 0..n /\ x \in 1..n /\ x - 1 \notin T
  BY <1>1, <1>2
<1>4. QED
  BY <1>3

-----------------------------------------------------------------------------
(* Queues of threads                                                        *)

Queue(q, S) == q \in Seq(S) /\ IsInjective(q)

LEMMA Glued ==
    ASSUME NEW S, NEW a \in Seq(S), NEW b \in Seq(S), NEW m \in Nat, Len(a) = m
    PROVE  /\ a \o b \in Seq(S) /\ Len(a \o b) = m + Len(b)
           /\ \A j \in 1..m : (a \o b)[j] = a[j]
           /\ \A j \in 1..Len(b) : (a \o b)[m + j] = b[j]
  OBVIOUS

LEMMA RemovedIndex ==
    ASSUME NEW S, NEW s \in Seq(S), NEW at \in 1..Len(s)
    PROVE  /\ RemoveAt(s, at) \in Seq(S) /\ Len(RemoveAt(s, at)) = Len(s) - 1
           /\ \A j \in 1..(Len(s) - 1) : RemoveAt(s, at)[j] = IF j < at THEN s[j] ELSE s[j + 1]
<1> DEFINE a == SubSeq(s, 1, at - 1)
           b == SubSeq(s, at + 1, Len(s))
<1>1. /\ a \in Seq(S) /\ Len(a) = at - 1 /\ \A i \in 1..(at - 1) : a[i] = s[i]
  OBVIOUS
<1>2. /\ b \in Seq(S) /\ Len(b) = Len(s) - at /\ \A i \in 1..(Len(s) - at) : b[i] = s[at + i]
  OBVIOUS
<1>3. RemoveAt(s, at) = a \o b
  BY DEF RemoveAt
<1>4. at \in Nat /\ Len(s) \in Nat /\ at <= Len(s) /\ at >= 1 /\ at - 1 \in Nat
  OBVIOUS
<1> HIDE DEF a, b
<1>5. /\ a \o b \in Seq(S) /\ Len(a \o b) = at - 1 + Len(b)
      /\ \A j \in 1..(at - 1) : (a \o b)[j] = a[j]
      /\ \A j \in 1..Len(b) : (a \o b)[at - 1 + j] = b[j]
  <2>1. a \in Seq(S) /\ b \in Seq(S) /\ at - 1 \in Nat /\ Len(a) = at - 1
    BY <1>1, <1>2, <1>4
  <2> DEFINE m == at - 1
  <2>2. a \in Seq(S) /\ b \in Seq(S) /\ m \in Nat /\ Len(a) = m
    BY <2>1
  <2> HIDE DEF m
  <2>3. /\ a \o b \in Seq(S) /\ Len(a \o b) = m + Len(b)
        /\ \A j \in 1..m : (a \o b)[j] = a[j]
        /\ \A j \in 1..Len(b) : (a \o b)[m + j] = b[j]
    BY <2>2, Glued
  <2>4. QED
    BY <2>3 DEF m
<1>6. ASSUME NEW j \in 1..(Len(s) - 1)
      PROVE  (a \o b)[j] = IF j < at THEN s[j] ELSE s[j + 1]
  <2>2. CASE j < at
    BY <1>1, <1>4, <1>5, <2>2
  <2>3. CASE j >= at
    <3> DEFINE i == j - (at - 1)
    <3>1. i \in 1..(Len(s) - at) /\ at + i = j + 1 /\ at - 1 + i = j
      BY <1>4, <2>3
    <3> HIDE DEF i
    <3>2. b[i] = s[at + i]
      BY <1>2, <3>1
    <3>3. (a \o b)[at - 1 + i] = b[i]
      BY <1>2, <1>5, <3>1
    <3>4. (a \o b)[j] = s[j + 1]
      BY <3>1, <3>2, <3>3, Zenon
    <3>5. QED
      BY <1>4, <2>3, <3>4
  <2>4. j < at \/ j >= at
    BY <1>4
  <2>5. QED
    BY <2>2, <2>3, <2>4, Zenon
<1>7. Len(a \o b) = Len(s) - 1
  BY <1>2, <1>4, <1>5
<1>8. QED
  BY <1>3, <1>5, <1>6, <1>7, Zenon

\* r is q with e as its new element i.
IsInserted(S, q, i, e, r) ==
    /\ r \in Seq(S) /\ Len(r) = Len(q) + 1
    /\ \A j \in 1..(Len(q) + 1) : r[j] = IF j < i THEN q[j] ELSE IF j = i THEN e ELSE q[j - 1]

LEMMA InsertedThere ==
    ASSUME NEW S, NEW q \in Seq(S), NEW i \in 1..(Len(q) + 1), NEW e \in S
    PROVE  IsInserted(S, q, i, e, InsertAt(q, i, e))
<1> DEFINE a == SubSeq(q, 1, i - 1)
           b == SubSeq(q, i, Len(q))
<1>1. /\ a \in Seq(S) /\ Len(a) = i - 1 /\ \A j \in 1..(i - 1) : a[j] = q[j]
  OBVIOUS
<1>2. /\ b \in Seq(S) /\ Len(b) = Len(q) - i + 1 /\ \A j \in 1..(Len(q) - i + 1) : b[j] = q[i + j - 1]
  OBVIOUS
<1>3. InsertAt(q, i, e) = a \o <<e>> \o b
  BY DEF InsertAt
<1>4. i \in Nat /\ Len(q) \in Nat /\ i <= Len(q) + 1 /\ i >= 1 /\ i - 1 \in Nat
  OBVIOUS
<1> HIDE DEF a, b
<1> DEFINE m == i - 1
           c == a \o <<e>>
<1>5. c \in Seq(S) /\ Len(c) = i /\ (\A j \in 1..(i - 1) : c[j] = a[j]) /\ c[i] = e
  <2>1. a \in Seq(S) /\ <<e>> \in Seq(S) /\ m \in Nat /\ Len(a) = m /\ m + 1 = i
    BY <1>1, <1>4
  <2>2. Len(<<e>>) = 1 /\ <<e>>[1] = e
    OBVIOUS
  <2> HIDE DEF m
  <2>3. /\ c \in Seq(S) /\ Len(c) = m + 1 /\ \A j \in 1..m : c[j] = a[j]
        /\ c[m + 1] = e
    BY <2>1, <2>2, Glued
  <2>4. QED
    BY <2>1, <2>3 DEF m
<1> HIDE DEF c
<1>6. /\ c \o b \in Seq(S) /\ Len(c \o b) = i + Len(b)
      /\ \A j \in 1..i : (c \o b)[j] = c[j]
      /\ \A j \in 1..Len(b) : (c \o b)[i + j] = b[j]
  <2>1. c \in Seq(S) /\ b \in Seq(S) /\ i \in Nat /\ Len(c) = i
    BY <1>2, <1>4, <1>5
  <2>2. QED
    BY <2>1, Glued
<1>7. ASSUME NEW j \in 1..(Len(q) + 1)
      PROVE  (c \o b)[j] = IF j < i THEN q[j] ELSE IF j = i THEN e ELSE q[j - 1]
  <2>1. CASE j < i
    BY <1>1, <1>4, <1>5, <1>6, <2>1
  <2>2. CASE j = i
    BY <1>4, <1>5, <1>6, <2>2
  <2>3. CASE j > i
    <3> DEFINE d == j - i
    <3>1. d \in 1..(Len(q) - i + 1) /\ i + d = j /\ i + d - 1 = j - 1
      BY <1>4, <2>3
    <3> HIDE DEF d
    <3>2. b[d] = q[i + d - 1]
      BY <1>2, <3>1
    <3>3. (c \o b)[i + d] = b[d]
      BY <1>2, <1>6, <3>1
    <3>4. (c \o b)[j] = q[j - 1]
      BY <3>1, <3>2, <3>3
    <3>5. QED
      BY <1>4, <2>3, <3>4
  <2>4. j < i \/ j = i \/ j > i
    BY <1>4
  <2>5. QED
    BY <2>1, <2>2, <2>3, <2>4, Zenon
<1>8. InsertAt(q, i, e) = c \o b /\ Len(c \o b) = Len(q) + 1
  BY <1>2, <1>3, <1>4, <1>6 DEF c
<1>9. QED
  BY <1>6, <1>7, <1>8 DEF IsInserted

LEMMA InsertedIndex ==
    ASSUME NEW S, NEW q \in Seq(S), NEW i \in 1..(Len(q) + 1), NEW e \in S
    PROVE  /\ InsertAt(q, i, e) \in Seq(S) /\ Len(InsertAt(q, i, e)) = Len(q) + 1
           /\ \A j \in 1..(Len(q) + 1) :
                  InsertAt(q, i, e)[j] = IF j < i THEN q[j] ELSE IF j = i THEN e ELSE q[j - 1]
<1>1. IsInserted(S, q, i, e, InsertAt(q, i, e))
  BY InsertedThere
<1>2. QED
  BY <1>1 DEF IsInserted

LEMMA QueueSet ==
    ASSUME NEW S, NEW q \in Seq(S)
    PROVE  /\ Len(q) \in Nat /\ DOMAIN q = 1..Len(q)
           /\ ToSet(q) \subseteq S /\ \A e : e \in ToSet(q) <=> \E i \in 1..Len(q) : q[i] = e
           /\ q = <<>> <=> ToSet(q) = {}
           /\ q = <<>> <=> Len(q) = 0
<1>1. Len(q) \in Nat /\ DOMAIN q = 1..Len(q) /\ \A i \in 1..Len(q) : q[i] \in S
  BY LenProperties, ElementOfSeq
<1>2. q = <<>> <=> Len(q) = 0
  BY EmptySeq, <1>1
<1>3. \A e : e \in ToSet(q) <=> \E i \in 1..Len(q) : q[i] = e
  BY <1>1 DEF ToSet
<1>4. q # <<>> => q[1] \in ToSet(q)
  BY <1>1, <1>2, <1>3
<1>5. q = <<>> => ToSet(q) = {}
  <2>1. Len(q) = 0 => 1..Len(q) = {}
    OBVIOUS
  <2>2. QED
    BY <1>2, <1>3, <2>1
<1>6. QED
  BY <1>1, <1>2, <1>3, <1>4, <1>5

LEMMA InsertedQueue ==
    ASSUME NEW S, NEW q, Queue(q, S), NEW i \in 1..(Len(q) + 1), NEW e \in S, e \notin ToSet(q)
    PROVE  Queue(InsertAt(q, i, e), S) /\ ToSet(InsertAt(q, i, e)) = ToSet(q) \cup {e}
<1> DEFINE r == InsertAt(q, i, e)
<1>1. /\ r \in Seq(S) /\ Len(r) = Len(q) + 1
      /\ \A j \in 1..(Len(q) + 1) : r[j] = IF j < i THEN q[j] ELSE IF j = i THEN e ELSE q[j - 1]
  <2>1. q \in Seq(S)
    BY DEF Queue
  <2>2. \A x \in 1..(Len(q) + 1), y \in S :
           /\ InsertAt(q, x, y) \in Seq(S) /\ Len(InsertAt(q, x, y)) = Len(q) + 1
           /\ \A j \in 1..(Len(q) + 1) :
                 InsertAt(q, x, y)[j] = IF j < x THEN q[j] ELSE IF j = x THEN y ELSE q[j - 1]
    BY <2>1, InsertedIndex
  <2>3. QED
    BY <2>2
<1> HIDE DEF r
<1>2. /\ Len(q) \in Nat /\ DOMAIN q = 1..Len(q) /\ i \in Nat /\ i >= 1 /\ i <= Len(q) + 1
      /\ \A x : x \in ToSet(q) <=> \E j \in 1..Len(q) : q[j] = x
  BY QueueSet DEF Queue
<1>3. /\ DOMAIN r = 1..(Len(q) + 1)
      /\ \A x : x \in ToSet(r) <=> \E j \in 1..(Len(q) + 1) : r[j] = x
  BY <1>1, QueueSet
<1>4. \A j \in 1..(Len(q) + 1) : \/ j = i /\ r[j] = e
                                 \/ j < i /\ j \in 1..Len(q) /\ r[j] = q[j]
                                 \/ j > i /\ j - 1 \in 1..Len(q) /\ r[j] = q[j - 1]
  <2> TAKE j \in 1..(Len(q) + 1)
  <2>1. r[j] = IF j < i THEN q[j] ELSE IF j = i THEN e ELSE q[j - 1]
    BY <1>1
  <2>2. CASE j = i
    <3>1. ~(j < i)
      BY <1>2, <2>2
    <3>2. QED
      BY <2>1, <2>2, <3>1
  <2>3. CASE j < i
    <3>1. j \in 1..Len(q)
      BY <1>2, <2>3
    <3>2. r[j] = q[j]
      BY <2>1, <2>3
    <3>3. QED
      BY <2>3, <3>1, <3>2
  <2>4. CASE j > i
    <3>1. ~(j < i) /\ j # i /\ j - 1 \in 1..Len(q)
      BY <1>2, <2>4
    <3>2. r[j] = q[j - 1]
      BY <2>1, <3>1
    <3>3. QED
      BY <2>4, <3>1, <3>2
  <2>5. QED
    BY <1>2, <2>2, <2>3, <2>4
<1>5. \A j \in 1..Len(q) : q[j] \in ToSet(q) /\ q[j] # e
  BY <1>2
<1>6. ASSUME NEW x PROVE x \in ToSet(r) <=> x \in ToSet(q) \cup {e}
  <2>1. ASSUME x \in ToSet(r) PROVE x \in ToSet(q) \cup {e}
    BY <1>3, <1>4, <1>5, <2>1
  <2>2. ASSUME x \in ToSet(q) PROVE x \in ToSet(r)
    <3>1. PICK j \in 1..Len(q) : q[j] = x
      BY <1>2, <2>2
    <3>2. CASE j < i
      BY <1>1, <1>2, <1>3, <3>1, <3>2
    <3>3. CASE j >= i
      <4>1. j + 1 \in 1..(Len(q) + 1) /\ ~(j + 1 < i) /\ j + 1 # i /\ (j + 1) - 1 = j
        BY <1>2, <3>3
      <4>2. r[j + 1] = q[j]
        BY <1>1, <4>1
      <4>3. QED
        BY <1>3, <3>1, <4>1, <4>2
    <3>4. QED
      BY <1>2, <3>2, <3>3
  <2>3. e \in ToSet(r)
    BY <1>1, <1>2, <1>3
  <2>4. QED
    BY <2>1, <2>2, <2>3
<1>7. IsInjective(r)
  <2> SUFFICES ASSUME NEW j \in 1..(Len(q) + 1), NEW l \in 1..(Len(q) + 1), r[j] = r[l], j < l PROVE FALSE
    BY <1>2, <1>3 DEF IsInjective
  <2>1. \A a, b \in 1..Len(q) : q[a] = q[b] => a = b
    BY <1>2 DEF Queue, IsInjective
  <2>2. CASE j = i
    BY <1>2, <1>4, <1>5, <2>2
  <2>3. CASE l = i
    BY <1>2, <1>4, <1>5, <2>3
  <2>4. CASE j # i /\ l # i
    <3>1. CASE l < i
      BY <1>2, <1>4, <2>1, <2>4, <3>1
    <3>2. CASE j > i
      <4>1. j - 1 \in 1..Len(q) /\ l - 1 \in 1..Len(q) /\ q[j - 1] = q[l - 1] /\ j - 1 # l - 1
        BY <1>2, <1>4, <2>4, <3>2
      <4>2. QED
        BY <2>1, <4>1
    <3>3. CASE j < i /\ l > i
      <4>1. j \in 1..Len(q) /\ l - 1 \in 1..Len(q) /\ q[j] = q[l - 1] /\ j # l - 1
        BY <1>2, <1>4, <2>4, <3>3
      <4>2. QED
        BY <2>1, <4>1
    <3>4. QED
      BY <1>2, <2>4, <3>1, <3>2, <3>3
  <2>5. QED
    BY <2>2, <2>3, <2>4
<1>8. QED
  BY <1>1, <1>6, <1>7 DEF Queue, r

LEMMA TailQueue ==
    ASSUME NEW S, NEW q, Queue(q, S), q # <<>>
    PROVE  /\ Queue(Tail(q), S) /\ Len(Tail(q)) = Len(q) - 1
           /\ Head(q) = q[1] /\ Head(q) \in ToSet(q) /\ Head(q) \in S
           /\ ToSet(Tail(q)) = ToSet(q) \ {Head(q)}
           /\ \A i \in 1..(Len(q) - 1) : Tail(q)[i] = q[i + 1]
<1>1. /\ Tail(q) \in Seq(S) /\ Len(Tail(q)) = Len(q) - 1 /\ Len(q) >= 1
      /\ \A i \in 1..(Len(q) - 1) : Tail(q)[i] = q[i + 1]
  BY HeadTailProperties, QueueSet DEF Queue
<1>2. Head(q) = q[1]
  OBVIOUS
<1>3. /\ Len(q) \in Nat /\ DOMAIN q = 1..Len(q) /\ ToSet(q) \subseteq S
      /\ \A x : x \in ToSet(q) <=> \E j \in 1..Len(q) : q[j] = x
      /\ \A a, b \in 1..Len(q) : q[a] = q[b] => a = b
  BY QueueSet DEF Queue, IsInjective
<1>4. /\ DOMAIN Tail(q) = 1..(Len(q) - 1)
      /\ \A x : x \in ToSet(Tail(q)) <=> \E j \in 1..(Len(q) - 1) : Tail(q)[j] = x
  BY <1>1, QueueSet
<1>5. Head(q) \in ToSet(q)
  BY <1>1, <1>2, <1>3
<1>6. ASSUME NEW x PROVE x \in ToSet(Tail(q)) <=> x \in ToSet(q) \ {Head(q)}
  <2>1. ASSUME x \in ToSet(Tail(q)) PROVE x \in ToSet(q) /\ x # q[1]
    <3>1. PICK j \in 1..(Len(q) - 1) : q[j + 1] = x
      BY <1>1, <1>4, <2>1
    <3>2. j + 1 \in 1..Len(q) /\ 1 \in 1..Len(q) /\ j + 1 # 1
      BY <1>1, <1>3
    <3>3. QED
      BY <1>3, <3>1, <3>2
  <2>2. ASSUME x \in ToSet(q), x # q[1] PROVE x \in ToSet(Tail(q))
    <3>1. PICK j \in 1..Len(q) : q[j] = x
      BY <1>3, <2>2
    <3>2. j - 1 \in 1..(Len(q) - 1) /\ (j - 1) + 1 = j
      BY <1>3, <2>2, <3>1
    <3>3. QED
      BY <1>1, <1>4, <3>1, <3>2
  <2>3. QED
    BY <1>2, <2>1, <2>2
<1>7. IsInjective(Tail(q))
  <2>1. ASSUME NEW a \in 1..(Len(q) - 1), NEW b \in 1..(Len(q) - 1), Tail(q)[a] = Tail(q)[b] PROVE a = b
    <3>1. a + 1 \in 1..Len(q) /\ b + 1 \in 1..Len(q) /\ q[a + 1] = q[b + 1]
      BY <1>1, <1>3, <2>1
    <3>2. QED
      BY <1>3, <3>1
  <2>2. QED
    BY <1>4, <2>1 DEF IsInjective
<1>8. QED
  BY <1>1, <1>2, <1>3, <1>5, <1>6, <1>7 DEF Queue

LEMMA AppendedQueue ==
    ASSUME NEW S, NEW q, Queue(q, S), NEW e \in S, e \notin ToSet(q)
    PROVE  /\ Queue(Append(q, e), S) /\ ToSet(Append(q, e)) = ToSet(q) \cup {e}
           /\ Len(Append(q, e)) = Len(q) + 1
<1> DEFINE r == Append(q, e)
<1>1. /\ r \in Seq(S) /\ Len(r) = Len(q) + 1 /\ r[Len(q) + 1] = e
      /\ \A j \in 1..Len(q) : r[j] = q[j]
  BY AppendProperties DEF Queue
<1> HIDE DEF r
<1>2. /\ Len(q) \in Nat /\ DOMAIN q = 1..Len(q)
      /\ \A x : x \in ToSet(q) <=> \E j \in 1..Len(q) : q[j] = x
      /\ \A a, b \in 1..Len(q) : q[a] = q[b] => a = b
  BY QueueSet DEF Queue, IsInjective
<1>3. /\ DOMAIN r = 1..(Len(q) + 1)
      /\ \A x : x \in ToSet(r) <=> \E j \in 1..(Len(q) + 1) : r[j] = x
  BY <1>1, QueueSet
<1>4. \A j \in 1..(Len(q) + 1) : \/ j = Len(q) + 1 /\ r[j] = e
                                 \/ j \in 1..Len(q) /\ r[j] = q[j] /\ r[j] \in ToSet(q)
  <2> TAKE j \in 1..(Len(q) + 1)
  <2>1. CASE j = Len(q) + 1
    BY <1>1, <2>1
  <2>2. CASE j \in 1..Len(q)
    <3>1. r[j] = q[j]
      BY <1>1, <2>2
    <3>2. q[j] \in ToSet(q)
      BY <1>2, <2>2
    <3>3. QED
      BY <2>2, <3>1, <3>2
  <2>3. QED
    BY <1>2, <2>1, <2>2
<1>5. ASSUME NEW x PROVE x \in ToSet(r) <=> x \in ToSet(q) \cup {e}
  BY <1>1, <1>2, <1>3, <1>4
<1>6. IsInjective(r)
  <2>1. \A a, b \in 1..(Len(q) + 1) : r[a] = r[b] => a = b
    BY <1>2, <1>4
  <2>2. QED
    BY <1>3, <2>1 DEF IsInjective
<1>7. QED
  BY <1>1, <1>5, <1>6 DEF Queue, r

LEMMA DequeuedQueue ==
    ASSUME NEW S, NEW q, Queue(q, S), NEW e \in ToSet(q)
    PROVE  /\ Queue(Dequeue(q, e), S) /\ ToSet(Dequeue(q, e)) = ToSet(q) \ {e}
           /\ Len(Dequeue(q, e)) = Len(q) - 1
<1> DEFINE i == CHOOSE i \in DOMAIN q : q[i] = e
           r == RemoveAt(q, i)
<1>1. /\ Len(q) \in Nat /\ DOMAIN q = 1..Len(q)
      /\ \A x : x \in ToSet(q) <=> \E j \in 1..Len(q) : q[j] = x
      /\ \A a, b \in 1..Len(q) : q[a] = q[b] => a = b
  BY QueueSet DEF Queue, IsInjective
<1>2. i \in 1..Len(q) /\ q[i] = e
  BY <1>1
<1>3. Dequeue(q, e) = r
  BY DEF Dequeue
<1> HIDE DEF i
<1>4. /\ r \in Seq(S) /\ Len(r) = Len(q) - 1
      /\ \A j \in 1..(Len(q) - 1) : r[j] = IF j < i THEN q[j] ELSE q[j + 1]
  BY <1>2, RemovedIndex DEF Queue
<1> HIDE DEF r
<1>5. /\ DOMAIN r = 1..(Len(q) - 1)
      /\ \A x : x \in ToSet(r) <=> \E j \in 1..(Len(q) - 1) : r[j] = x
  BY <1>4, QueueSet
<1> DEFINE at(j) == IF j < i THEN j ELSE j + 1
<1>6. /\ \A j \in 1..(Len(q) - 1) : at(j) \in 1..Len(q) /\ at(j) # i /\ r[j] = q[at(j)]
      /\ \A j, l \in 1..(Len(q) - 1) : at(j) = at(l) => j = l
      /\ \A j \in 1..Len(q) : j # i => \E l \in 1..(Len(q) - 1) : at(l) = j
  <2>1. \A j \in 1..(Len(q) - 1) : at(j) \in 1..Len(q) /\ at(j) # i /\ r[j] = q[at(j)]
    BY <1>1, <1>2, <1>4
  <2>2. \A j, l \in 1..(Len(q) - 1) : at(j) = at(l) => j = l
    BY <1>1, <1>2
  <2>3. ASSUME NEW j \in 1..Len(q), j # i PROVE \E l \in 1..(Len(q) - 1) : at(l) = j
    <3>1. CASE j < i
      <4>1. j \in 1..(Len(q) - 1) /\ at(j) = j
        BY <1>1, <1>2, <3>1
      <4>2. QED
        BY <4>1
    <3>2. CASE j > i
      <4>1. j - 1 \in 1..(Len(q) - 1) /\ at(j - 1) = j
        BY <1>1, <1>2, <3>2
      <4>2. QED
        BY <4>1
    <3>3. QED
      BY <1>1, <1>2, <2>3, <3>1, <3>2
  <2>4. QED
    BY <2>1, <2>2, <2>3
<1> HIDE DEF at
<1>7. ASSUME NEW x PROVE x \in ToSet(r) <=> x \in ToSet(q) \ {e}
  BY <1>1, <1>2, <1>5, <1>6
<1>8. IsInjective(r)
  <2>1. \A a, b \in 1..(Len(q) - 1) : r[a] = r[b] => a = b
    BY <1>1, <1>6
  <2>2. QED
    BY <1>5, <2>1 DEF IsInjective
<1>9. QED
  BY <1>3, <1>4, <1>7, <1>8 DEF Queue

-----------------------------------------------------------------------------
(* Inserting by priority. *)

LEMMA InsertedSomewhere ==
    ASSUME NEW q, NEW S, q \in Seq(S), NEW P \in SUBSET DOMAIN q
    PROVE  (IF P = {} THEN Len(q) + 1 ELSE Min(P)) \in 1..(Len(q) + 1)
<1>1. Len(q) \in Nat /\ DOMAIN q = 1..Len(q)
  BY LenProperties
<1>2. CASE P = {}
  <2>1. Len(q) + 1 \in 1..(Len(q) + 1)
    BY <1>1
  <2>2. QED
    BY <1>2, <2>1
<1>3. CASE P # {}
  <2>1. P \subseteq Nat
    BY <1>1
  <2>2. PICK m \in P : \A n \in P : m <= n
    BY <1>3, <2>1, Least
  <2>3. Min(P) \in P
    BY <2>2 DEF Min
  <2>4. Min(P) \in 1..(Len(q) + 1)
    BY <1>1, <2>3
  <2>5. QED
    BY <1>3, <2>4
<1>4. QED
  BY <1>2, <1>3

LEMMA PrioInsertedQueue ==
    ASSUME NEW q, Queue(q, Threads), NEW t \in Threads, t \notin ToSet(q), NEW prio
    PROVE  /\ Queue(PrioInsert(q, t, prio), Threads)
           /\ ToSet(PrioInsert(q, t, prio)) = ToSet(q) \cup {t}
           /\ Queue(PrioInsertAhead(q, t, prio), Threads)
           /\ ToSet(PrioInsertAhead(q, t, prio)) = ToSet(q) \cup {t}
<1> DEFINE lower     == {i \in DOMAIN q : prio[q[i]] < prio[t]}
           notHigher == {i \in DOMAIN q : prio[q[i]] <= prio[t]}
           at(P)     == IF P = {} THEN Len(q) + 1 ELSE Min(P)
<1>1. q \in Seq(Threads)
  BY DEF Queue
<1>2. at(lower) \in 1..(Len(q) + 1) /\ at(notHigher) \in 1..(Len(q) + 1)
  <2>1. lower \in SUBSET DOMAIN q /\ notHigher \in SUBSET DOMAIN q
    OBVIOUS
  <2> HIDE DEF lower, notHigher
  <2>2. QED
    BY <1>1, <2>1, InsertedSomewhere
<1>3. /\ PrioInsert(q, t, prio) = InsertAt(q, at(lower), t)
      /\ PrioInsertAhead(q, t, prio) = InsertAt(q, at(notHigher), t)
  BY DEF PrioInsert, PrioInsertAhead
<1> HIDE DEF at, lower, notHigher
<1>4. \A i \in 1..(Len(q) + 1) : /\ Queue(InsertAt(q, i, t), Threads)
                                 /\ ToSet(InsertAt(q, i, t)) = ToSet(q) \cup {t}
  BY InsertedQueue
<1>5. QED
  BY <1>2, <1>3, <1>4

\* The priorities fall from the head of a queue to its end.
Falling(q, prio) == \A i, j \in 1..Len(q) : i < j => prio[q[i]] >= prio[q[j]]

LEMMA InsertedFalling ==
    ASSUME NEW q \in Seq(Threads), NEW prio \in [Threads -> Nat], NEW t \in Threads,
           Falling(q, prio), NEW at \in 1..(Len(q) + 1),
           \A i \in 1..Len(q) : i < at => prio[q[i]] >= prio[t],
           \A i \in 1..Len(q) : i >= at => prio[q[i]] <= prio[t]
    PROVE  Falling(InsertAt(q, at, t), prio)
<1> DEFINE r == InsertAt(q, at, t)
<1>1. /\ r \in Seq(Threads) /\ Len(r) = Len(q) + 1
      /\ \A j \in 1..(Len(q) + 1) : r[j] = IF j < at THEN q[j] ELSE IF j = at THEN t ELSE q[j - 1]
  BY InsertedIndex
<1> HIDE DEF r
<1>2. /\ Len(q) \in Nat /\ at \in Nat /\ at >= 1 /\ at <= Len(q) + 1
      /\ \A i \in 1..Len(q) : q[i] \in Threads /\ prio[q[i]] \in Nat
  BY LenProperties, ElementOfSeq
<1>3. ASSUME NEW i \in 1..(Len(q) + 1), NEW j \in 1..(Len(q) + 1), i < j
      PROVE  prio[r[i]] >= prio[r[j]]
  <2>1. prio[t] \in Nat /\ i \in Nat /\ j \in Nat /\ i >= 1 /\ j <= Len(q) + 1
    BY <1>2
  <2>. /\ r[i] = IF i < at THEN q[i] ELSE IF i = at THEN t ELSE q[i - 1]
       /\ r[j] = IF j < at THEN q[j] ELSE IF j = at THEN t ELSE q[j - 1]
    BY <1>1
  <2>2. CASE j < at
    <3>1. i < at /\ i \in 1..Len(q) /\ j \in 1..Len(q)
      BY <1>2, <1>3, <2>1, <2>2
    <3>2. r[i] = q[i] /\ r[j] = q[j]
      BY <2>2, <3>1
    <3>3. QED
      BY <1>3, <3>1, <3>2 DEF Falling
  <2>3. CASE j = at
    <3>1. i \in 1..Len(q) /\ i < at /\ ~(j < at)
      BY <1>2, <1>3, <2>1, <2>3
    <3>2. r[i] = q[i] /\ r[j] = t
      BY <2>3, <3>1
    <3>3. QED
      BY <3>1, <3>2
  <2>4. CASE j > at /\ i < at
    <3>1. /\ i \in 1..Len(q) /\ j - 1 \in 1..Len(q) /\ i < j - 1
          /\ ~(j < at) /\ j # at
      BY <1>2, <1>3, <2>1, <2>4
    <3>2. r[i] = q[i] /\ r[j] = q[j - 1]
      BY <2>4, <3>1
    <3>3. QED
      BY <3>1, <3>2 DEF Falling
  <2>5. CASE j > at /\ i = at
    <3>1. /\ j - 1 \in 1..Len(q) /\ j - 1 >= at
          /\ ~(i < at) /\ ~(j < at) /\ j # at
      BY <1>2, <1>3, <2>1, <2>5
    <3>2. r[i] = t /\ r[j] = q[j - 1]
      BY <2>5, <3>1
    <3>3. QED
      BY <1>2, <2>1, <3>1, <3>2
  <2>6. CASE i > at
    <3>1. /\ i - 1 \in 1..Len(q) /\ j - 1 \in 1..Len(q) /\ i - 1 < j - 1
          /\ ~(i < at) /\ i # at /\ ~(j < at) /\ j # at
      BY <1>2, <1>3, <2>1, <2>6
    <3>2. r[i] = q[i - 1] /\ r[j] = q[j - 1]
      BY <3>1
    <3>3. QED
      BY <3>1, <3>2 DEF Falling
  <2>7. QED
    BY <1>2, <1>3, <2>1, <2>2, <2>3, <2>4, <2>5, <2>6
<1>4. QED
  BY <1>1, <1>3 DEF Falling, r

\* The first place in P, or behind the end.
LEMMA FirstPlace ==
    ASSUME NEW n \in Nat, NEW P \in SUBSET (1..n)
    PROVE  /\ (IF P = {} THEN n + 1 ELSE Min(P)) \in 1..(n + 1)
           /\ P # {} => Min(P) \in P
           /\ \A i \in 1..n : i < (IF P = {} THEN n + 1 ELSE Min(P)) => i \notin P
<1>1. CASE P = {}
  BY <1>1
<1>2. CASE P # {}
  <2>1. P \subseteq Nat
    OBVIOUS
  <2>2. PICK m \in P : \A i \in P : m <= i
    BY <1>2, <2>1, Least
  <2>3. Min(P) \in P /\ \A i \in P : Min(P) <= i
    BY <2>2 DEF Min
  <2> DEFINE x == Min(P)
  <2>4. x \in 1..n /\ x \in 1..(n + 1)
    <3>1. x \in P
      BY <2>3
    <3> HIDE DEF x
    <3>2. x \in 1..n
      BY <3>1
    <3>3. QED
      BY <3>2
  <2>5. ASSUME NEW i \in 1..n, i < Min(P) PROVE i \notin P
    BY <2>3, <2>4, <2>5
  <2>6. QED
    BY <1>2, <2>3, <2>4, <2>5
<1>3. QED
  BY <1>1, <1>2

LEMMA PrioInsertedFalling ==
    ASSUME NEW q \in Seq(Threads), NEW prio \in [Threads -> Nat], NEW t \in Threads,
           Falling(q, prio)
    PROVE  Falling(PrioInsert(q, t, prio), prio) /\ Falling(PrioInsertAhead(q, t, prio), prio)
<1> DEFINE lower     == {i \in DOMAIN q : prio[q[i]] < prio[t]}
           notHigher == {i \in DOMAIN q : prio[q[i]] <= prio[t]}
           at(P)     == IF P = {} THEN Len(q) + 1 ELSE Min(P)
<1>1. /\ Len(q) \in Nat /\ DOMAIN q = 1..Len(q) /\ prio[t] \in Nat
      /\ \A i \in 1..Len(q) : q[i] \in Threads /\ prio[q[i]] \in Nat
  BY LenProperties, ElementOfSeq
<1>2. /\ \A i \in 1..Len(q) : i \in lower <=> prio[q[i]] < prio[t]
      /\ \A i \in 1..Len(q) : i \in notHigher <=> prio[q[i]] <= prio[t]
      /\ lower \in SUBSET (1..Len(q)) /\ notHigher \in SUBSET (1..Len(q))
  BY <1>1
<1>3. /\ PrioInsert(q, t, prio) = InsertAt(q, at(lower), t)
      /\ PrioInsertAhead(q, t, prio) = InsertAt(q, at(notHigher), t)
  BY DEF PrioInsert, PrioInsertAhead
<1> HIDE DEF lower, notHigher
<1>4. ASSUME NEW P \in SUBSET (1..Len(q)), P = lower \/ P = notHigher
      PROVE  Falling(InsertAt(q, at(P), t), prio)
  <2>1. /\ at(P) \in 1..(Len(q) + 1)
        /\ P # {} => Min(P) \in P
        /\ \A i \in 1..Len(q) : i < at(P) => i \notin P
    BY <1>1, FirstPlace
  <2>2. \A i \in 1..Len(q) : i < at(P) => prio[q[i]] >= prio[t]
    BY <1>1, <1>2, <1>4, <2>1
  <2>3. ASSUME NEW i \in 1..Len(q), i >= at(P) PROVE prio[q[i]] <= prio[t]
    <3>1. P # {} /\ at(P) \in P /\ at(P) \in 1..Len(q)
      BY <1>1, <2>1, <2>3
    <3> HIDE DEF at
    <3>2. prio[q[at(P)]] <= prio[t]
      BY <1>2, <1>4, <3>1
    <3>3. prio[q[i]] <= prio[q[at(P)]]
      <4>1. at(P) = i \/ at(P) < i
        BY <2>3, <3>1
      <4>2. QED
        BY <1>1, <3>1, <4>1 DEF Falling
    <3>4. prio[q[i]] \in Nat /\ prio[q[at(P)]] \in Nat /\ prio[t] \in Nat
      BY <1>1, <3>1
    <3>5. QED
      BY <3>2, <3>3, <3>4
  <2> HIDE DEF at
  <2>4. QED
    BY <2>1, <2>2, <2>3, InsertedFalling
<1>5. QED
  BY <1>2, <1>3, <1>4

\* The head of a falling queue has the highest priority.
LEMMA HeadIsHighest ==
    ASSUME NEW q, Queue(q, Threads), q # <<>>, NEW prio \in [Threads -> Nat], Falling(q, prio)
    PROVE  /\ Falling(Tail(q), prio)
           /\ \A x \in ToSet(q) : prio[x] <= prio[Head(q)]
<1>1. /\ Tail(q) \in Seq(Threads) /\ Len(Tail(q)) = Len(q) - 1 /\ Head(q) = q[1]
      /\ Head(q) \in Threads /\ \A i \in 1..(Len(q) - 1) : Tail(q)[i] = q[i + 1]
  BY TailQueue DEF Queue
<1>2. /\ Len(q) \in Nat /\ \A x : x \in ToSet(q) <=> \E i \in 1..Len(q) : q[i] = x
      /\ Len(q) # 0
  BY QueueSet DEF Queue
<1>3. Falling(Tail(q), prio)
  <2>1. \A i \in 1..(Len(q) - 1) : i + 1 \in 1..Len(q)
    BY <1>2
  <2>2. QED
    BY <1>1, <1>2, <2>1 DEF Falling
<1>4. ASSUME NEW x \in ToSet(q) PROVE prio[x] <= prio[Head(q)]
  <2>1. PICK i \in 1..Len(q) : q[i] = x
    BY <1>2
  <2>2. CASE i = 1
    BY <1>1, <2>1, <2>2
  <2>3. CASE i > 1
    <3>1. 1 \in 1..Len(q) /\ 1 < i
      BY <1>2, <2>3
    <3>2. prio[q[1]] >= prio[q[i]]
      BY <3>1 DEF Falling
    <3>3. q[i] \in Threads
      BY ElementOfSeq DEF Queue
    <3>4. QED
      BY <1>1, <2>1, <3>2, <3>3
  <2>4. QED
    BY <2>2, <2>3
<1>5. QED
  BY <1>3, <1>4

-----------------------------------------------------------------------------
(* The states of the kernel, for notes U of the wake-ups and counters of    *)
(* the semaphores C, and where the threads are in one.                      *)

KernelStates(U, C) ==
    [current : Threads, ready : Seq(Threads), state : [Threads -> States],
     prio : [Threads -> Nat \ {0}], preempt : [Threads -> Nat], u : [Threads -> U],
     queue : [Objects -> Seq(Threads)], cnt : [C -> Int],
     vt : Seq([par : Threads, time : Int]), due : [Threads -> Int]]

Runnable == {"READY", "CURRENT"}
Runs(s, t) == s.state[t] \in Runnable

QueuesSound(s) ==
    Queue(s.ready, Threads) /\ \A o \in Objects : Queue(s.queue[o], Threads)

ThreadPlaced(s, t) ==
    /\ (s.state[t] = "CURRENT") <=> (t = s.current)
    /\ (s.state[t] = "READY") <=> (t \in ToSet(s.ready))
    /\ \A o \in Objects : (t \in ToSet(s.queue[o])) <=> (s.state[t] \in WaitStates /\ s.u[t] = o)

Placed(s) == QueuesSound(s) /\ \A t \in Threads : ThreadPlaced(s, t)

\* Thread w is on its way from one place to another.
PlacedBut(s, w) ==
    /\ QueuesSound(s)
    /\ \A t \in Threads \ {w} : ThreadPlaced(s, t)
    /\ w # s.current /\ w \notin ToSet(s.ready)
    /\ \A o \in Objects : w \notin ToSet(s.queue[o])

\* What a step leaves alone when it only shuffles the threads that can run,
\* when thread w can run after it, and when the current one no longer can.
Kept(s, r) ==
    r.queue = s.queue /\ r.cnt = s.cnt /\ r.vt = s.vt /\ r.due = s.due /\ r.prio = s.prio
Sleepers(s, r, T) ==
    \A t \in T : ~Runs(s, t) => r.state[t] = s.state[t] /\ r.u[t] = s.u[t]

Shuffled(s, r) ==
    /\ Kept(s, r) /\ Sleepers(s, r, Threads)
    /\ \A t \in Threads : Runs(r, t) <=> Runs(s, t)
Woken(s, w, r) ==
    /\ Kept(s, r) /\ Sleepers(s, r, Threads \ {w})
    /\ \A t \in Threads : Runs(r, t) <=> (Runs(s, t) \/ t = w)
Slept(s, r, state) ==
    /\ Kept(s, r) /\ Sleepers(s, r, Threads)
    /\ \A t \in Threads : Runs(r, t) <=> (Runs(s, t) /\ t # s.current)
    /\ r.state[s.current] = state /\ r.u[s.current] = s.u[s.current]

LEMMA ReadyIFields ==
    ASSUME NEW U, NEW C, NEW s \in KernelStates(U, C), NEW t \in Threads,
           PrioInsert(s.ready, t, s.prio) \in Seq(Threads)
    PROVE  /\ ReadyI(s, t) \in KernelStates(U, C)
           /\ ReadyI(s, t).state = [s.state EXCEPT ![t] = "READY"]
           /\ ReadyI(s, t).ready = PrioInsert(s.ready, t, s.prio)
           /\ ReadyI(s, t).current = s.current
           /\ ReadyI(s, t).u = s.u
           /\ Kept(s, ReadyI(s, t))
  BY DEF KernelStates, ReadyI, States, WaitStates, Kept

LEMMA TakeFirstFields ==
    ASSUME NEW U, NEW C, NEW s \in KernelStates(U, C), s.ready # <<>>
    PROVE  /\ TakeFirst(s) \in KernelStates(U, C)
           /\ TakeFirst(s).state = [s.state EXCEPT ![Head(s.ready)] = "CURRENT"]
           /\ TakeFirst(s).ready = Tail(s.ready)
           /\ TakeFirst(s).current = Head(s.ready)
           /\ TakeFirst(s).u = s.u
           /\ Kept(s, TakeFirst(s))
<1>1. Head(s.ready) \in Threads /\ Tail(s.ready) \in Seq(Threads)
  BY HeadTailProperties DEF KernelStates
<1>2. QED
  BY <1>1 DEF KernelStates, TakeFirst, States, WaitStates, Kept

LEMMA ReadyIPlaces ==
    ASSUME NEW U, NEW C, NEW s \in KernelStates(U, C), NEW t \in Threads, PlacedBut(s, t)
    PROVE  /\ ReadyI(s, t) \in KernelStates(U, C)
           /\ Placed(ReadyI(s, t)) /\ Woken(s, t, ReadyI(s, t))
           /\ ReadyI(s, t).current = s.current
<1> DEFINE r == ReadyI(s, t)
<1>1. /\ Queue(PrioInsert(s.ready, t, s.prio), Threads)
      /\ ToSet(PrioInsert(s.ready, t, s.prio)) = ToSet(s.ready) \cup {t}
  BY PrioInsertedQueue DEF PlacedBut, QueuesSound
<1>2. /\ r \in KernelStates(U, C)
      /\ r.state = [s.state EXCEPT ![t] = "READY"]
      /\ r.ready = PrioInsert(s.ready, t, s.prio)
      /\ r.current = s.current /\ r.u = s.u /\ Kept(s, r)
  <2>1. PrioInsert(s.ready, t, s.prio) \in Seq(Threads)
    BY <1>1 DEF Queue
  <2> HIDE DEF r
  <2>2. \A x \in Threads : PrioInsert(s.ready, x, s.prio) \in Seq(Threads) =>
          /\ ReadyI(s, x) \in KernelStates(U, C)
          /\ ReadyI(s, x).state = [s.state EXCEPT ![x] = "READY"]
          /\ ReadyI(s, x).ready = PrioInsert(s.ready, x, s.prio)
          /\ ReadyI(s, x).current = s.current
          /\ ReadyI(s, x).u = s.u
          /\ Kept(s, ReadyI(s, x))
    BY ReadyIFields
  <2>3. QED
    BY <2>1, <2>2 DEF r
<1> HIDE DEF r
<1>3. s.state \in [Threads -> States] /\ "READY" # "CURRENT" /\ "READY" \notin WaitStates
  BY DEF KernelStates, WaitStates
<1>4. r.state[t] = "READY" /\ \A x \in Threads \ {t} : r.state[x] = s.state[x]
  BY <1>2, <1>3
<1>5. QueuesSound(r)
  BY <1>1, <1>2 DEF QueuesSound, PlacedBut, Kept
<1>6. ASSUME NEW x \in Threads PROVE ThreadPlaced(r, x)
  <2>1. CASE x = t
    BY <1>1, <1>2, <1>3, <1>4, <2>1 DEF ThreadPlaced, PlacedBut, Kept
  <2>2. CASE x # t
    BY <1>1, <1>2, <1>3, <1>4, <2>2 DEF ThreadPlaced, PlacedBut, Kept
  <2>3. QED
    BY <2>1, <2>2
<1>7. Woken(s, t, r)
  BY <1>2, <1>3, <1>4 DEF Woken, Sleepers, Runs, Runnable
<1>8. QED
  BY <1>2, <1>5, <1>6, <1>7 DEF Placed, r

LEMMA TakeFirstPlaces ==
    ASSUME NEW U, NEW C, NEW s \in KernelStates(U, C), Placed(s), s.ready # <<>>
    PROVE  /\ TakeFirst(s) \in KernelStates(U, C)
           /\ PlacedBut(TakeFirst(s), s.current)
           /\ TakeFirst(s).u = s.u /\ Kept(s, TakeFirst(s))
           /\ \A t \in Threads : /\ Runs(TakeFirst(s), t) <=> Runs(s, t)
                                 /\ ~Runs(s, t) => TakeFirst(s).state[t] = s.state[t]
<1> DEFINE h == Head(s.ready)
           r == TakeFirst(s)
<1>1. /\ r \in KernelStates(U, C)
      /\ r.state = [s.state EXCEPT ![h] = "CURRENT"]
      /\ r.ready = Tail(s.ready)
      /\ r.current = h /\ r.u = s.u /\ Kept(s, r)
  BY TakeFirstFields
<1>2. /\ h \in Threads /\ h \in ToSet(s.ready)
      /\ Queue(Tail(s.ready), Threads) /\ ToSet(Tail(s.ready)) = ToSet(s.ready) \ {h}
  <2>1. Queue(s.ready, Threads)
    BY DEF Placed, QueuesSound
  <2>2. QED
    BY <2>1, TailQueue, QueueSet DEF Queue
<1> HIDE DEF r, h
<1>3. s.state \in [Threads -> States] /\ "READY" # "CURRENT"
      /\ "READY" \notin WaitStates /\ "CURRENT" \notin WaitStates /\ s.current \in Threads
  BY DEF KernelStates, WaitStates
<1>4. r.state[h] = "CURRENT" /\ \A x \in Threads \ {h} : r.state[x] = s.state[x]
  BY <1>1, <1>2, <1>3
<1>5. /\ s.state[h] = "READY" /\ h # s.current
      /\ s.state[s.current] = "CURRENT" /\ s.current \notin ToSet(s.ready)
      /\ \A o \in Objects : s.current \notin ToSet(s.queue[o])
  BY <1>2, <1>3 DEF Placed, ThreadPlaced
<1>6. QueuesSound(r)
  BY <1>1, <1>2 DEF QueuesSound, Placed, Kept
<1>7. ASSUME NEW x \in Threads \ {s.current} PROVE ThreadPlaced(r, x)
  <2>1. ThreadPlaced(s, x)
    BY DEF Placed
  <2>2. CASE x = h
    BY <1>1, <1>2, <1>3, <1>4, <1>5, <2>1, <2>2 DEF ThreadPlaced, Kept
  <2>3. CASE x # h
    BY <1>1, <1>2, <1>3, <1>4, <2>1, <2>3 DEF ThreadPlaced, Kept
  <2>4. QED
    BY <2>2, <2>3
<1>8. PlacedBut(r, s.current)
  BY <1>1, <1>2, <1>5, <1>6, <1>7 DEF PlacedBut, Kept
<1>9. ASSUME NEW t \in Threads
      PROVE  (Runs(r, t) <=> Runs(s, t)) /\ (~Runs(s, t) => r.state[t] = s.state[t])
  BY <1>4, <1>5 DEF Runs, Runnable
<1>10. QED
  BY <1>1, <1>8, <1>9 DEF r

\* Behind is chSchDoRescheduleBehind() and chSchDoRescheduleAhead().
LEMMA ReschedulePlaces ==
    ASSUME NEW U, NEW C, NEW s \in KernelStates(U, C), Placed(s), s.ready # <<>>
    PROVE  /\ DoRescheduleBehind(s) \in KernelStates(U, C) /\ Placed(DoRescheduleBehind(s))
           /\ Shuffled(s, DoRescheduleBehind(s))
           /\ DoRescheduleAhead(s) \in KernelStates(U, C) /\ Placed(DoRescheduleAhead(s))
           /\ Shuffled(s, DoRescheduleAhead(s))
<1> DEFINE c == s.current
           n == TakeFirst(s)
           m == [n EXCEPT !.preempt[c] = Quantum]
           b == DoRescheduleBehind(s)
           a == DoRescheduleAhead(s)
<1>1. /\ n \in KernelStates(U, C) /\ PlacedBut(n, c)
      /\ n.u = s.u /\ Kept(s, n)
      /\ \A t \in Threads : (Runs(n, t) <=> Runs(s, t)) /\ (~Runs(s, t) => n.state[t] = s.state[t])
  BY TakeFirstPlaces
<1>2. c \in Threads /\ Runs(s, c)
  BY DEF KernelStates, Placed, ThreadPlaced, Runs, Runnable
<1> HIDE DEF n, c
<1>3. /\ m \in KernelStates(U, C) /\ m.u = n.u /\ Kept(n, m)
      /\ m.state = n.state /\ m.ready = n.ready /\ m.current = n.current
  BY <1>1, SchdAssumption DEF KernelStates, Kept
<1>4. b = ReadyI(m, c)
  BY DEF DoRescheduleBehind, n, c
<1> HIDE DEF m, b
<1>5. PlacedBut(m, c)
  BY <1>1, <1>3 DEF PlacedBut, ThreadPlaced, QueuesSound, Kept
<1>6. b \in KernelStates(U, C) /\ Placed(b) /\ Woken(m, c, b)
  BY <1>2, <1>3, <1>4, <1>5, ReadyIPlaces
<1>7. ASSUME NEW r, Woken(m, c, r) PROVE Shuffled(s, r)
  BY <1>1, <1>2, <1>3, <1>7 DEF Shuffled, Woken, Kept, Sleepers, Runs
<1>8. a \in KernelStates(U, C) /\ Placed(a) /\ Woken(m, c, a)
  <2>1. /\ Queue(PrioInsertAhead(n.ready, c, n.prio), Threads)
        /\ ToSet(PrioInsertAhead(n.ready, c, n.prio)) = ToSet(n.ready) \cup {c}
    BY <1>1, <1>2, PrioInsertedQueue DEF PlacedBut, QueuesSound
  <2>2. PrioInsertAhead(n.ready, c, n.prio) \in Seq(Threads) /\ n.prio = s.prio
    BY <1>1, <2>1 DEF Queue, Kept
  <2>3. a = [n EXCEPT !.state[c] = "READY", !.ready = PrioInsertAhead(@, c, s.prio)]
    BY DEF DoRescheduleAhead, n, c
  <2> HIDE DEF a
  <2>4. /\ a \in KernelStates(U, C)
        /\ a.state = [n.state EXCEPT ![c] = "READY"]
        /\ a.ready = PrioInsertAhead(n.ready, c, n.prio)
        /\ a.current = n.current /\ a.u = n.u /\ Kept(n, a)
    BY <1>1, <1>2, <2>2, <2>3 DEF KernelStates, States, Kept
  <2>5. n.state \in [Threads -> States] /\ "READY" # "CURRENT" /\ "READY" \notin WaitStates
    BY <1>1 DEF KernelStates, WaitStates
  <2>6. a.state[c] = "READY" /\ \A x \in Threads \ {c} : a.state[x] = n.state[x]
    BY <1>2, <2>4, <2>5
  <2>7. QueuesSound(a)
    BY <1>1, <2>1, <2>4 DEF QueuesSound, PlacedBut, Kept
  <2>8. ASSUME NEW x \in Threads PROVE ThreadPlaced(a, x)
    <3>1. CASE x = c
      BY <1>1, <2>1, <2>4, <2>5, <2>6, <3>1 DEF ThreadPlaced, PlacedBut, Kept
    <3>2. CASE x # c
      BY <1>1, <2>1, <2>4, <2>5, <2>6, <3>2 DEF ThreadPlaced, PlacedBut, Kept
    <3>3. QED
      BY <3>1, <3>2
  <2>9. Woken(m, c, a)
    BY <1>1, <1>3, <2>4, <2>5, <2>6 DEF Woken, Sleepers, Runs, Runnable, Kept
  <2>10. QED
    BY <2>4, <2>7, <2>8, <2>9 DEF Placed
<1>9. QED
  BY <1>6, <1>7, <1>8 DEF a, b

\* Whatever reschedules leaves the threads that can run to the scheduler.
LEMMA Reschedules ==
    ASSUME NEW U, NEW C, NEW s \in KernelStates(U, C), Placed(s)
    PROVE  /\ RescheduleS(s) \in KernelStates(U, C) /\ Placed(RescheduleS(s))
           /\ Shuffled(s, RescheduleS(s))
           /\ Epilogue(s) \in KernelStates(U, C) /\ Placed(Epilogue(s))
           /\ Shuffled(s, Epilogue(s))
<1>1. Shuffled(s, s)
  BY DEF Shuffled, Kept, Sleepers
<1>2. s.prio[s.current] > 0 /\ s.prio[s.current] \in Nat /\ s.preempt[s.current] \in Nat
  BY DEF KernelStates
<1>3. s.ready = <<>> => FirstPrio(s) = 0
  BY DEF FirstPrio
<1>4. s.ready = <<>> => RescheduleS(s) = s /\ Epilogue(s) = s
  BY <1>2, <1>3 DEF RescheduleS, Epilogue, IsPreemptionRequired
<1>5. /\ RescheduleS(s) \in {s, DoRescheduleAhead(s)}
      /\ Epilogue(s) \in {s, DoRescheduleAhead(s), DoRescheduleBehind(s)}
  BY DEF RescheduleS, Epilogue, DoReschedule
<1>6. CASE s.ready = <<>>
  BY <1>1, <1>4, <1>6
<1>7. CASE s.ready # <<>>
  <2>1. /\ DoRescheduleBehind(s) \in KernelStates(U, C) /\ Placed(DoRescheduleBehind(s))
        /\ Shuffled(s, DoRescheduleBehind(s))
        /\ DoRescheduleAhead(s) \in KernelStates(U, C) /\ Placed(DoRescheduleAhead(s))
        /\ Shuffled(s, DoRescheduleAhead(s))
    BY <1>7, ReschedulePlaces
  <2>2. QED
    BY <1>1, <1>5, <2>1
<1>8. QED
  BY <1>6, <1>7

\* The current thread goes to sleep, in the queue of what it waits for.
LEMMA GoSleepPlaces ==
    ASSUME NEW U, NEW C, NEW s \in KernelStates(U, C), s.ready # <<>>,
           NEW new \in States \ Runnable,
           QueuesSound(s), \A t \in Threads \ {s.current} : ThreadPlaced(s, t),
           s.state[s.current] = "CURRENT", s.current \notin ToSet(s.ready),
           \A o \in Objects : (s.current \in ToSet(s.queue[o]))
                                 <=> (new \in WaitStates /\ s.u[s.current] = o)
    PROVE  /\ GoSleepS(s, new) \in KernelStates(U, C) /\ Placed(GoSleepS(s, new))
           /\ Slept(s, GoSleepS(s, new), new)
<1> DEFINE c == s.current
           h == Head(s.ready)
           m == [s EXCEPT !.state[c] = new, !.preempt[c] = Quantum]
           r == GoSleepS(s, new)
<1>1. c \in Threads /\ s.state \in [Threads -> States] /\ new \in States
      /\ "READY" \notin WaitStates /\ "CURRENT" \notin WaitStates
      /\ new # "READY" /\ new # "CURRENT"
  BY DEF KernelStates, WaitStates, Runnable
<1> HIDE DEF c
<1>2. /\ m \in KernelStates(U, C)
      /\ m.state = [s.state EXCEPT ![c] = new] /\ m.ready = s.ready
      /\ m.current = c /\ m.u = s.u /\ Kept(s, m)
  BY <1>1, SchdAssumption DEF KernelStates, Kept, c
<1>3. r = TakeFirst(m)
  BY DEF GoSleepS, c
<1> HIDE DEF m, r
<1>4. /\ h \in Threads /\ h \in ToSet(s.ready)
      /\ Queue(Tail(s.ready), Threads) /\ ToSet(Tail(s.ready)) = ToSet(s.ready) \ {h}
  <2>1. Queue(s.ready, Threads)
    BY DEF QueuesSound
  <2>2. QED
    BY <2>1, TailQueue, QueueSet DEF Queue
<1>5. /\ r \in KernelStates(U, C)
      /\ r.state = [m.state EXCEPT ![h] = "CURRENT"] /\ r.ready = Tail(s.ready)
      /\ r.current = h /\ r.u = s.u /\ Kept(s, r)
  <2>1. m.ready # <<>>
    BY <1>2
  <2>2. /\ r \in KernelStates(U, C)
        /\ r.state = [m.state EXCEPT ![h] = "CURRENT"] /\ r.ready = Tail(s.ready)
        /\ r.current = h /\ r.u = s.u /\ Kept(m, r)
    BY <1>2, <1>3, <2>1, TakeFirstFields
  <2>3. Kept(s, r)
    BY <1>2, <2>2 DEF Kept
  <2>4. QED
    BY <2>2, <2>3
<1> HIDE DEF h
<1>6. /\ h # c /\ s.state[h] = "READY" /\ r.state[h] = "CURRENT"
      /\ r.state[c] = new /\ \A t \in Threads \ {c, h} : r.state[t] = s.state[t]
  <2>1. h # c
    BY <1>4 DEF c
  <2>2. s.state[h] = "READY"
    BY <1>4, <2>1 DEF ThreadPlaced, c
  <2>3. QED
    BY <1>1, <1>2, <1>4, <1>5, <2>1, <2>2
<1>7. QueuesSound(r)
  BY <1>4, <1>5 DEF QueuesSound, Kept
<1>8. ASSUME NEW t \in Threads PROVE ThreadPlaced(r, t)
  <2>1. CASE t = c
    <3>1. t \notin ToSet(r.ready) /\ t # r.current
      BY <1>4, <1>5, <1>6, <2>1 DEF c
    <3>2. QED
      BY <1>1, <1>5, <1>6, <2>1, <3>1 DEF ThreadPlaced, Kept, c
  <2>2. CASE t # c
    <3>1. ThreadPlaced(s, t)
      BY <2>2 DEF c
    <3>2. CASE t = h
      BY <1>1, <1>4, <1>5, <1>6, <3>1, <3>2 DEF ThreadPlaced, Kept
    <3>3. CASE t # h
      <4>1. r.state[t] = s.state[t] /\ t # s.current /\ t # r.current
        BY <1>5, <1>6, <2>2, <3>3 DEF c
      <4>2. QED
        BY <1>1, <1>4, <1>5, <3>1, <3>3, <4>1 DEF ThreadPlaced, Kept
    <3>4. QED
      BY <3>2, <3>3
  <2>3. QED
    BY <2>1, <2>2
<1>9. Slept(s, r, new)
  <2>1. \A t \in Threads : Runs(r, t) <=> (Runs(s, t) /\ t # c)
    BY <1>1, <1>6 DEF Runs, Runnable
  <2>2. Sleepers(s, r, Threads)
    <3> SUFFICES ASSUME NEW t \in Threads, ~Runs(s, t)
                 PROVE  r.state[t] = s.state[t] /\ r.u[t] = s.u[t]
      BY DEF Sleepers
    <3>1. t # h /\ t # c
      BY <1>6 DEF Runs, Runnable, c
    <3>2. QED
      BY <1>5, <1>6, <3>1
  <2>3. QED
    BY <1>5, <1>6, <2>1, <2>2 DEF Slept, c
<1>10. QED
  BY <1>5, <1>7, <1>8, <1>9 DEF Placed, r

\* A thread that has left the queue it waited in is woken up: by a thread,
\* and by an interrupt handler or in the middle of other things.
LEMMA WakeupPlaces ==
    ASSUME NEW U, NEW C, NEW s \in KernelStates(U, C), NEW t \in Threads, NEW msg \in U,
           PlacedBut(s, t), s.state[s.current] = "CURRENT"
    PROVE  /\ WakeupS(s, t, msg) \in KernelStates(U, C) /\ Placed(WakeupS(s, t, msg))
           /\ Woken(s, t, WakeupS(s, t, msg))
           /\ ReadyWith(s, t, msg) \in KernelStates(U, C) /\ Placed(ReadyWith(s, t, msg))
           /\ Woken(s, t, ReadyWith(s, t, msg)) /\ ReadyWith(s, t, msg).current = s.current
<1> DEFINE w == [s EXCEPT !.u[t] = msg]
           c == s.current
           a == ReadyI(w, c)
           p == [a EXCEPT !.current = t, !.state[t] = "CURRENT"]
<1>1. /\ w \in KernelStates(U, C)
      /\ w.state = s.state /\ w.ready = s.ready /\ w.current = s.current
      /\ w.u = [s.u EXCEPT ![t] = msg] /\ Kept(s, w)
  BY DEF KernelStates, Kept
<1>2. s.u \in [Threads -> U] /\ c \in Threads /\ t # c
  BY DEF KernelStates, PlacedBut
<1> HIDE DEF w, c
<1>3. PlacedBut(w, t)
  <2>1. ASSUME NEW x \in Threads \ {t} PROVE ThreadPlaced(w, x)
    BY <1>1, <1>2 DEF ThreadPlaced, PlacedBut, Kept
  <2>2. QED
    BY <1>1, <2>1 DEF PlacedBut, QueuesSound, Kept
<1>4. ASSUME NEW r, Woken(w, t, r) PROVE Woken(s, t, r)
  BY <1>1, <1>2, <1>4 DEF Woken, Sleepers, Runs, Kept
<1>5. /\ ReadyI(w, t) \in KernelStates(U, C) /\ Placed(ReadyI(w, t)) /\ Woken(w, t, ReadyI(w, t))
      /\ ReadyI(w, t).current = c
  BY <1>1, <1>3, ReadyIPlaces DEF c
<1>6. /\ ReadyWith(s, t, msg) \in KernelStates(U, C) /\ Placed(ReadyWith(s, t, msg))
      /\ Woken(s, t, ReadyWith(s, t, msg)) /\ ReadyWith(s, t, msg).current = s.current
  <2>1. /\ ReadyI(s, t) \in KernelStates(U, C) /\ Placed(ReadyI(s, t)) /\ Woken(s, t, ReadyI(s, t))
        /\ ReadyI(s, t).current = s.current
    BY ReadyIPlaces
  <2> DEFINE i == ReadyI(s, t)
             r == ReadyWith(s, t, msg)
  <2>2. r = [i EXCEPT !.u[t] = msg]
    BY DEF ReadyWith
  <2>3. i.state[t] = "READY"
    BY <1>2, <2>1 DEF Woken, Runs, Runnable, Placed, ThreadPlaced, c
  <2> HIDE DEF i, r
  <2>4. /\ r \in KernelStates(U, C)
        /\ r.state = i.state /\ r.ready = i.ready /\ r.current = i.current
        /\ r.u = [i.u EXCEPT ![t] = msg] /\ Kept(i, r)
    BY <2>1, <2>2 DEF KernelStates, Kept, i
  <2>5. i.u \in [Threads -> U]
    BY <2>1 DEF KernelStates, i
  <2>6. ASSUME NEW x \in Threads PROVE ThreadPlaced(r, x)
    <3>1. ThreadPlaced(i, x)
      BY <2>1 DEF Placed, i
    <3>2. CASE x = t
      BY <2>3, <2>4, <3>1, <3>2 DEF ThreadPlaced, WaitStates, Kept
    <3>3. CASE x # t
      BY <2>4, <2>5, <3>1, <3>3 DEF ThreadPlaced, Kept
    <3>4. QED
      BY <3>2, <3>3
  <2>7. QueuesSound(r)
    BY <2>1, <2>4 DEF Placed, QueuesSound, Kept, i
  <2>8. Woken(s, t, r)
    BY <2>1, <2>4, <2>5 DEF Woken, Sleepers, Runs, Kept, i
  <2>9. QED
    BY <2>1, <2>4, <2>6, <2>7, <2>8 DEF Placed, r, i
<1>7. CASE s.prio[t] <= s.prio[s.current]
  <2>1. WakeupS(s, t, msg) = ReadyI(w, t)
    BY <1>7 DEF WakeupS, w
  <2>2. QED
    BY <1>4, <1>5, <1>6, <2>1
<1>8. CASE ~(s.prio[t] <= s.prio[s.current])
  <2>1. WakeupS(s, t, msg) = p
    BY <1>8 DEF WakeupS, w, c
  <2>2. /\ Queue(PrioInsert(w.ready, c, w.prio), Threads)
        /\ ToSet(PrioInsert(w.ready, c, w.prio)) = ToSet(w.ready) \cup {c}
    <3>1. Queue(w.ready, Threads) /\ c \notin ToSet(w.ready)
      <4>1. ThreadPlaced(w, c)
        BY <1>2, <1>3 DEF PlacedBut
      <4>2. QED
        BY <1>1, <1>3, <4>1 DEF PlacedBut, QueuesSound, ThreadPlaced, c
    <3>2. QED
      BY <1>2, <3>1, PrioInsertedQueue
  <2>3. /\ a \in KernelStates(U, C)
        /\ a.state = [w.state EXCEPT ![c] = "READY"]
        /\ a.ready = PrioInsert(w.ready, c, w.prio)
        /\ a.current = w.current /\ a.u = w.u /\ Kept(w, a)
    <3>1. \A x \in Threads : PrioInsert(w.ready, x, w.prio) \in Seq(Threads) =>
            /\ ReadyI(w, x) \in KernelStates(U, C)
            /\ ReadyI(w, x).state = [w.state EXCEPT ![x] = "READY"]
            /\ ReadyI(w, x).ready = PrioInsert(w.ready, x, w.prio)
            /\ ReadyI(w, x).current = w.current
            /\ ReadyI(w, x).u = w.u
            /\ Kept(w, ReadyI(w, x))
      BY <1>1, ReadyIFields
    <3>2. QED
      BY <1>2, <2>2, <3>1 DEF Queue
  <2> HIDE DEF a
  <2>4. /\ p \in KernelStates(U, C)
        /\ p.state = [a.state EXCEPT ![t] = "CURRENT"]
        /\ p.ready = a.ready /\ p.current = t /\ p.u = a.u /\ Kept(a, p)
    BY <2>3 DEF KernelStates, States, WaitStates, Kept
  <2> HIDE DEF p
  <2>5. /\ w.state \in [Threads -> States] /\ "READY" # "CURRENT"
        /\ "READY" \notin WaitStates /\ "CURRENT" \notin WaitStates
    BY <1>1 DEF KernelStates, WaitStates
  <2>6. /\ p.state[t] = "CURRENT" /\ p.state[c] = "READY"
        /\ \A x \in Threads \ {t, c} : p.state[x] = s.state[x]
    BY <1>1, <1>2, <2>3, <2>4, <2>5
  <2>7. QueuesSound(p)
    BY <1>3, <2>2, <2>3, <2>4 DEF QueuesSound, PlacedBut, Kept
  <2>8. ASSUME NEW x \in Threads PROVE ThreadPlaced(p, x)
    <3>1. CASE x = t
      BY <1>2, <1>3, <2>2, <2>3, <2>4, <2>5, <2>6, <3>1 DEF ThreadPlaced, PlacedBut, Kept
    <3>2. CASE x = c
      <4>1. ThreadPlaced(w, c)
        BY <1>2, <1>3 DEF PlacedBut
      <4>2. w.state[c] = "CURRENT"
        BY <1>1 DEF c
      <4>3. QED
        BY <1>2, <2>2, <2>3, <2>4, <2>5, <2>6, <3>2, <4>1, <4>2 DEF ThreadPlaced, Kept
    <3>3. CASE x # t /\ x # c
      <4>1. ThreadPlaced(w, x) /\ x # w.current
        BY <1>1, <1>3, <3>3 DEF PlacedBut, c
      <4>2. QED
        BY <1>1, <2>2, <2>3, <2>4, <2>5, <2>6, <3>3, <4>1 DEF ThreadPlaced, Kept
    <3>4. QED
      BY <3>1, <3>2, <3>3
  <2>9. Woken(w, t, p)
    <3>1. \A x \in Threads : Runs(p, x) <=> (Runs(w, x) \/ x = t)
      BY <1>1, <1>2, <2>5, <2>6 DEF Runs, Runnable, c
    <3>2. \A x \in Threads \ {t} : ~Runs(w, x) => p.state[x] = w.state[x] /\ p.u[x] = w.u[x]
      BY <1>1, <1>2, <2>3, <2>4, <2>5, <2>6 DEF Runs, Runnable, c
    <3>3. QED
      BY <2>3, <2>4, <3>1, <3>2 DEF Woken, Sleepers, Kept
  <2>10. QED
    BY <1>4, <1>6, <2>1, <2>4, <2>7, <2>8, <2>9 DEF Placed
<1>9. QED
  BY <1>7, <1>8

-----------------------------------------------------------------------------
(* The most urgent thread runs.                                             *)

\* The ready list is in the order of the priorities, and the current thread
\* is as urgent as any in it.
Sorted(s) == Falling(s.ready, s.prio)
TopRuns(s) == \A x \in ToSet(s.ready) : s.prio[x] <= s.prio[s.current]
Ordered(s) == Sorted(s) /\ TopRuns(s)

LEMMA ReadyISorts ==
    ASSUME NEW U, NEW C, NEW s \in KernelStates(U, C), NEW t \in Threads, PlacedBut(s, t),
           Sorted(s)
    PROVE  /\ Sorted(ReadyI(s, t)) /\ ReadyI(s, t).prio = s.prio
           /\ ToSet(ReadyI(s, t).ready) = ToSet(s.ready) \cup {t}
<1> DEFINE r == ReadyI(s, t)
<1>1. /\ Queue(PrioInsert(s.ready, t, s.prio), Threads)
      /\ ToSet(PrioInsert(s.ready, t, s.prio)) = ToSet(s.ready) \cup {t}
  BY PrioInsertedQueue DEF PlacedBut, QueuesSound
<1>2. r.ready = PrioInsert(s.ready, t, s.prio) /\ r.prio = s.prio
  BY DEF ReadyI, KernelStates
<1> HIDE DEF r
<1>3. Falling(PrioInsert(s.ready, t, s.prio), s.prio)
  <2>1. s.ready \in Seq(Threads) /\ s.prio \in [Threads -> Nat]
    BY DEF KernelStates
  <2>2. QED
    BY <2>1, PrioInsertedFalling DEF Sorted
<1>4. QED
  BY <1>1, <1>2, <1>3 DEF Sorted, r

LEMMA ReadyWithSorts ==
    ASSUME NEW U, NEW C, NEW s \in KernelStates(U, C), NEW t \in Threads, NEW msg,
           PlacedBut(s, t), Sorted(s)
    PROVE  Sorted(ReadyWith(s, t, msg))
<1> DEFINE i == ReadyI(s, t)
           r == ReadyWith(s, t, msg)
<1>1. Sorted(i) /\ i \in KernelStates(U, C)
  BY ReadyISorts, ReadyIPlaces
<1>2. r = [i EXCEPT !.u[t] = msg]
  BY DEF ReadyWith
<1> HIDE DEF i, r
<1>3. r.ready = i.ready /\ r.prio = i.prio
  BY <1>1, <1>2 DEF KernelStates
<1>4. QED
  BY <1>1, <1>3 DEF Sorted, r

\* The first of the ready list runs, the current thread is put in, before or
\* behind those of its priority.
LEMMA ReschedulesOrder ==
    ASSUME NEW U, NEW C, NEW s \in KernelStates(U, C), Placed(s), s.ready # <<>>, Sorted(s),
           s.prio[s.current] <= s.prio[Head(s.ready)]
    PROVE  Ordered(DoRescheduleBehind(s)) /\ Ordered(DoRescheduleAhead(s))
<1> DEFINE c == s.current
           h == Head(s.ready)
           q == Tail(s.ready)
           b == DoRescheduleBehind(s)
           a == DoRescheduleAhead(s)
<1>1. /\ c \in Threads /\ s.prio \in [Threads -> Nat] /\ Queue(s.ready, Threads)
      /\ c \notin ToSet(s.ready)
  <2>1. c \in Threads /\ s.prio \in [Threads -> Nat]
    BY DEF KernelStates
  <2>2. QED
    BY <2>1 DEF Placed, QueuesSound, ThreadPlaced
<1>2. /\ Queue(q, Threads) /\ h \in Threads /\ h \in ToSet(s.ready) /\ c \notin ToSet(q)
      /\ \A x \in ToSet(q) : x \in ToSet(s.ready)
  BY <1>1, TailQueue
<1>3. Falling(q, s.prio) /\ \A x \in ToSet(s.ready) : s.prio[x] <= s.prio[h]
  BY <1>1, HeadIsHighest DEF Sorted
<1>4. /\ b.ready = PrioInsert(q, c, s.prio) /\ b.current = h /\ b.prio = s.prio
      /\ a.ready = PrioInsertAhead(q, c, s.prio) /\ a.current = h /\ a.prio = s.prio
  BY DEF DoRescheduleBehind, DoRescheduleAhead, ReadyI, TakeFirst, KernelStates
<1>5. /\ Falling(PrioInsert(q, c, s.prio), s.prio)
      /\ Falling(PrioInsertAhead(q, c, s.prio), s.prio)
      /\ ToSet(PrioInsert(q, c, s.prio)) = ToSet(q) \cup {c}
      /\ ToSet(PrioInsertAhead(q, c, s.prio)) = ToSet(q) \cup {c}
  <2> HIDE DEF c, q
  <2>1. q \in Seq(Threads)
    BY <1>2 DEF Queue
  <2>2. QED
    BY <1>1, <1>2, <1>3, <2>1, PrioInsertedFalling, PrioInsertedQueue
<1> HIDE DEF a, b, q
<1>6. \A x \in ToSet(q) \cup {c} : s.prio[x] <= s.prio[h]
  BY <1>2, <1>3
<1>7. QED
  BY <1>4, <1>5, <1>6 DEF Ordered, Sorted, TopRuns, a, b

\* Whatever has become ready or lost its quantum, after rescheduling the most
\* urgent thread runs.
LEMMA RescheduleOrders ==
    ASSUME NEW U, NEW C, NEW s \in KernelStates(U, C), Placed(s), Sorted(s)
    PROVE  Ordered(RescheduleS(s)) /\ Ordered(Epilogue(s))
<1> DEFINE c == s.current
           h == Head(s.ready)
<1>1. /\ c \in Threads /\ s.prio \in [Threads -> Nat] /\ s.prio[c] \in Nat /\ s.prio[c] > 0
      /\ Queue(s.ready, Threads) /\ s.preempt[c] \in Nat
  BY DEF KernelStates, Placed, QueuesSound
<1>2. CASE s.ready = <<>>
  <2>1. RescheduleS(s) = s /\ Epilogue(s) = s
    BY <1>1, <1>2 DEF RescheduleS, Epilogue, IsPreemptionRequired, FirstPrio
  <2>2. \A x : x \notin ToSet(s.ready)
    BY <1>1, <1>2, QueueSet DEF Queue
  <2>3. QED
    BY <2>1, <2>2 DEF Ordered, TopRuns
<1>3. CASE s.ready # <<>>
  <2>1. h \in ToSet(s.ready) /\ h \in Threads /\ s.prio[h] \in Nat /\ FirstPrio(s) = s.prio[h]
    BY <1>1, <1>3, TailQueue DEF FirstPrio
  <2>2. \A x \in ToSet(s.ready) : x \in Threads /\ s.prio[x] \in Nat /\ s.prio[x] <= s.prio[h]
    BY <1>1, <1>3, HeadIsHighest, QueueSet DEF Sorted, Queue
  <2>3. s.prio[h] <= s.prio[c] => Ordered(s)
    BY <1>1, <2>1, <2>2 DEF Ordered, TopRuns
  <2>4. s.prio[c] <= s.prio[h] => /\ Ordered(DoRescheduleBehind(s))
                                  /\ Ordered(DoRescheduleAhead(s))
    BY <1>3, ReschedulesOrder
  <2>5. Ordered(RescheduleS(s))
    BY <1>1, <2>1, <2>3, <2>4 DEF RescheduleS
  <2>6. Ordered(Epilogue(s))
    BY <1>1, <2>1, <2>3, <2>4 DEF Epilogue, IsPreemptionRequired, DoReschedule
  <2>7. QED
    BY <2>5, <2>6
<1>4. QED
  BY <1>2, <1>3

LEMMA GoSleepOrders ==
    ASSUME NEW U, NEW C, NEW s \in KernelStates(U, C), s.ready # <<>>,
           Queue(s.ready, Threads), Sorted(s), NEW new
    PROVE  Ordered(GoSleepS(s, new))
<1> DEFINE r == GoSleepS(s, new)
<1>1. r.ready = Tail(s.ready) /\ r.current = Head(s.ready) /\ r.prio = s.prio
  BY DEF GoSleepS, TakeFirst, KernelStates
<1> HIDE DEF r
<1>2. s.prio \in [Threads -> Nat]
  BY DEF KernelStates
<1>3. /\ Falling(Tail(s.ready), s.prio)
      /\ \A x \in ToSet(s.ready) : s.prio[x] <= s.prio[Head(s.ready)]
  BY <1>2, HeadIsHighest DEF Sorted
<1>4. ToSet(Tail(s.ready)) \subseteq ToSet(s.ready)
  BY TailQueue
<1>5. QED
  BY <1>1, <1>3, <1>4 DEF Ordered, Sorted, TopRuns, r

\* No thread that is ready is more urgent than both the current one and t.
NoneAbove(s, t) ==
    \A x \in ToSet(s.ready) : s.prio[x] <= s.prio[s.current] \/ s.prio[x] <= s.prio[t]

LEMMA WakeupTops ==
    ASSUME NEW U, NEW C, NEW s \in KernelStates(U, C), NEW t \in Threads, NEW msg \in U,
           PlacedBut(s, t), s.state[s.current] = "CURRENT", Sorted(s), NoneAbove(s, t)
    PROVE  Ordered(WakeupS(s, t, msg))
<1> DEFINE w == [s EXCEPT !.u[t] = msg]
           c == s.current
           a == ReadyI(w, c)
           p == [a EXCEPT !.current = t, !.state[t] = "CURRENT"]
<1>1. /\ w \in KernelStates(U, C) /\ w.ready = s.ready /\ w.current = s.current
      /\ w.prio = s.prio /\ w.state = s.state /\ w.queue = s.queue
      /\ w.u = [s.u EXCEPT ![t] = msg]
  BY DEF KernelStates
<1>2. /\ c \in Threads /\ t # c /\ s.prio \in [Threads -> Nat] /\ s.u \in [Threads -> U]
      /\ Queue(s.ready, Threads) /\ t \notin ToSet(s.ready) /\ c \notin ToSet(s.ready)
  <2>1. c \in Threads /\ t # c
    BY DEF KernelStates, PlacedBut
  <2>2. QED
    BY <2>1 DEF KernelStates, PlacedBut, QueuesSound, ThreadPlaced
<1>3. \A x \in ToSet(s.ready) : x \in Threads /\ (s.prio[x] <= s.prio[c] \/ s.prio[x] <= s.prio[t])
  BY <1>2, QueueSet DEF NoneAbove, Queue
<1> HIDE DEF w, c
<1>4. CASE s.prio[t] <= s.prio[c]
  <2> DEFINE r == ReadyI(w, t)
  <2>1. WakeupS(s, t, msg) = r
    BY <1>4 DEF WakeupS, w, c
  <2>2. /\ r.ready = PrioInsert(s.ready, t, s.prio) /\ r.current = c /\ r.prio = s.prio
    BY <1>1 DEF ReadyI, KernelStates, c
  <2> HIDE DEF r
  <2>3. /\ Falling(PrioInsert(s.ready, t, s.prio), s.prio)
        /\ ToSet(PrioInsert(s.ready, t, s.prio)) = ToSet(s.ready) \cup {t}
    BY <1>2, PrioInsertedFalling, PrioInsertedQueue DEF Sorted, Queue
  <2>4. \A x \in ToSet(s.ready) : s.prio[x] <= s.prio[c]
    BY <1>2, <1>3, <1>4
  <2>5. QED
    BY <1>4, <2>1, <2>2, <2>3, <2>4 DEF Ordered, Sorted, TopRuns
<1>5. CASE ~(s.prio[t] <= s.prio[c])
  <2>1. WakeupS(s, t, msg) = p
    BY <1>5 DEF WakeupS, w, c
  <2>2. /\ p.ready = PrioInsert(s.ready, c, s.prio) /\ p.current = t /\ p.prio = s.prio
    BY <1>1 DEF ReadyI, KernelStates
  <2> HIDE DEF p
  <2>3. /\ Falling(PrioInsert(s.ready, c, s.prio), s.prio)
        /\ ToSet(PrioInsert(s.ready, c, s.prio)) = ToSet(s.ready) \cup {c}
    BY <1>2, PrioInsertedFalling, PrioInsertedQueue DEF Sorted, Queue
  <2>4. s.prio[c] <= s.prio[t] /\ \A x \in ToSet(s.ready) : s.prio[x] <= s.prio[t]
    BY <1>2, <1>3, <1>5
  <2>5. QED
    BY <2>1, <2>2, <2>3, <2>4 DEF Ordered, Sorted, TopRuns
<1>6. QED
  BY <1>4, <1>5 DEF c

-----------------------------------------------------------------------------
(* The folds of the timers: the callbacks of those that fire, and the sum   *)
(* of the deltas.                                                           *)

WakeUp(base, q) == FoldLeft(LAMBDA r, e : Wakeup(r, e.par), base, q)
Sum(q) == FoldLeft(LAMBDA sum, e : sum + e.time, 0, q)

LEMMA WakeupOrders ==
    ASSUME NEW U, NEW C, NEW s \in KernelStates(U, C), NEW t \in Threads, NEW msg \in U,
           PlacedBut(s, t), s.state[s.current] = "CURRENT", Ordered(s)
    PROVE  Ordered(WakeupS(s, t, msg))
<1>1. Sorted(s) /\ NoneAbove(s, t)
  BY DEF Ordered, TopRuns, NoneAbove
<1>2. QED
  BY <1>1, WakeupTops

LEMMA WakeAll ==
    ASSUME NEW R, NEW E, NEW q \in Seq(E), NEW base \in R,
           \A r \in R, i \in 1..Len(q) : Wakeup(r, q[i].par) \in R
    PROVE  WakeUp(base, q) \in R
<1> DEFINE n == Len(q)
           st == [p \in R \X (1..n) |-> Wakeup(p[1], q[p[2]].par)]
           Def(f) == f = [s \in SUBSET DOMAIN q |->
                            IF s = {} THEN base ELSE Wakeup(f[s \ {Max(s)}], q[Max(s)].par)]
           iter == CHOOSE f : Def(f)
           Rs == [m \in 0..n |-> R]
<1>1. n \in Nat /\ DOMAIN q = 1..n
  BY LenProperties
<1>2. st \in [R \X (1..n) -> R]
  OBVIOUS
<1>3. PICK g : Folds(g, R, st, base, n)
  BY <1>1, <1>2, FoldExists
<1>4. Def(g)
  <2>1. ASSUME NEW s \in SUBSET (1..n), s # {} PROVE Max(s) \in 1..n /\ s \ {Max(s)} \in SUBSET (1..n)
    BY <2>1, <1>1, MaxIn
  <2>2. ASSUME NEW s \in SUBSET (1..n), s # {} PROVE g[s] = Wakeup(g[s \ {Max(s)}], q[Max(s)].par)
    <3>1. g[s \ {Max(s)}] \in R
      BY <1>3, <2>1, <2>2 DEF Folds
    <3>2. g[s] = st[<<g[s \ {Max(s)}], Max(s)>>]
      BY <1>3, <2>2 DEF Folds
    <3>3. QED
      BY <2>1, <2>2, <3>1, <3>2
  <2>3. g[{}] = base
    BY <1>3 DEF Folds
  <2>4. g = [s \in SUBSET (1..n) |-> g[s]]
    BY <1>3 DEF Folds
  <2>5. QED
    BY <1>1, <2>2, <2>3, <2>4
<1>5. Def(iter)
  BY <1>4
<1>6. WakeUp(base, q) = iter[DOMAIN q]
  BY DEF WakeUp, FoldLeft, MapThenFoldSet
<1> HIDE DEF iter
<1>7. ASSUME NEW m \in 1..n, iter[1..(m - 1)] \in R PROVE iter[1..m] \in R
  <2>1. Max(1..m) = m /\ (1..m) \ {m} = 1..(m - 1) /\ 1..m # {} /\ 1..m \in SUBSET (1..n)
    BY <1>1, UpTo
  <2>2. iter[1..m] = Wakeup(iter[1..(m - 1)], q[m].par)
    BY <1>1, <1>5, <2>1
  <2>3. QED
    BY <1>7, <2>2
<1>8. iter[{}] = base
  BY <1>5
<1>9. iter[1..n] \in R
  <2>1. iter[{}] \in Rs[0]
    BY <1>1, <1>8
  <2>2. \A m \in 1..n : iter[1..(m - 1)] \in Rs[m - 1] => iter[1..m] \in Rs[m]
    BY <1>1, <1>7
  <2> HIDE DEF Rs
  <2>3. iter[1..n] \in Rs[n]
    BY <1>1, <2>1, <2>2, Chain
  <2>4. QED
    BY <1>1, <2>3 DEF Rs
<1>10. QED
  BY <1>1, <1>6, <1>9

LEMMA SumIsInt ==
    ASSUME NEW E, NEW q \in Seq(E), \A i \in 1..Len(q) : q[i].time \in Int
    PROVE  Sum(q) \in Int
<1> DEFINE n == Len(q)
           st == [p \in Int \X (1..n) |-> p[1] + q[p[2]].time]
           Def(f) == f = [s \in SUBSET DOMAIN q |->
                            IF s = {} THEN 0 ELSE f[s \ {Max(s)}] + q[Max(s)].time]
           iter == CHOOSE f : Def(f)
           Rs == [m \in 0..n |-> Int]
<1>1. n \in Nat /\ DOMAIN q = 1..n
  BY LenProperties
<1>2. st \in [Int \X (1..n) -> Int]
  OBVIOUS
<1>3. PICK g : Folds(g, Int, st, 0, n)
  <2>1. n \in Nat /\ 0 \in Int
    BY <1>1
  <2> HIDE DEF n, st
  <2>2. QED
    BY <1>2, <2>1, FoldExists
<1>4. Def(g)
  <2>1. ASSUME NEW s \in SUBSET (1..n), s # {} PROVE Max(s) \in 1..n /\ s \ {Max(s)} \in SUBSET (1..n)
    BY <2>1, <1>1, MaxIn
  <2>2. ASSUME NEW s \in SUBSET (1..n), s # {} PROVE g[s] = g[s \ {Max(s)}] + q[Max(s)].time
    <3>1. g[s \ {Max(s)}] \in Int
      BY <1>3, <2>1, <2>2 DEF Folds
    <3>2. g[s] = st[<<g[s \ {Max(s)}], Max(s)>>]
      BY <1>3, <2>2 DEF Folds
    <3>3. QED
      BY <2>1, <2>2, <3>1, <3>2
  <2>3. g[{}] = 0
    BY <1>3 DEF Folds
  <2>4. g = [s \in SUBSET (1..n) |-> g[s]]
    BY <1>3 DEF Folds
  <2>5. QED
    BY <1>1, <2>2, <2>3, <2>4
<1>5. Def(iter)
  BY <1>4
<1>6. Sum(q) = iter[DOMAIN q]
  BY DEF Sum, FoldLeft, MapThenFoldSet
<1> HIDE DEF iter
<1>7. ASSUME NEW m \in 1..n, iter[1..(m - 1)] \in Int PROVE iter[1..m] \in Int
  <2>1. Max(1..m) = m /\ (1..m) \ {m} = 1..(m - 1) /\ 1..m # {} /\ 1..m \in SUBSET (1..n)
    BY <1>1, UpTo
  <2>2. iter[1..m] = iter[1..(m - 1)] + q[m].time
    BY <1>1, <1>5, <2>1
  <2>3. QED
    BY <1>7, <2>2
<1>8. iter[{}] = 0
  BY <1>5
<1>9. iter[1..n] \in Int
  <2>1. iter[{}] \in Rs[0]
    BY <1>1, <1>8
  <2>2. \A m \in 1..n : iter[1..(m - 1)] \in Rs[m - 1] => iter[1..m] \in Rs[m]
    BY <1>1, <1>7
  <2> HIDE DEF Rs
  <2>3. iter[1..n] \in Rs[n]
    BY <1>1, <2>1, <2>2, Chain
  <2>4. QED
    BY <1>1, <2>3 DEF Rs
<1>10. QED
  BY <1>1, <1>6, <1>9

LEMMA TicksAreInt ==
    ASSUME NEW E, NEW q \in Seq(E), \A i \in 1..Len(q) : q[i].time \in Int,
           NEW i \in 1..(Len(q) + 1)
    PROVE  TicksBefore(q, i) \in Int
<1> DEFINE p == SubSeq(q, 1, i - 1)
<1>1. p \in Seq(E) /\ Len(p) = i - 1 /\ \A j \in 1..(i - 1) : p[j] = q[j]
  OBVIOUS
<1>2. \A j \in 1..Len(p) : p[j].time \in Int
  BY <1>1
<1>3. TicksBefore(q, i) = Sum(p)
  BY DEF TicksBefore, Sum
<1> HIDE DEF p
<1>4. QED
  BY <1>1, <1>2, <1>3, SumIsInt

\* What is left when a timer and all behind it are taken from the list
LEMMA SumGrows ==
    ASSUME NEW E, NEW q \in Seq(E), \A i \in 1..Len(q) : q[i].time \in Int,
           NEW p \in Seq(E), Len(q) = Len(p) + 1, \A i \in 1..Len(p) : p[i] = q[i]
    PROVE  Sum(q) = Sum(p) + q[Len(q)].time
<1> DEFINE n == Len(q)
           Def(f, r) == f = [s \in SUBSET DOMAIN r |->
                               IF s = {} THEN 0 ELSE f[s \ {Max(s)}] + r[Max(s)].time]
           F(r) == CHOOSE f : Def(f, r)
           st(r) == [x \in Int \X (1..Len(r)) |-> x[1] + r[x[2]].time]
<1>1. /\ n \in Nat /\ Len(p) \in Nat /\ Len(p) = n - 1 /\ n >= 1
      /\ DOMAIN q = 1..n /\ DOMAIN p = 1..(n - 1)
      /\ \A i \in 1..(n - 1) : i \in 1..n /\ p[i] = q[i]
  BY LenProperties
<1>2. ASSUME NEW r \in Seq(E), \A i \in 1..Len(r) : r[i].time \in Int
      PROVE  Def(F(r), r)
  <2> DEFINE m == Len(r)
  <2>1. m \in Nat /\ 0 \in Int /\ DOMAIN r = 1..m
    BY LenProperties
  <2>2. st(r) \in [Int \X (1..m) -> Int]
    BY <1>2
  <2> HIDE DEF m, st
  <2>3. PICK g : Folds(g, Int, st(r), 0, m)
    BY <2>1, <2>2, FoldExists
  <2>4. ASSUME NEW s \in SUBSET (1..m), s # {} PROVE Max(s) \in 1..m /\ s \ {Max(s)} \in SUBSET (1..m)
    BY <2>1, <2>4, MaxIn
  <2>5. ASSUME NEW s \in SUBSET (1..m), s # {} PROVE g[s] = g[s \ {Max(s)}] + r[Max(s)].time
    <3>1. g[s \ {Max(s)}] \in Int
      BY <2>3, <2>4, <2>5 DEF Folds
    <3>2. g[s] = st(r)[<<g[s \ {Max(s)}], Max(s)>>]
      BY <2>3, <2>5 DEF Folds
    <3>3. QED
      BY <2>4, <2>5, <3>1, <3>2 DEF st, m
  <2>6. g[{}] = 0
    BY <2>3 DEF Folds
  <2>7. g = [s \in SUBSET (1..m) |-> g[s]]
    BY <2>3 DEF Folds
  <2>8. Def(g, r)
    BY <2>1, <2>5, <2>6, <2>7
  <2>9. QED
    BY <2>8
<1>3. Def(F(q), q) /\ Def(F(p), p)
  <2>1. \A i \in 1..Len(p) : p[i].time \in Int
    BY <1>1
  <2>2. QED
    BY <1>2, <2>1
<1>4. Sum(q) = F(q)[1..n] /\ Sum(p) = F(p)[1..(n - 1)]
  BY <1>1 DEF Sum, FoldLeft, MapThenFoldSet
<1> HIDE DEF F
<1>5. ASSUME NEW r \in {p, q}, NEW m \in 1..Len(r)
      PROVE  F(r)[1..m] = F(r)[1..(m - 1)] + r[m].time
  <2>1. Max(1..m) = m /\ (1..m) \ {m} = 1..(m - 1) /\ 1..m # {} /\ 1..m \in SUBSET (1..Len(r))
    BY <1>1, UpTo
  <2>2. DOMAIN r = 1..Len(r) /\ Def(F(r), r)
    BY <1>1, <1>3
  <2>3. PICK f : f = F(r)
    OBVIOUS
  <2>4. f = [s \in SUBSET DOMAIN r |-> IF s = {} THEN 0 ELSE f[s \ {Max(s)}] + r[Max(s)].time]
    BY <2>2, <2>3
  <2>5. 1..m \in SUBSET DOMAIN r
    BY <2>1, <2>2
  <2>6. f[1..m] = f[(1..m) \ {Max(1..m)}] + r[Max(1..m)].time
    <3> HIDE <2>3
    <3>1. f[1..m] = IF 1..m = {} THEN 0 ELSE f[(1..m) \ {Max(1..m)}] + r[Max(1..m)].time
      BY <2>4, <2>5
    <3>2. QED
      BY <2>1, <3>1
  <2>7. QED
    BY <2>1, <2>3, <2>6
<1>6. F(p)[{}] = 0 /\ F(q)[{}] = 0
  BY <1>3
<1>7. F(p)[1..(n - 1)] = F(q)[1..(n - 1)]
  <2> DEFINE T == {m \in 0..(n - 1) : F(p)[1..m] # F(q)[1..m]}
  <2> SUFFICES ASSUME T # {} PROVE FALSE
    BY <1>1
  <2>1. PICK x \in T : \A y \in T : x <= y
    <3>1. T \in SUBSET Nat
      OBVIOUS
    <3>2. QED
      BY <3>1, Least
  <2>2. x # 0
    <3>1. 1..0 = {}
      OBVIOUS
    <3>2. QED
      BY <1>6, <3>1
  <2>3. x - 1 \in 0..(n - 1) /\ x \in 1..(n - 1) /\ x - 1 \notin T
    BY <1>1, <2>1, <2>2
  <2>4. F(p)[1..x] = F(p)[1..(x - 1)] + p[x].time /\ F(q)[1..x] = F(q)[1..(x - 1)] + q[x].time
    BY <1>1, <1>5, <2>3
  <2>5. QED
    BY <1>1, <2>3, <2>4
<1>8. F(q)[1..n] = F(q)[1..(n - 1)] + q[n].time
  BY <1>1, <1>5
<1>9. QED
  BY <1>4, <1>7, <1>8

\* The ticks before a timer: none before the first, then the deltas add up.
LEMMA TicksAddUp ==
    ASSUME NEW E, NEW q \in Seq(E), \A i \in 1..Len(q) : q[i].time \in Int
    PROVE  /\ TicksBefore(q, 1) = 0
           /\ \A i \in 1..Len(q) : TicksBefore(q, i + 1) = TicksBefore(q, i) + q[i].time
<1>1. Len(q) \in Nat
  BY LenProperties
<1>2. TicksBefore(q, 1) = 0
  <2>1. SubSeq(q, 1, 1 - 1) = <<>>
    BY <1>1
  <2>2. TicksBefore(q, 1) = Sum(<<>>)
    BY <2>1 DEF TicksBefore, Sum
  <2>3. QED
    <3> DEFINE Def(f) == f = [s \in SUBSET DOMAIN <<>> |->
                                IF s = {} THEN 0 ELSE f[s \ {Max(s)}] + <<>>[Max(s)].time]
               g == [s \in SUBSET DOMAIN <<>> |-> 0]
    <3>1. DOMAIN <<>> = {} /\ SUBSET DOMAIN <<>> = {{}}
      OBVIOUS
    <3>2. Def(g)
      BY <3>1
    <3>3. Def(CHOOSE f : Def(f))
      BY <3>2
    <3>4. Sum(<<>>) = (CHOOSE f : Def(f))[DOMAIN <<>>]
      BY DEF Sum, FoldLeft, MapThenFoldSet
    <3>5. QED
      BY <2>2, <3>1, <3>3, <3>4
<1>3. ASSUME NEW i \in 1..Len(q)
      PROVE  TicksBefore(q, i + 1) = TicksBefore(q, i) + q[i].time
  <2> DEFINE a == SubSeq(q, 1, i)
             b == SubSeq(q, 1, i - 1)
  <2>1. a \in Seq(E) /\ Len(a) = i /\ \A j \in 1..i : a[j] = q[j]
    BY <1>1
  <2>2. b \in Seq(E) /\ Len(b) = i - 1 /\ \A j \in 1..(i - 1) : b[j] = q[j]
    BY <1>1
  <2>3. TicksBefore(q, i + 1) = Sum(a) /\ TicksBefore(q, i) = Sum(b)
    <3>1. (i + 1) - 1 = i
      OBVIOUS
    <3>2. QED
      BY <3>1 DEF TicksBefore, Sum
  <2> HIDE DEF a, b
  <2>4. /\ Len(a) = Len(b) + 1 /\ \A j \in 1..Len(b) : b[j] = a[j]
        /\ \A j \in 1..Len(a) : a[j].time \in Int
    <3>1. i \in Nat /\ i >= 1 /\ i <= Len(q)
      BY <1>1
    <3>2. Len(a) = Len(b) + 1
      BY <2>1, <2>2, <3>1
    <3>3. ASSUME NEW j \in 1..Len(b) PROVE b[j] = a[j]
      <4>1. j \in 1..(i - 1) /\ j \in 1..i
        BY <2>2, <3>1
      <4>2. QED
        BY <2>1, <2>2, <4>1
    <3>4. ASSUME NEW j \in 1..Len(a) PROVE a[j].time \in Int
      <4>1. j \in 1..i /\ j \in 1..Len(q)
        BY <1>1, <2>1, <3>1
      <4>2. QED
        BY <2>1, <4>1
    <3>5. QED
      BY <3>2, <3>3, <3>4
  <2>5. Sum(a) = Sum(b) + a[Len(a)].time
    BY <2>1, <2>2, <2>4, SumGrows
  <2>6. a[Len(a)] = q[i]
    BY <1>1, <2>1
  <2>7. QED
    BY <2>3, <2>5, <2>6
<1>4. QED
  BY <1>2, <1>3

-----------------------------------------------------------------------------
(* The timers: whose they are, in the order of the list.                    *)

Timers == [par : Threads, time : Int]
Pars(vt) == [i \in DOMAIN vt |-> vt[i].par]

LEMMA ParsOfTimers ==
    ASSUME NEW vt \in Seq(Timers)
    PROVE  /\ Len(vt) \in Nat /\ DOMAIN vt = 1..Len(vt)
           /\ Pars(vt) \in Seq(Threads) /\ Len(Pars(vt)) = Len(vt)
           /\ \A i \in 1..Len(vt) : /\ vt[i] \in Timers /\ Pars(vt)[i] = vt[i].par
                                    /\ vt[i].par \in Threads /\ vt[i].time \in Int
<1>1. Len(vt) \in Nat /\ DOMAIN vt = 1..Len(vt) /\ \A i \in 1..Len(vt) : vt[i] \in Timers
  BY LenProperties, ElementOfSeq
<1>2. Pars(vt) = [i \in 1..Len(vt) |-> vt[i].par]
  BY <1>1 DEF Pars
<1>3. \A i \in 1..Len(vt) : vt[i].par \in Threads /\ vt[i].time \in Int
  BY <1>1 DEF Timers
<1>4. QED
  BY <1>1, <1>2, <1>3

LEMMA SamePars ==
    ASSUME NEW a \in Seq(Timers), NEW b \in Seq(Threads), Len(a) = Len(b),
           \A i \in 1..Len(b) : a[i].par = b[i]
    PROVE  Pars(a) = b
<1>1. Pars(a) \in Seq(Threads) /\ Len(Pars(a)) = Len(b) /\ \A i \in 1..Len(b) : Pars(a)[i] = b[i]
  BY ParsOfTimers
<1>2. QED
  BY <1>1, SeqEqual

LEMMA ArmedIsPar ==
    ASSUME NEW s, s.vt \in Seq(Timers), NEW t
    PROVE  Armed(s, t) <=> t \in ToSet(Pars(s.vt))
<1>1. /\ DOMAIN s.vt = 1..Len(s.vt) /\ Pars(s.vt) \in Seq(Threads) /\ Len(Pars(s.vt)) = Len(s.vt)
      /\ \A i \in 1..Len(s.vt) : Pars(s.vt)[i] = s.vt[i].par
  BY ParsOfTimers
<1>2. t \in ToSet(Pars(s.vt)) <=> \E i \in 1..Len(s.vt) : Pars(s.vt)[i] = t
  BY <1>1, QueueSet
<1>3. QED
  BY <1>1, <1>2 DEF Armed

LEMMA SuffixQueue ==
    ASSUME NEW S, NEW q, Queue(q, S), NEW n \in 0..Len(q)
    PROVE  /\ Queue(SubSeq(q, n + 1, Len(q)), S)
           /\ ToSet(SubSeq(q, n + 1, Len(q))) \subseteq ToSet(q)
<1> DEFINE r == SubSeq(q, n + 1, Len(q))
<1>1. q \in Seq(S) /\ Len(q) \in Nat
  BY LenProperties DEF Queue
<1>2. r \in Seq(S) /\ Len(r) = Len(q) - n /\ \A i \in 1..(Len(q) - n) : r[i] = q[n + i]
  BY <1>1
<1> HIDE DEF r
<1>3. /\ DOMAIN q = 1..Len(q) /\ DOMAIN r = 1..(Len(q) - n)
      /\ \A e : e \in ToSet(q) <=> \E i \in 1..Len(q) : q[i] = e
      /\ \A e : e \in ToSet(r) <=> \E i \in 1..(Len(q) - n) : r[i] = e
  BY <1>1, <1>2, QueueSet
<1>4. \A i \in 1..(Len(q) - n) : n + i \in 1..Len(q)
  BY <1>1
<1>5. IsInjective(r)
  <2>1. \A i, j \in 1..(Len(q) - n) : r[i] = r[j] => i = j
    <3>1. \A i, j \in 1..Len(q) : q[i] = q[j] => i = j
      BY <1>3 DEF Queue, IsInjective
    <3>2. QED
      BY <1>1, <1>2, <1>4, <3>1
  <2>2. QED
    BY <1>3, <2>1 DEF IsInjective
<1>6. QED
  BY <1>2, <1>3, <1>4, <1>5 DEF Queue, r

LEMMA TimerChanged ==
    ASSUME NEW e \in Timers, NEW d \in Int
    PROVE  /\ [e EXCEPT !.time = @ - d] \in Timers /\ [e EXCEPT !.time = @ - d].par = e.par
           /\ [e EXCEPT !.time = @ + d] \in Timers /\ [e EXCEPT !.time = @ + d].par = e.par
  BY DEF Timers

LEMMA FunctionIsSeq ==
    ASSUME NEW S, NEW n \in Nat, NEW f \in [1..n -> S]
    PROVE  f \in Seq(S) /\ Len(f) = n
  OBVIOUS

\* A set of places that holds the first, and with each the next, holds all.
LEMMA AllPlaces ==
    ASSUME NEW n \in Nat, NEW P \in SUBSET (1..n), n > 0 => 1 \in P,
           \A i \in 2..n : i - 1 \in P => i \in P
    PROVE  P = 1..n
<1> DEFINE T == (1..n) \ P
<1> SUFFICES ASSUME T # {} PROVE FALSE
  OBVIOUS
<1>1. T \in SUBSET Nat
  OBVIOUS
<1> HIDE DEF T
<1>2. PICK x \in T : \A y \in T : x <= y
  BY <1>1, Least
<1>3. x \in 1..n /\ x \notin P /\ x # 1 /\ x - 1 \in 1..n
  BY <1>2 DEF T
<1>4. x - 1 \in P
  BY <1>2, <1>3 DEF T
<1>5. QED
  BY <1>3, <1>4

\* The ticks left to the i-th timer of the list: what its delta adds to those
\* left to the timer before it.
Due(s, i) == IF i = 0 THEN 0 ELSE s.due[s.vt[i].par]
OnTime(s) ==
    /\ \A i \in 1..Len(s.vt) : s.vt[i].time >= 0 /\ Due(s, i) = Due(s, i - 1) + s.vt[i].time
    /\ Len(s.vt) > 0 => s.vt[1].time > 0

TimerState(s) == s.vt \in Seq(Timers) /\ s.due \in [Threads -> Int] /\ Queue(Pars(s.vt), Threads)

LEMMA TimerFacts ==
    ASSUME NEW s, TimerState(s)
    PROVE  /\ Len(s.vt) \in Nat
           /\ \A i \in 1..Len(s.vt) : /\ s.vt[i].par \in Threads /\ s.vt[i].time \in Int
                                      /\ Due(s, i) = s.due[s.vt[i].par]
           /\ \A i \in 0..Len(s.vt) : Due(s, i) \in Int
           /\ Due(s, 0) = 0
           /\ \A i, j \in 1..Len(s.vt) : s.vt[i].par = s.vt[j].par => i = j
<1>1. /\ Len(s.vt) \in Nat
      /\ Pars(s.vt) \in Seq(Threads) /\ Len(Pars(s.vt)) = Len(s.vt)
      /\ \A i \in 1..Len(s.vt) : /\ Pars(s.vt)[i] = s.vt[i].par
                                 /\ s.vt[i].par \in Threads /\ s.vt[i].time \in Int
  BY ParsOfTimers DEF TimerState
<1>2. Due(s, 0) = 0 /\ \A i \in 1..Len(s.vt) : Due(s, i) = s.due[s.vt[i].par]
  BY <1>1 DEF Due
<1>3. ASSUME NEW i \in 0..Len(s.vt) PROVE Due(s, i) \in Int
  <2>1. i = 0 \/ i \in 1..Len(s.vt)
    BY <1>1
  <2>2. QED
    BY <1>1, <1>2, <2>1 DEF TimerState
<1>4. \A i, j \in 1..Len(s.vt) : s.vt[i].par = s.vt[j].par => i = j
  BY <1>1, QueueSet DEF TimerState, Queue, IsInjective
<1>5. QED
  BY <1>1, <1>2, <1>3, <1>4

LEMMA DueIsPositive ==
    ASSUME NEW s, TimerState(s), OnTime(s)
    PROVE  \A i \in 1..Len(s.vt) : Due(s, i) > 0
<1> DEFINE P == {i \in 1..Len(s.vt) : Due(s, i) > 0}
<1>1. Len(s.vt) > 0 => 1 \in P
  BY TimerFacts DEF OnTime
<1>2. ASSUME NEW i \in 2..Len(s.vt), i - 1 \in P PROVE i \in P
  <2>1. i \in 1..Len(s.vt) /\ i - 1 \in 1..Len(s.vt) /\ i - 1 \in 0..Len(s.vt)
    BY TimerFacts
  <2>2. Due(s, i) = Due(s, i - 1) + s.vt[i].time /\ s.vt[i].time >= 0 /\ s.vt[i].time \in Int
        /\ Due(s, i - 1) \in Int
    BY <2>1, TimerFacts DEF OnTime
  <2>3. QED
    BY <1>2, <2>1, <2>2
<1>3. P = 1..Len(s.vt)
  <2>1. Len(s.vt) \in Nat /\ P \in SUBSET (1..Len(s.vt))
    BY TimerFacts
  <2> HIDE DEF P
  <2>2. QED
    BY <1>1, <1>2, <2>1, AllPlaces
<1>4. QED
  BY <1>3

\* The deltas add up, as TimersOnTime says.
LEMMA OnTimeAddsUp ==
    ASSUME NEW s, TimerState(s), OnTime(s)
    PROVE  \A i \in 0..Len(s.vt) : Due(s, i) = TicksBefore(s.vt, i + 1)
<1> DEFINE n == Len(s.vt)
           P == {i \in 1..n : Due(s, i) = TicksBefore(s.vt, i + 1)}
<1>1. /\ TicksBefore(s.vt, 1) = 0
      /\ \A i \in 1..n : TicksBefore(s.vt, i + 1) = TicksBefore(s.vt, i) + s.vt[i].time
  <2>1. s.vt \in Seq(Timers) /\ \A i \in 1..n : s.vt[i].time \in Int
    BY TimerFacts DEF TimerState
  <2>2. QED
    BY <2>1, TicksAddUp
<1>2. n > 0 => 1 \in P
  BY <1>1, TimerFacts DEF OnTime
<1>3. ASSUME NEW i \in 2..n, i - 1 \in P PROVE i \in P
  <2>1. i \in 1..n /\ (i - 1) + 1 = i
    BY TimerFacts
  <2>2. Due(s, i - 1) = TicksBefore(s.vt, i)
    BY <1>3, <2>1
  <2>3. QED
    BY <1>1, <2>1, <2>2 DEF OnTime
<1>4. P = 1..n
  <2>1. n \in Nat /\ P \in SUBSET (1..n)
    BY TimerFacts
  <2> HIDE DEF P, n
  <2>2. QED
    BY <1>2, <1>3, <2>1, AllPlaces
<1>5. ASSUME NEW i \in 0..n PROVE Due(s, i) = TicksBefore(s.vt, i + 1)
  <2>1. i \in P \/ (i = 0 /\ i + 1 = 1)
    BY <1>4, TimerFacts
  <2>2. QED
    BY <1>1, <2>1, TimerFacts
<1>6. QED
  BY <1>5

\* A timer put where its time belongs, its delta taken from the next one's.
PutIn(s, t, time, at, r) ==
    /\ \A i \in 1..Len(s.vt) : s.vt[i].par # t
    /\ Due(s, at - 1) < time /\ (at <= Len(s.vt) => Due(s, at) >= time)
    /\ Len(r.vt) = Len(s.vt) + 1 /\ r.due = [s.due EXCEPT ![t] = time]
    /\ \A j \in 1..Len(s.vt) : j < at => r.vt[j] = s.vt[j]
    /\ r.vt[at].par = t /\ r.vt[at].time = time - Due(s, at - 1)
    /\ \A j \in 1..Len(s.vt) : j >= at => r.vt[j + 1].par = s.vt[j].par
    /\ at <= Len(s.vt) => r.vt[at + 1].time = s.vt[at].time - (time - Due(s, at - 1))
    /\ \A j \in 1..Len(s.vt) : j > at => r.vt[j + 1].time = s.vt[j].time

LEMMA TimerPutIn ==
    ASSUME NEW s, TimerState(s), OnTime(s), NEW t \in Threads, NEW time \in Nat \ {0},
           NEW at \in 1..(Len(s.vt) + 1), NEW r, PutIn(s, t, time, at, r)
    PROVE  OnTime(r)
<1> DEFINE n == Len(s.vt)
<1>10. /\ \A i \in 1..n : s.vt[i].par # t
       /\ \A i \in 1..n : i < at => r.vt[i] = s.vt[i]
       /\ \A i \in 1..n : i >= at => r.vt[i + 1].par = s.vt[i].par
  BY DEF PutIn
<1>11. \A i \in 1..n : i > at => r.vt[i + 1].time = s.vt[i].time
  BY DEF PutIn
<1>12. /\ Due(s, at - 1) < time /\ (at <= n => Due(s, at) >= time)
       /\ at <= n => r.vt[at + 1].time = s.vt[at].time - (time - Due(s, at - 1))
       /\ r.vt[at].par = t /\ r.vt[at].time = time - Due(s, at - 1)
  BY DEF PutIn
<1>13. Len(r.vt) = n + 1 /\ r.due = [s.due EXCEPT ![t] = time]
  BY DEF PutIn
<1>14. n \in Nat /\ at \in 1..(n + 1) /\ time \in Int
  BY TimerFacts
<1>1. /\ n \in Nat /\ at \in Nat /\ at >= 1 /\ at <= n + 1
      /\ \A i \in 1..n : /\ s.vt[i].par \in Threads /\ s.vt[i].time \in Int /\ s.vt[i].time >= 0
                         /\ Due(s, i) = s.due[s.vt[i].par]
                         /\ Due(s, i) = Due(s, i - 1) + s.vt[i].time
      /\ \A i \in 0..n : Due(s, i) \in Int
      /\ Due(s, 0) = 0 /\ (n > 0 => s.vt[1].time > 0)
  BY TimerFacts DEF OnTime
<1>2. r.due[t] = time /\ \A i \in 1..n : r.due[s.vt[i].par] = Due(s, i)
  BY <1>1, <1>10, <1>13 DEF TimerState
<1>3. Due(r, 0) = 0 /\ Due(r, at) = time
  BY <1>1, <1>2, <1>12 DEF Due
<1>4. \A j \in 1..n : j < at => Due(r, j) = Due(s, j)
  BY <1>1, <1>2, <1>10 DEF Due
<1>5. ASSUME NEW j \in 1..n, j >= at PROVE Due(r, j + 1) = Due(s, j)
  <2>1. j + 1 # 0 /\ r.vt[j + 1].par = s.vt[j].par /\ r.due[s.vt[j].par] = Due(s, j)
    BY <1>1, <1>2, <1>5, <1>10
  <2>2. Due(r, j + 1) = r.due[r.vt[j + 1].par]
    BY <2>1 DEF Due
  <2>3. QED
    BY <2>1, <2>2
<1>6. Due(r, at - 1) = Due(s, at - 1) /\ Due(s, at - 1) \in Int
  <2>1. at - 1 = 0 \/ (at - 1 \in 1..n /\ at - 1 < at)
    BY <1>1
  <2>2. QED
    BY <1>1, <1>3, <1>4, <2>1
<1>7. ASSUME NEW j \in 1..(n + 1)
      PROVE  r.vt[j].time >= 0 /\ Due(r, j) = Due(r, j - 1) + r.vt[j].time
  <2>1. CASE j < at
    <3>1. j \in 1..n /\ (j - 1 = 0 \/ (j - 1 \in 1..n /\ j - 1 < at))
      BY <1>1, <2>1
    <3>2. Due(r, j - 1) = Due(s, j - 1)
      BY <1>1, <1>3, <1>4, <3>1
    <3>3. r.vt[j] = s.vt[j] /\ Due(r, j) = Due(s, j)
      BY <1>4, <1>10, <2>1, <3>1
    <3>4. QED
      BY <1>1, <3>1, <3>2, <3>3
  <2>2. CASE j = at
    BY <1>3, <1>6, <1>12, <1>14, <2>2
  <2>3. CASE j = at + 1
    <3>1. at \in 1..n /\ at >= at /\ j - 1 = at
      BY <1>14, <2>3
    <3>2. /\ Due(r, j) = Due(s, at) /\ r.vt[j].time = s.vt[at].time - (time - Due(s, at - 1))
          /\ Due(r, j - 1) = time /\ Due(s, at) >= time /\ Due(s, at) \in Int
          /\ Due(s, at) = Due(s, at - 1) + s.vt[at].time /\ s.vt[at].time \in Int
      <4>1. at <= Len(s.vt) /\ at \in 0..n
        BY <1>14, <3>1
      <4>2. Due(r, j) = Due(s, at)
        BY <1>5, <2>3, <3>1
      <4>3. Due(s, at) = Due(s, at - 1) + s.vt[at].time /\ s.vt[at].time \in Int
        BY <1>1, <3>1
      <4>4. Due(r, j - 1) = time
        BY <1>3, <3>1
      <4>5. Due(s, at) \in Int
        BY <1>1, <4>1
      <4>6. r.vt[j].time = s.vt[at].time - (time - Due(s, at - 1)) /\ Due(s, at) >= time
        BY <1>12, <2>3, <4>1
      <4>7. QED
        BY <4>2, <4>3, <4>4, <4>5, <4>6
    <3>3. r.vt[j].time = Due(s, at) - time /\ time \in Int
      <4> DEFINE x == Due(s, at)
                 y == Due(s, at - 1)
                 z == s.vt[at].time
      <4>1. x \in Int /\ y \in Int /\ z \in Int /\ x = y + z /\ time \in Int
        BY <1>6, <1>14, <3>2
      <4>2. r.vt[j].time = z - (time - y)
        BY <3>2
      <4> HIDE DEF x, y, z
      <4>3. r.vt[j].time = x - time
        BY <4>1, <4>2
      <4>4. QED
        BY <4>3 DEF x
    <3>4. QED
      BY <3>2, <3>3
  <2>4. CASE j > at + 1
    <3> DEFINE m == j - 1
    <3>1. m \in 1..n /\ m > at /\ m - 1 \in 1..n /\ m - 1 >= at /\ (m - 1) + 1 = m /\ m + 1 = j
      BY <1>14, <2>4
    <3> HIDE DEF m
    <3>2. Due(r, m + 1) = Due(s, m) /\ Due(r, (m - 1) + 1) = Due(s, m - 1)
      BY <1>5, <3>1
    <3>3. r.vt[m + 1].time = s.vt[m].time
      BY <1>11, <3>1
    <3>4. j - 1 = m /\ j = m + 1
      BY <3>1
    <3>5. s.vt[m].time >= 0 /\ Due(s, m) = Due(s, m - 1) + s.vt[m].time
      BY <1>1, <3>1
    <3>6. Due(r, m) = Due(s, m - 1)
      BY <3>1, <3>2
    <3>7. QED
      BY <3>2, <3>3, <3>4, <3>5, <3>6
  <2>5. QED
    BY <1>14, <2>1, <2>2, <2>3, <2>4
<1>8. r.vt[1].time > 0
  <2>1. CASE at = 1
    BY <1>1, <1>6, <1>12, <2>1
  <2>2. CASE at > 1
    BY <1>1, <1>10, <2>2
  <2>3. QED
    BY <1>14, <2>1, <2>2
<1>15. QED
  BY <1>7, <1>8, <1>13 DEF OnTime

\* A timer taken out, its delta given to the next one.
LEMMA TimerTakenOut ==
    ASSUME NEW s, TimerState(s), OnTime(s), NEW at \in 1..Len(s.vt),
           NEW r, Len(r.vt) = Len(s.vt) - 1, r.due = [s.due EXCEPT ![s.vt[at].par] = 0],
           \A j \in 1..(Len(s.vt) - 1) : j < at => r.vt[j] = s.vt[j],
           at < Len(s.vt) => /\ r.vt[at].par = s.vt[at + 1].par
                             /\ r.vt[at].time = s.vt[at + 1].time + s.vt[at].time,
           \A j \in 1..(Len(s.vt) - 1) : j > at => r.vt[j] = s.vt[j + 1]
    PROVE  OnTime(r)
<1> DEFINE n == Len(s.vt)
           t == s.vt[at].par
<1>1. /\ n \in Nat /\ at \in Nat /\ at >= 1 /\ at <= n
      /\ \A i \in 1..n : /\ s.vt[i].par \in Threads /\ s.vt[i].time \in Int /\ s.vt[i].time >= 0
                         /\ Due(s, i) = s.due[s.vt[i].par]
                         /\ Due(s, i) = Due(s, i - 1) + s.vt[i].time
      /\ \A i \in 0..n : Due(s, i) \in Int
      /\ Due(s, 0) = 0 /\ s.vt[1].time > 0
  BY TimerFacts DEF OnTime
<1>2. \A i \in 1..n : i # at => r.due[s.vt[i].par] = Due(s, i)
  <2>1. \A i \in 1..n : i # at => s.vt[i].par # t
    BY <1>1, TimerFacts
  <2>2. QED
    BY <1>1, <2>1 DEF TimerState
<1>3. Due(r, 0) = 0
  BY DEF Due
<1>4. ASSUME NEW j \in 1..(n - 1), j < at PROVE Due(r, j) = Due(s, j)
  <2>1. j \in 1..n /\ j # 0 /\ j # at /\ r.vt[j] = s.vt[j]
    BY <1>1, <1>4
  <2>2. Due(r, j) = r.due[r.vt[j].par]
    BY <2>1 DEF Due
  <2>3. QED
    BY <1>1, <1>2, <2>1, <2>2
<1>5. ASSUME NEW j \in 1..(n - 1), j >= at PROVE Due(r, j) = Due(s, j + 1)
  <2>1. j # 0 /\ j + 1 \in 1..n /\ j + 1 # at /\ r.vt[j].par = s.vt[j + 1].par
    <3>1. j # 0 /\ j + 1 \in 1..n /\ j + 1 # at /\ (j = at \/ j > at) /\ at < n
      BY <1>1, <1>5
    <3>2. CASE j = at
      BY <3>1, <3>2
    <3>3. CASE j > at
      BY <3>1, <3>3
    <3>4. QED
      BY <3>1, <3>2, <3>3
  <2>2. Due(r, j) = r.due[r.vt[j].par]
    BY <2>1 DEF Due
  <2>3. QED
    BY <1>2, <2>1, <2>2
<1>6. ASSUME NEW j \in 1..(n - 1)
      PROVE  r.vt[j].time >= 0 /\ Due(r, j) = Due(r, j - 1) + r.vt[j].time
  <2>1. CASE j < at
    <3>1. j \in 1..n /\ (j - 1 = 0 \/ (j - 1 \in 1..(n - 1) /\ j - 1 < at))
      BY <1>1, <2>1
    <3>2. Due(r, j - 1) = Due(s, j - 1)
      BY <1>1, <1>3, <1>4, <3>1
    <3>3. QED
      BY <1>1, <1>4, <2>1, <3>1, <3>2
  <2>2. CASE j = at
    <3>1. at \in 1..n /\ at + 1 \in 1..n /\ (at + 1) - 1 = at /\ at < n
      BY <1>1, <2>2
    <3>2. Due(r, at - 1) = Due(s, at - 1) /\ Due(s, at - 1) \in Int
      <4>1. at - 1 = 0 \/ (at - 1 \in 1..(n - 1) /\ at - 1 < at /\ at - 1 \in 0..n)
        BY <1>1
      <4>2. QED
        BY <1>1, <1>3, <1>4, <4>1
    <3>3. /\ Due(r, at) = Due(s, at + 1) /\ r.vt[at].time = s.vt[at + 1].time + s.vt[at].time
          /\ Due(s, at + 1) = Due(s, at) + s.vt[at + 1].time /\ s.vt[at + 1].time \in Int
          /\ Due(s, at) = Due(s, at - 1) + s.vt[at].time /\ s.vt[at].time \in Int
          /\ s.vt[at].time >= 0 /\ s.vt[at + 1].time >= 0
      BY <1>1, <1>5, <2>2, <3>1
    <3> DEFINE x == s.vt[at].time
               y == s.vt[at + 1].time
               z == Due(s, at - 1)
    <3>4. /\ x \in Int /\ y \in Int /\ z \in Int /\ x >= 0 /\ y >= 0
          /\ r.vt[at].time = y + x /\ Due(r, at) = (z + x) + y /\ Due(r, at - 1) = z
      BY <3>2, <3>3
    <3> HIDE DEF x, y, z
    <3>5. QED
      BY <2>2, <3>4
  <2>3. CASE j > at
    <3>1. j - 1 \in 1..(n - 1) /\ j - 1 >= at /\ (j - 1) + 1 = j /\ (j + 1) - 1 = j /\ j + 1 \in 1..n
      BY <1>1, <2>3
    <3>2. Due(r, j) = Due(s, j + 1)
      BY <1>1, <1>5, <2>3
    <3>3. Due(r, j - 1) = Due(s, j)
      <4> DEFINE m == j - 1
      <4>1. m \in 1..(n - 1) /\ m >= at /\ m + 1 = j
        BY <3>1
      <4> HIDE DEF m
      <4>2. Due(r, m) = Due(s, m + 1)
        BY <1>5, <4>1
      <4>3. QED
        BY <4>1, <4>2 DEF m
    <3>4. r.vt[j].time = s.vt[j + 1].time
      BY <2>3
    <3>5. s.vt[j + 1].time >= 0 /\ Due(s, j + 1) = Due(s, j) + s.vt[j + 1].time
      <4> DEFINE m == j + 1
      <4>1. m \in 1..n /\ m - 1 = j
        BY <3>1
      <4> HIDE DEF m
      <4>2. s.vt[m].time >= 0 /\ Due(s, m) = Due(s, m - 1) + s.vt[m].time
        BY <1>1, <4>1
      <4>3. QED
        BY <4>1, <4>2 DEF m
    <3>6. QED
      BY <3>2, <3>3, <3>4, <3>5
  <2>4. QED
    BY <1>1, <2>1, <2>2, <2>3
<1>7. Len(r.vt) > 0 => r.vt[1].time > 0
  <2>1. CASE at = 1 /\ n > 1
    <3>1. /\ r.vt[1].time = s.vt[2].time + s.vt[1].time
          /\ s.vt[2].time \in Int /\ s.vt[2].time >= 0 /\ s.vt[1].time \in Int
      BY <1>1, <2>1
    <3>2. QED
      BY <1>1, <3>1
  <2>2. CASE at > 1 /\ n > 1
    <3>1. r.vt[1] = s.vt[1]
      BY <1>1, <2>2
    <3>2. QED
      BY <1>1, <3>1
  <2>3. CASE n = 1
    BY <2>3
  <2>4. QED
    BY <1>1, <2>1, <2>2, <2>3
<1>8. QED
  BY <1>1, <1>6, <1>7 DEF OnTime

\* A tick: the first timer loses one, those with none left are gone, and
\* everybody still in the list has a tick less to wait.
CountsDown(s, n, r) ==
    /\ n >= 1 => s.vt[1].time = 1
    /\ \A i \in 2..n : s.vt[i].time = 0
    /\ n = 0 => s.vt[1].time # 1
    /\ 0 < n /\ n < Len(s.vt) => s.vt[n + 1].time # 0
    /\ Len(r.vt) = Len(s.vt) - n
    /\ r.due = [t \in Threads |-> IF s.due[t] > 0 THEN s.due[t] - 1 ELSE 0]
    /\ \A j \in 1..(Len(s.vt) - n) : r.vt[j].par = s.vt[n + j].par
    /\ \A j \in 1..(Len(s.vt) - n) : n + j > 1 => r.vt[j].time = s.vt[n + j].time
    /\ n = 0 => r.vt[1].time = s.vt[1].time - 1

LEMMA TimersCountDown ==
    ASSUME NEW s, TimerState(s), OnTime(s), Len(s.vt) > 0, NEW n \in 0..Len(s.vt),
           NEW r, CountsDown(s, n, r)
    PROVE  OnTime(r)
<1> DEFINE m == Len(s.vt)
<1>0. m \in Nat /\ n \in Nat /\ n <= m
  BY TimerFacts
<1>1. /\ m \in Nat /\ n \in Nat /\ n <= m /\ m >= 1
      /\ \A i \in 1..m : /\ s.vt[i].par \in Threads /\ s.vt[i].time \in Int /\ s.vt[i].time >= 0
                         /\ Due(s, i) = s.due[s.vt[i].par] /\ Due(s, i) > 0
                         /\ Due(s, i) = Due(s, i - 1) + s.vt[i].time
      /\ \A i \in 0..m : Due(s, i) \in Int
      /\ Due(s, 0) = 0 /\ s.vt[1].time > 0
  <2>1. /\ m >= 1 /\ s.vt[1].time > 0
        /\ \A i \in 1..m : s.vt[i].time >= 0 /\ Due(s, i) = Due(s, i - 1) + s.vt[i].time
    BY <1>0 DEF OnTime
  <2>2. \A i \in 1..m : /\ s.vt[i].par \in Threads /\ s.vt[i].time \in Int
                         /\ Due(s, i) = s.due[s.vt[i].par]
    BY TimerFacts
  <2>3. \A i \in 1..m : Due(s, i) > 0
    BY DueIsPositive
  <2>4. (\A i \in 0..m : Due(s, i) \in Int) /\ Due(s, 0) = 0
    BY TimerFacts
  <2> HIDE DEF m
  <2>5. QED
    BY <1>0, <2>1, <2>2, <2>3, <2>4
<1>9. /\ n >= 1 => s.vt[1].time = 1
      /\ \A i \in 2..n : s.vt[i].time = 0
      /\ n = 0 => s.vt[1].time # 1
      /\ 0 < n /\ n < m => s.vt[n + 1].time # 0
      /\ Len(r.vt) = m - n
      /\ r.due = [t \in Threads |-> IF s.due[t] > 0 THEN s.due[t] - 1 ELSE 0]
      /\ \A j \in 1..(m - n) : r.vt[j].par = s.vt[n + j].par
      /\ \A j \in 1..(m - n) : n + j > 1 => r.vt[j].time = s.vt[n + j].time
      /\ n = 0 => r.vt[1].time = s.vt[1].time - 1
  BY DEF CountsDown
<1> HIDE DEF m
<1>10. n <= m /\ m \in Nat /\ n \in Nat /\ m >= 1
  BY <1>1
<1>11. \A i \in 1..m : Due(s, i) = Due(s, i - 1) + s.vt[i].time /\ s.vt[i].time \in Int
                        /\ s.vt[i].time >= 0
  BY <1>1
<1>12. \A i \in 0..m : Due(s, i) \in Int
  BY <1>1
<1>2. ASSUME NEW j \in 1..(m - n) PROVE Due(r, j) = Due(s, n + j) - 1
  <2>1. n + j \in 1..m /\ j # 0 /\ r.vt[j].par = s.vt[n + j].par
    <3>1. n + j \in 1..m /\ j # 0
      BY <1>10
    <3>2. QED
      BY <1>9, <3>1
  <2>2. Due(r, j) = r.due[s.vt[n + j].par]
    BY <2>1 DEF Due
  <2> DEFINE t == s.vt[n + j].par
  <2>3. t \in Threads /\ s.due[t] = Due(s, n + j) /\ Due(s, n + j) > 0
    BY <1>1, <2>1
  <2>4. r.due[t] = s.due[t] - 1
    <3>1. t \in Threads /\ s.due[t] > 0
      BY <2>3
    <3> HIDE DEF t
    <3>2. QED
      BY <1>9, <3>1
  <2>5. QED
    BY <2>2, <2>3, <2>4
<1>3. n >= 1 => Due(s, n) = 1
  <2> DEFINE P == {i \in 1..n : Due(s, i) = 1}
  <2>1. n > 0 => 1 \in P
    <3>1. Due(s, 1) = Due(s, 0) + s.vt[1].time
      BY <1>1
    <3>2. n > 0 => Due(s, 1) = 1
      BY <1>1, <1>9, <3>1
    <3>3. QED
      BY <1>1, <3>2
  <2>2. ASSUME NEW i \in 2..n, i - 1 \in P PROVE i \in P
    <3>1. i \in 1..n /\ i \in 1..m
      BY <1>10
    <3>2. s.vt[i].time = 0
      BY <1>9
    <3>3. Due(s, i - 1) = 1
      BY <2>2
    <3>4. Due(s, i) = Due(s, i - 1) + s.vt[i].time
      BY <1>11, <3>1
    <3>5. QED
      BY <3>1, <3>2, <3>3, <3>4
  <2> HIDE DEF P
  <2>3. P \in SUBSET (1..n)
    BY DEF P
  <2>4. P = 1..n
    BY <1>10, <2>1, <2>2, <2>3, AllPlaces
  <2>5. n >= 1 => n \in P
    BY <1>10, <2>4
  <2>6. QED
    BY <2>5 DEF P
<1>4. ASSUME NEW j \in 1..(m - n)
      PROVE  /\ r.vt[j].time >= 0 /\ Due(r, j) = Due(r, j - 1) + r.vt[j].time
             /\ j = 1 => r.vt[j].time > 0
  <2> DEFINE i == n + j
  <2>1. i \in 1..m /\ i = n + j /\ i \in Nat /\ j \in Nat
    BY <1>10
  <2>2. /\ Due(r, j) = Due(s, i) - 1 /\ Due(s, i) = Due(s, i - 1) + s.vt[i].time
        /\ s.vt[i].time \in Int /\ s.vt[i].time >= 0 /\ Due(s, i) \in Int
    <3>1. Due(r, j) = Due(s, i) - 1
      BY <1>2
    <3> HIDE DEF i
    <3>2. i \in 0..m
      BY <1>10, <2>1
    <3>3. Due(s, i) \in Int
      BY <1>12, <3>2
    <3>4. QED
      BY <1>11, <2>1, <3>1, <3>3
  <2>3. i > 1 => r.vt[j].time = s.vt[i].time
    BY <1>9
  <2>8. n = 0 \/ n > 0
    BY <1>0
  <2> HIDE DEF i
  <2>4. CASE j = 1 /\ n = 0
    <3>1. i = 1 /\ r.vt[1].time = s.vt[1].time - 1 /\ s.vt[1].time # 1 /\ s.vt[1].time > 0
      BY <1>1, <1>9, <2>1, <2>4
    <3>2. Due(r, j - 1) = 0 /\ Due(s, i - 1) = 0
      <4>1. Due(r, 0) = 0 /\ Due(s, 0) = 0 /\ i - 1 = 0 /\ j - 1 = 0
        BY <2>1, <2>4, <3>1 DEF Due
      <4>2. QED
        BY <4>1
    <3> DEFINE x == Due(s, i)
               z == s.vt[i].time
    <3>3. /\ x \in Int /\ z \in Int /\ x = z /\ z > 1
          /\ Due(r, j) = x - 1 /\ r.vt[j].time = z - 1
      <4>1. x = 0 + z /\ x \in Int /\ z \in Int /\ Due(r, j) = x - 1
        BY <2>2, <3>2
      <4>2. z > 0 /\ z # 1 /\ r.vt[j].time = z - 1
        BY <2>4, <3>1
      <4> HIDE DEF x, z
      <4>3. QED
        BY <4>1, <4>2
    <3> HIDE DEF x, z
    <3> DEFINE a == Due(r, j)
               b == Due(r, j - 1)
               d == r.vt[j].time
    <3>4. a = x - 1 /\ b = 0 /\ d = z - 1 /\ x = z /\ z > 1 /\ x \in Int /\ z \in Int
      BY <3>2, <3>3
    <3> HIDE DEF a, b, d
    <3>5. d >= 0 /\ a = b + d /\ d > 0
      BY <3>4
    <3>6. QED
      BY <3>5 DEF a, b, d
  <2>5. CASE j = 1 /\ n > 0
    <3>1. i = n + 1 /\ i > 1 /\ i - 1 = n /\ j - 1 = 0 /\ n < m
      BY <1>10, <2>1, <2>5
    <3>2. Due(r, 0) = 0 /\ Due(s, n) = 1 /\ s.vt[i].time # 0
      BY <1>1, <1>3, <1>9, <2>5, <3>1 DEF Due
    <3> DEFINE a == Due(r, j)
               b == Due(r, j - 1)
               d == r.vt[j].time
               z == s.vt[i].time
               x == Due(s, i)
    <3>3. /\ a = x - 1 /\ b = 0 /\ d = z /\ x = 1 + z /\ z >= 0 /\ z # 0
          /\ x \in Int /\ z \in Int
      <4>1. b = 0 /\ Due(s, i - 1) = 1
        BY <3>1, <3>2
      <4>2. QED
        BY <2>2, <2>3, <3>1, <3>2, <4>1
    <3> HIDE DEF a, b, d, x, z
    <3>4. d >= 0 /\ a = b + d /\ d > 0
      BY <3>3
    <3>5. QED
      BY <3>4 DEF a, b, d
  <2>6. CASE j > 1
    <3> DEFINE p == j - 1
    <3>1. p \in 1..(m - n) /\ n + p = i - 1 /\ i > 1 /\ i - 1 \in 0..m
      BY <1>0, <2>1, <2>6
    <3> HIDE DEF p
    <3>2. Due(r, p) = Due(s, i - 1) - 1
      BY <1>2, <3>1
    <3>3. Due(r, j - 1) = Due(s, i - 1) - 1 /\ Due(s, i - 1) \in Int
      BY <1>1, <3>1, <3>2 DEF p
    <3>4. r.vt[j].time = s.vt[i].time /\ j # 1
      BY <2>1, <2>3, <2>6, <3>1
    <3> DEFINE x == Due(s, i)
               y == Due(s, i - 1)
               z == s.vt[i].time
    <3>5. /\ x \in Int /\ y \in Int /\ z \in Int /\ x = y + z /\ z >= 0
          /\ Due(r, j) = x - 1 /\ Due(r, j - 1) = y - 1 /\ r.vt[j].time = z
      BY <2>2, <3>3, <3>4
    <3> HIDE DEF x, y, z
    <3>6. QED
      BY <3>4, <3>5
  <2>7. QED
    BY <2>1, <2>4, <2>5, <2>6, <2>8
<1>5. Len(r.vt) = m - n
  BY <1>9
<1>6. QED
  BY <1>1, <1>4, <1>5 DEF OnTime

\* What setting and taking back a timer leaves alone.
Unmoved(s, r) ==
    /\ r.current = s.current /\ r.ready = s.ready /\ r.state = s.state /\ r.u = s.u
    /\ r.queue = s.queue /\ r.cnt = s.cnt /\ r.prio = s.prio

LEMMA UnmovedPlaces ==
    ASSUME NEW s, NEW r, Unmoved(s, r)
    PROVE  /\ Placed(s) => Placed(r)
           /\ \A t \in Threads : Runs(r, t) <=> Runs(s, t)
  BY DEF Unmoved, Placed, QueuesSound, ThreadPlaced, Runs

LEMMA SetTimer ==
    ASSUME NEW U, NEW C, NEW s \in KernelStates(U, C), Queue(Pars(s.vt), Threads),
           NEW t \in Threads, ~Armed(s, t), NEW time \in Int
    PROVE  /\ VTSetI(s, t, time) \in KernelStates(U, C) /\ Unmoved(s, VTSetI(s, t, time))
           /\ Queue(Pars(VTSetI(s, t, time).vt), Threads)
           /\ \A x \in Threads : Armed(VTSetI(s, t, time), x) <=> (Armed(s, x) \/ x = t)
           /\ OnTime(s) /\ time > 0 => OnTime(VTSetI(s, t, time))
<1> DEFINE later == {i \in DOMAIN s.vt : TicksBefore(s.vt, i + 1) >= time}
           at    == IF later = {} THEN Len(s.vt) + 1 ELSE Min(later)
           delta == time - TicksBefore(s.vt, at)
           new   == [par |-> t, time |-> delta]
           next  == [i \in DOMAIN s.vt |->
                        IF i = at THEN [s.vt[i] EXCEPT !.time = @ - delta] ELSE s.vt[i]]
           vt    == InsertAt(next, at, new)
           r     == VTSetI(s, t, time)
<1>1. s.vt \in Seq(Timers)
  BY DEF KernelStates, Timers
<1>2. /\ Len(s.vt) \in Nat /\ DOMAIN s.vt = 1..Len(s.vt)
      /\ Pars(s.vt) \in Seq(Threads) /\ Len(Pars(s.vt)) = Len(s.vt)
      /\ \A i \in 1..Len(s.vt) : /\ s.vt[i] \in Timers /\ Pars(s.vt)[i] = s.vt[i].par
                                 /\ s.vt[i].par \in Threads /\ s.vt[i].time \in Int
  BY <1>1, ParsOfTimers
<1>3. at \in 1..(Len(s.vt) + 1)
  <2>1. later \in SUBSET DOMAIN s.vt
    OBVIOUS
  <2> HIDE DEF later
  <2>2. QED
    BY <1>1, <2>1, InsertedSomewhere
<1>20. /\ at <= Len(s.vt) => TicksBefore(s.vt, at + 1) >= time
       /\ at > 1 => ~(TicksBefore(s.vt, at) >= time)
  <2>1. later \in SUBSET (1..Len(s.vt))
    BY <1>2
  <2>2. \A i \in 1..Len(s.vt) : i \in later <=> TicksBefore(s.vt, i + 1) >= time
    BY <1>2
  <2> HIDE DEF later
  <2>3. /\ later # {} => Min(later) \in later
        /\ \A i \in 1..Len(s.vt) : i < at => i \notin later
    BY <1>2, <2>1, FirstPlace
  <2>4. at <= Len(s.vt) => at \in later /\ at \in 1..Len(s.vt)
    <3>1. later = {} => at = Len(s.vt) + 1
      OBVIOUS
    <3>2. later # {} => at \in later
      BY <2>3
    <3>3. Len(s.vt) \in Nat
      BY <1>2
    <3> HIDE DEF at, delta, new, next, vt, r
    <3>4. at <= Len(s.vt) => later # {}
      BY <3>1, <3>3
    <3>5. QED
      BY <2>1, <3>2, <3>4
  <2> HIDE DEF at
  <2>5. at > 1 => at - 1 \in 1..Len(s.vt) /\ at - 1 < at /\ (at - 1) + 1 = at
    BY <1>2, <1>3
  <2>6. QED
    BY <2>2, <2>3, <2>4, <2>5
<1>4. r = [s EXCEPT !.vt = vt, !.due[t] = time]
  BY DEF VTSetI
<1> HIDE DEF at, later, r
<1>21. delta = time - TicksBefore(s.vt, at)
  OBVIOUS
<1>5. delta \in Int
  <2>1. TicksBefore(s.vt, at) \in Int
    BY <1>1, <1>2, <1>3, TicksAreInt
  <2>2. QED
    BY <2>1
<1> HIDE DEF delta
<1>6. new \in Timers /\ new.par = t /\ new.time = delta
  BY <1>5 DEF Timers
<1> HIDE DEF new
<1>22. ASSUME NEW i \in 1..Len(s.vt)
       PROVE  IF i = at THEN next[i].time = s.vt[i].time - delta ELSE next[i] = s.vt[i]
  <2>1. next[i] = IF i = at THEN [s.vt[i] EXCEPT !.time = @ - delta] ELSE s.vt[i]
    BY <1>2
  <2> DEFINE e == s.vt[i]
  <2>2. e \in Timers
    BY <1>2
  <2> HIDE DEF e
  <2>3. [e EXCEPT !.time = @ - delta].time = e.time - delta
    BY <2>2 DEF Timers
  <2>4. QED
    BY <2>1, <2>3 DEF e
<1>7. /\ next \in Seq(Timers) /\ Len(next) = Len(s.vt)
      /\ \A i \in 1..Len(s.vt) : next[i].par = s.vt[i].par
  <2>1. ASSUME NEW i \in 1..Len(s.vt) PROVE next[i] \in Timers /\ next[i].par = s.vt[i].par
    <3>1. [s.vt[i] EXCEPT !.time = @ - delta] \in Timers
          /\ [s.vt[i] EXCEPT !.time = @ - delta].par = s.vt[i].par
      BY <1>2, <1>5, TimerChanged
    <3>2. QED
      BY <1>2, <3>1
  <2>2. next \in [1..Len(s.vt) -> Timers]
    <3>1. next = [i \in 1..Len(s.vt) |-> next[i]]
      BY <1>2
    <3> HIDE DEF next
    <3>2. QED
      BY <2>1, <3>1
  <2> HIDE DEF next
  <2>3. QED
    BY <1>2, <2>1, <2>2, FunctionIsSeq
<1> HIDE DEF next
<1>8. /\ vt \in Seq(Timers) /\ Len(vt) = Len(s.vt) + 1
      /\ \A j \in 1..(Len(s.vt) + 1) :
            vt[j] = IF j < at THEN next[j] ELSE IF j = at THEN new ELSE next[j - 1]
  <2> DEFINE n == Len(s.vt)
  <2>1. /\ next \in Seq(Timers) /\ Len(next) = n /\ at \in 1..(Len(next) + 1) /\ new \in Timers
        /\ vt = InsertAt(next, at, new)
    BY <1>3, <1>6, <1>7
  <2> HIDE DEF vt, n
  <2>2. IsInserted(Timers, next, at, new, vt)
    BY <2>1, InsertedThere
  <2>3. /\ vt \in Seq(Timers) /\ Len(vt) = n + 1
        /\ \A j \in 1..(n + 1) :
              vt[j] = IF j < at THEN next[j] ELSE IF j = at THEN new ELSE next[j - 1]
    BY <2>1, <2>2 DEF IsInserted
  <2>4. QED
    BY <2>3 DEF n
<1> HIDE DEF vt
<1>9. Pars(vt) = InsertAt(Pars(s.vt), at, t)
  <2> DEFINE b == InsertAt(Pars(s.vt), at, t)
  <2>1. /\ b \in Seq(Threads) /\ Len(b) = Len(s.vt) + 1
        /\ \A j \in 1..(Len(s.vt) + 1) :
              b[j] = IF j < at THEN Pars(s.vt)[j] ELSE IF j = at THEN t ELSE Pars(s.vt)[j - 1]
    <3> DEFINE p == Pars(s.vt)
    <3>1. p \in Seq(Threads) /\ Len(p) = Len(s.vt)
      BY <1>2
    <3> HIDE DEF p
    <3>2. \A i \in 1..(Len(p) + 1) :
             /\ InsertAt(p, i, t) \in Seq(Threads) /\ Len(InsertAt(p, i, t)) = Len(p) + 1
             /\ \A j \in 1..(Len(p) + 1) :
                   InsertAt(p, i, t)[j] = IF j < i THEN p[j] ELSE IF j = i THEN t ELSE p[j - 1]
      BY <3>1, InsertedIndex
    <3>3. QED
      BY <1>3, <3>1, <3>2 DEF p
  <2> HIDE DEF b
  <2>2. ASSUME NEW j \in 1..(Len(s.vt) + 1) PROVE vt[j].par = b[j]
    <3>1. at \in Nat /\ at <= Len(s.vt) + 1 /\ at >= 1
      BY <1>2, <1>3
    <3>2. CASE j < at
      <4>1. j \in 1..Len(s.vt) /\ vt[j] = next[j] /\ b[j] = Pars(s.vt)[j]
        BY <1>2, <1>8, <2>1, <3>1, <3>2
      <4>2. QED
        BY <1>2, <1>7, <4>1
    <3>3. CASE j = at
      <4>1. ~(at < at)
        BY <3>1
      <4>2. vt[at] = new /\ b[at] = t
        BY <1>8, <2>1, <3>3, <4>1
      <4>3. QED
        BY <1>6, <3>3, <4>2
    <3>4. CASE j > at
      <4>1. /\ j - 1 \in 1..Len(s.vt) /\ vt[j] = next[j - 1] /\ b[j] = Pars(s.vt)[j - 1]
        BY <1>2, <1>8, <2>1, <3>1, <3>4
      <4>2. QED
        BY <1>2, <1>7, <4>1
    <3>5. QED
      BY <3>1, <3>2, <3>3, <3>4
  <2>3. QED
    BY <1>2, <1>8, <2>1, <2>2, SamePars DEF b
<1>10. /\ Queue(Pars(vt), Threads) /\ ToSet(Pars(vt)) = ToSet(Pars(s.vt)) \cup {t}
  <2>1. t \notin ToSet(Pars(s.vt))
    BY <1>1, ArmedIsPar
  <2>2. QED
    BY <1>2, <1>3, <1>9, <2>1, InsertedQueue
<1>11. /\ r \in KernelStates(U, C) /\ Unmoved(s, r) /\ r.vt = vt
  BY <1>4, <1>8 DEF KernelStates, Unmoved, Timers
<1>12. \A x \in Threads : Armed(r, x) <=> (Armed(s, x) \/ x = t)
  BY <1>1, <1>8, <1>10, <1>11, ArmedIsPar
<1>13. ASSUME OnTime(s), time > 0 PROVE OnTime(r)
  <2>1. TimerState(s)
    BY <1>1 DEF TimerState, KernelStates
  <2>2. Due(s, at - 1) = TicksBefore(s.vt, at) /\ (at <= Len(s.vt) => Due(s, at) = TicksBefore(s.vt, at + 1))
    <3>1. at - 1 \in 0..Len(s.vt) /\ (at - 1) + 1 = at /\ (at <= Len(s.vt) => at \in 0..Len(s.vt))
      BY <1>2, <1>3
    <3>2. \A i \in 0..Len(s.vt) : Due(s, i) = TicksBefore(s.vt, i + 1)
      BY <1>13, <2>1, OnTimeAddsUp
    <3>3. QED
      BY <3>1, <3>2
  <2>3. Due(s, at - 1) < time /\ (at <= Len(s.vt) => Due(s, at) >= time)
    <3>1. Due(s, at - 1) \in Int /\ Due(s, 0) = 0
      <4>1. at - 1 \in 0..Len(s.vt)
        BY <1>2, <1>3
      <4>2. QED
        BY <2>1, <4>1, TimerFacts
    <3>2. at = 1 => Due(s, at - 1) < time
      <4>1. at = 1 => at - 1 = 0
        OBVIOUS
      <4>2. QED
        BY <1>13, <3>1, <4>1
    <3>3. at > 1 => Due(s, at - 1) < time
      BY <1>20, <2>2, <3>1
    <3>4. QED
      BY <1>2, <1>3, <1>20, <2>2, <3>2, <3>3
  <2>4. \A i \in 1..Len(s.vt) : s.vt[i].par # t
    BY <1>2 DEF Armed
  <2>5. /\ Len(r.vt) = Len(s.vt) + 1 /\ r.due = [s.due EXCEPT ![t] = time] /\ r.vt = vt
    BY <1>4, <1>8, <1>11 DEF KernelStates
  <2>6. ASSUME NEW j \in 1..Len(s.vt)
        PROVE  /\ j < at => vt[j] = s.vt[j]
               /\ j >= at => vt[j + 1].par = s.vt[j].par
               /\ j = at => vt[j + 1].time = s.vt[j].time - delta
               /\ j > at => vt[j + 1].time = s.vt[j].time
    <3>1. j < at => vt[j] = next[j] /\ j # at
      <4>1. j \in 1..(Len(s.vt) + 1) /\ (j < at => j # at)
        BY <1>2, <1>3
      <4>2. QED
        BY <1>8, <4>1
    <3>2. j >= at => vt[j + 1] = next[j]
      <4>1. j + 1 \in 1..(Len(s.vt) + 1) /\ (j + 1) - 1 = j /\ (j >= at => ~(j + 1 < at) /\ j + 1 # at)
        BY <1>2, <1>3
      <4>2. QED
        BY <1>8, <4>1
    <3>3. j >= at /\ j # at => j > at
      BY <1>2, <1>3
    <3>4. QED
      BY <1>2, <1>3, <1>7, <1>22, <3>1, <3>2, <3>3
  <2>7. vt[at].par = t /\ vt[at].time = delta
    BY <1>3, <1>6, <1>8
  <2>8. at <= Len(s.vt) => vt[at + 1].time = s.vt[at].time - delta
    <3>1. at <= Len(s.vt) => at \in 1..Len(s.vt)
      BY <1>2, <1>3
    <3>2. QED
      BY <2>6, <3>1
  <2>9. delta = time - Due(s, at - 1) /\ time \in Nat \ {0}
    BY <1>13, <1>21, <2>2
  <2>10. /\ \A j \in 1..Len(s.vt) : j < at => r.vt[j] = s.vt[j]
         /\ \A j \in 1..Len(s.vt) : j >= at => r.vt[j + 1].par = s.vt[j].par
         /\ \A j \in 1..Len(s.vt) : j > at => r.vt[j + 1].time = s.vt[j].time
    BY <2>5, <2>6
  <2>11. /\ r.vt[at].par = t /\ r.vt[at].time = time - Due(s, at - 1)
         /\ at <= Len(s.vt) => r.vt[at + 1].time = s.vt[at].time - (time - Due(s, at - 1))
    BY <2>5, <2>7, <2>8, <2>9
  <2>12. Len(r.vt) = Len(s.vt) + 1 /\ r.due = [s.due EXCEPT ![t] = time] /\ time \in Nat \ {0}
    BY <2>5, <2>9
  <2>13. PutIn(s, t, time, at, r)
    BY <2>3, <2>4, <2>10, <2>11, <2>12 DEF PutIn
  <2>14. QED
    BY <1>3, <1>13, <2>1, <2>12, <2>13, TimerPutIn
<1>14. QED
  BY <1>10, <1>11, <1>12, <1>13 DEF r

LEMMA ResetTimer ==
    ASSUME NEW U, NEW C, NEW s \in KernelStates(U, C), Queue(Pars(s.vt), Threads),
           NEW t \in Threads, Armed(s, t)
    PROVE  /\ VTResetI(s, t) \in KernelStates(U, C) /\ Unmoved(s, VTResetI(s, t))
           /\ Queue(Pars(VTResetI(s, t).vt), Threads)
           /\ \A x \in Threads : Armed(VTResetI(s, t), x) <=> (Armed(s, x) /\ x # t)
           /\ OnTime(s) => OnTime(VTResetI(s, t))
<1> DEFINE at   == CHOOSE i \in DOMAIN s.vt : s.vt[i].par = t
           next == [i \in DOMAIN s.vt |->
                        IF i = at + 1 THEN [s.vt[i] EXCEPT !.time = @ + s.vt[at].time]
                                      ELSE s.vt[i]]
           vt   == RemoveAt(next, at)
           r    == VTResetI(s, t)
           p    == Pars(s.vt)
<1>1. s.vt \in Seq(Timers)
  BY DEF KernelStates, Timers
<1>2. /\ Len(s.vt) \in Nat /\ DOMAIN s.vt = 1..Len(s.vt)
      /\ p \in Seq(Threads) /\ Len(p) = Len(s.vt)
      /\ \A i \in 1..Len(s.vt) : /\ s.vt[i] \in Timers /\ p[i] = s.vt[i].par
                                 /\ s.vt[i].par \in Threads /\ s.vt[i].time \in Int
  BY <1>1, ParsOfTimers
<1>3. at \in 1..Len(s.vt) /\ s.vt[at].par = t
  BY <1>2 DEF Armed
<1>4. r = [s EXCEPT !.vt = vt, !.due[t] = 0]
  BY DEF VTResetI
<1> HIDE DEF at, r, p
<1>20. ASSUME NEW i \in 1..Len(s.vt)
       PROVE  IF i = at + 1 THEN next[i].time = s.vt[i].time + s.vt[at].time
                            ELSE next[i] = s.vt[i]
  <2> DEFINE e == s.vt[i]
             d == s.vt[at].time
  <2>1. next[i] = IF i = at + 1 THEN [e EXCEPT !.time = @ + d] ELSE e
    BY <1>2
  <2>2. e \in Timers
    BY <1>2
  <2> HIDE DEF e, d
  <2>3. [e EXCEPT !.time = @ + d].time = e.time + d
    BY <2>2 DEF Timers
  <2>4. QED
    BY <2>1, <2>3 DEF e, d
<1>5. /\ next \in Seq(Timers) /\ Len(next) = Len(s.vt)
      /\ \A i \in 1..Len(s.vt) : next[i].par = s.vt[i].par
  <2>1. ASSUME NEW i \in 1..Len(s.vt) PROVE next[i] \in Timers /\ next[i].par = s.vt[i].par
    <3>1. s.vt[at].time \in Int
      BY <1>2, <1>3
    <3>2. [s.vt[i] EXCEPT !.time = @ + s.vt[at].time] \in Timers
          /\ [s.vt[i] EXCEPT !.time = @ + s.vt[at].time].par = s.vt[i].par
      BY <1>2, <3>1, TimerChanged
    <3>3. QED
      BY <1>2, <3>2
  <2>2. next \in [1..Len(s.vt) -> Timers]
    <3>1. next = [i \in 1..Len(s.vt) |-> next[i]]
      BY <1>2
    <3> HIDE DEF next
    <3>2. QED
      BY <2>1, <3>1
  <2> HIDE DEF next
  <2>3. QED
    BY <1>2, <2>1, <2>2, FunctionIsSeq
<1> HIDE DEF next
<1>6. /\ vt \in Seq(Timers) /\ Len(vt) = Len(s.vt) - 1
      /\ \A j \in 1..(Len(s.vt) - 1) : vt[j] = IF j < at THEN next[j] ELSE next[j + 1]
  <2>1. at \in 1..Len(next)
    BY <1>3, <1>5
  <2>2. QED
    BY <1>5, <2>1, RemovedIndex
<1> HIDE DEF vt
<1>7. Dequeue(p, t) = RemoveAt(p, at)
  <2>1. DOMAIN p = 1..Len(s.vt)
    BY <1>2, QueueSet
  <2> DEFINE i == CHOOSE i \in DOMAIN p : p[i] = t
  <2>2. i \in 1..Len(s.vt) /\ p[i] = t
    BY <1>2, <1>3, <2>1
  <2>3. i = at
    BY <1>2, <1>3, <2>1, <2>2 DEF Queue, IsInjective, p
  <2>4. QED
    BY <2>3 DEF Dequeue
<1>8. Pars(vt) = Dequeue(p, t)
  <2> DEFINE b == RemoveAt(p, at)
  <2>1. /\ b \in Seq(Threads) /\ Len(b) = Len(s.vt) - 1
        /\ \A j \in 1..(Len(s.vt) - 1) : b[j] = IF j < at THEN p[j] ELSE p[j + 1]
    <3>1. at \in 1..Len(p)
      BY <1>2, <1>3
    <3>2. QED
      BY <1>2, <3>1, RemovedIndex
  <2> HIDE DEF b
  <2>2. ASSUME NEW j \in 1..(Len(s.vt) - 1) PROVE vt[j].par = b[j]
    <3>1. j \in 1..Len(s.vt) /\ j + 1 \in 1..Len(s.vt)
      BY <1>2
    <3>2. QED
      BY <1>2, <1>5, <1>6, <2>1, <3>1
  <2>3. QED
    BY <1>2, <1>6, <1>7, <2>1, <2>2, SamePars DEF b
<1>9. Queue(Pars(vt), Threads) /\ ToSet(Pars(vt)) = ToSet(p) \ {t}
  <2>1. t \in ToSet(p)
    BY <1>1, ArmedIsPar DEF p
  <2>2. QED
    BY <1>8, <2>1, DequeuedQueue DEF p
<1>10. r \in KernelStates(U, C) /\ Unmoved(s, r) /\ r.vt = vt
  <2>1. vt \in Seq([par : Threads, time : Int])
    BY <1>6 DEF Timers
  <2>2. 0 \in Int /\ [s.due EXCEPT ![t] = 0] \in [Threads -> Int]
    BY DEF KernelStates
  <2>3. r \in KernelStates(U, C)
    BY <1>4, <2>1, <2>2 DEF KernelStates
  <2>4. Unmoved(s, r) /\ r.vt = vt
    BY <1>4 DEF KernelStates, Unmoved
  <2>5. QED
    BY <2>3, <2>4
<1>11. \A x \in Threads : Armed(r, x) <=> (Armed(s, x) /\ x # t)
  BY <1>1, <1>6, <1>9, <1>10, ArmedIsPar DEF p
<1>12. ASSUME OnTime(s) PROVE OnTime(r)
  <2>1. TimerState(s)
    BY <1>1 DEF TimerState, KernelStates, p
  <2>2. Len(r.vt) = Len(s.vt) - 1 /\ r.due = [s.due EXCEPT ![s.vt[at].par] = 0] /\ r.vt = vt
    BY <1>3, <1>4, <1>6, <1>10 DEF KernelStates
  <2>3. ASSUME NEW j \in 1..(Len(s.vt) - 1)
        PROVE  /\ j < at => vt[j] = s.vt[j]
               /\ j >= at => vt[j] = next[j + 1]
    <3>1. j \in 1..Len(s.vt) /\ (j < at => j # at + 1) /\ (j >= at => ~(j < at))
      BY <1>2, <1>3
    <3>2. QED
      BY <1>6, <1>20, <3>1
  <2>4. at < Len(s.vt) => /\ vt[at].par = s.vt[at + 1].par
                          /\ vt[at].time = s.vt[at + 1].time + s.vt[at].time
    <3>1. at < Len(s.vt) => at \in 1..(Len(s.vt) - 1) /\ at >= at /\ at + 1 \in 1..Len(s.vt)
      BY <1>2, <1>3
    <3>2. QED
      BY <1>5, <1>20, <2>3, <3>1
  <2>5. ASSUME NEW j \in 1..(Len(s.vt) - 1), j > at PROVE vt[j] = s.vt[j + 1]
    <3>1. j >= at /\ j + 1 \in 1..Len(s.vt) /\ j + 1 # at + 1
      BY <1>2, <1>3, <2>5
    <3>2. QED
      BY <1>20, <2>3, <3>1
  <2>6. \A j \in 1..(Len(s.vt) - 1) : j < at => vt[j] = s.vt[j]
    BY <2>3
  <2>7. /\ \A j \in 1..(Len(s.vt) - 1) : j < at => r.vt[j] = s.vt[j]
        /\ \A j \in 1..(Len(s.vt) - 1) : j > at => r.vt[j] = s.vt[j + 1]
        /\ at < Len(s.vt) => /\ r.vt[at].par = s.vt[at + 1].par
                             /\ r.vt[at].time = s.vt[at + 1].time + s.vt[at].time
    BY <2>2, <2>4, <2>5, <2>6
  <2>8. Len(r.vt) = Len(s.vt) - 1 /\ r.due = [s.due EXCEPT ![s.vt[at].par] = 0]
    BY <2>2
  <2>9. QED
    BY <1>3, <1>12, <2>1, <2>7, <2>8, TimerTakenOut
<1>13. QED
  BY <1>9, <1>10, <1>11, <1>12 DEF r

\* Back from its sleep, a thread has no timer.
LEMMA Awakes ==
    ASSUME NEW U, NEW C, NEW s \in KernelStates(U, C), Queue(Pars(s.vt), Threads)
    PROVE  /\ AwakeS(s) \in KernelStates(U, C) /\ Unmoved(s, AwakeS(s))
           /\ Queue(Pars(AwakeS(s).vt), Threads)
           /\ \A x \in Threads : Armed(AwakeS(s), x) <=> (Armed(s, x) /\ x # s.current)
           /\ OnTime(s) => OnTime(AwakeS(s))
<1>1. s.current \in Threads
  BY DEF KernelStates
<1>2. CASE Armed(s, s.current)
  <2>1. AwakeS(s) = VTResetI(s, s.current)
    BY <1>2 DEF AwakeS
  <2>2. QED
    BY <1>1, <1>2, <2>1, ResetTimer
<1>3. CASE ~Armed(s, s.current)
  <2>1. AwakeS(s) = s
    BY <1>3 DEF AwakeS
  <2>2. QED
    BY <1>3, <2>1 DEF Unmoved
<1>4. QED
  BY <1>2, <1>3

-----------------------------------------------------------------------------
(* What the kernel calls of a thread do.                                    *)

LEMMA DelaySleeps ==
    ASSUME NEW U, NEW C, NEW s \in KernelStates(U, C), Placed(s), s.ready # <<>>,
           Queue(Pars(s.vt), Threads), ~Armed(s, s.current), NEW time \in Nat
    PROVE  LET r == GoSleepTimeoutS(s, "SLEEPING", time) IN
           /\ r \in KernelStates(U, C) /\ Placed(r) /\ Queue(Pars(r.vt), Threads)
           /\ r.queue = s.queue /\ r.cnt = s.cnt /\ Sleepers(s, r, Threads)
           /\ r.state[s.current] = "SLEEPING"
           /\ \A t \in Threads : /\ Armed(r, t) <=> (Armed(s, t) \/ t = s.current)
                                 /\ Runs(r, t) <=> (Runs(s, t) /\ t # s.current)
           /\ Sorted(s) => Ordered(r)
           /\ OnTime(s) /\ time > 0 => OnTime(r)
<1> DEFINE c == s.current
           v == VTSetI(s, c, time)
           r == GoSleepS(v, "SLEEPING")
<1>1. c \in Threads /\ time \in Int
  BY DEF KernelStates
<1>2. GoSleepTimeoutS(s, "SLEEPING", time) = r
  BY DEF GoSleepTimeoutS, Infinite
<1>3. /\ v \in KernelStates(U, C) /\ Unmoved(s, v) /\ Queue(Pars(v.vt), Threads)
      /\ \A x \in Threads : Armed(v, x) <=> (Armed(s, x) \/ x = c)
      /\ OnTime(s) /\ time > 0 => OnTime(v)
  BY <1>1, SetTimer
<1> HIDE DEF v
<1>4. /\ v.ready # <<>> /\ v.current = c /\ v.state = s.state /\ v.u = s.u
      /\ Placed(v) /\ \A t \in Threads : Runs(v, t) <=> Runs(s, t)
  BY <1>3, UnmovedPlaces DEF Unmoved
<1>5. /\ "SLEEPING" \in States \ Runnable /\ "SLEEPING" \notin WaitStates
      /\ QueuesSound(v) /\ \A t \in Threads \ {v.current} : ThreadPlaced(v, t)
      /\ v.state[v.current] = "CURRENT" /\ v.current \notin ToSet(v.ready)
      /\ \A o \in Objects : v.current \notin ToSet(v.queue[o])
  <2>1. "SLEEPING" \in States \ Runnable /\ "SLEEPING" \notin WaitStates /\ "CURRENT" \notin WaitStates
    BY DEF States, Runnable, WaitStates
  <2>2. ThreadPlaced(v, c)
    BY <1>1, <1>4 DEF Placed
  <2>3. QED
    BY <1>4, <2>1, <2>2 DEF Placed, ThreadPlaced
<1>6. r \in KernelStates(U, C) /\ Placed(r) /\ Slept(v, r, "SLEEPING")
  BY <1>3, <1>4, <1>5, GoSleepPlaces
<1>10. Sorted(s) => Ordered(r)
  <2>1. Sorted(s) => Sorted(v)
    BY <1>3 DEF Unmoved, Sorted
  <2>2. Queue(v.ready, Threads)
    BY <1>5 DEF QueuesSound
  <2>3. QED
    BY <1>3, <1>4, <2>1, <2>2, GoSleepOrders
<1> HIDE DEF r, c
<1>7. \A t \in Threads : Armed(r, t) <=> Armed(v, t)
  BY <1>6 DEF Slept, Kept, Armed
<1>8. /\ r.queue = s.queue /\ r.cnt = s.cnt /\ r.vt = v.vt /\ r.state[c] = "SLEEPING"
      /\ Sleepers(s, r, Threads)
      /\ \A t \in Threads : Runs(r, t) <=> (Runs(s, t) /\ t # c)
  BY <1>3, <1>4, <1>6 DEF Slept, Kept, Sleepers, Unmoved
<1>9. OnTime(s) /\ time > 0 => OnTime(r)
  BY <1>3, <1>6 DEF Slept, Kept, OnTime, Due
<1>11. QED
  BY <1>2, <1>3, <1>6, <1>7, <1>8, <1>9, <1>10 DEF c

\* The current thread goes to the end of the queue of semaphore o.
LEMMA SemSleeps ==
    ASSUME NEW U, NEW C, NEW s \in KernelStates(U, C), Placed(s), s.ready # <<>>,
           NEW o \in Objects, o \in U, o \in C
    PROVE  LET r == SemSleep(s, o, Infinite) IN
           /\ r \in KernelStates(U, C) /\ Placed(r) /\ r.vt = s.vt
           /\ r.cnt = [s.cnt EXCEPT ![o] = @ - 1]
           /\ r.queue = [s.queue EXCEPT ![o] = Append(@, s.current)]
           /\ Len(r.queue[o]) = Len(s.queue[o]) + 1
           /\ Sleepers(s, r, Threads)
           /\ r.state[s.current] = "WTSEM" /\ r.u[s.current] = o
           /\ \A t \in Threads : Runs(r, t) <=> (Runs(s, t) /\ t # s.current)
           /\ r.due = s.due /\ (Sorted(s) => Ordered(r))
<1> DEFINE c == s.current
           m == [SemTake(s, o) EXCEPT !.u[c] = o, !.queue[o] = Append(@, c)]
           r == GoSleepS(m, "WTSEM")
<1>1. /\ c \in Threads /\ s.state[c] = "CURRENT" /\ c \notin ToSet(s.ready)
      /\ \A x \in Objects : c \notin ToSet(s.queue[x])
  <2>1. c \in Threads
    BY DEF KernelStates
  <2>2. QED
    BY <2>1 DEF Placed, ThreadPlaced, WaitStates
<1>2. SemSleep(s, o, Infinite) = r
  <2>1. SemTake(s, o).current = c
    BY DEF SemTake, KernelStates
  <2>2. QED
    BY <2>1 DEF SemSleep, GoSleepTimeoutS
<1> HIDE DEF c
<1>3. /\ Queue(Append(s.queue[o], c), Threads)
      /\ ToSet(Append(s.queue[o], c)) = ToSet(s.queue[o]) \cup {c}
      /\ Len(Append(s.queue[o], c)) = Len(s.queue[o]) + 1
  BY <1>1, AppendedQueue DEF Placed, QueuesSound
<1>4. /\ m \in KernelStates(U, C)
      /\ m.cnt = [s.cnt EXCEPT ![o] = @ - 1] /\ m.vt = s.vt /\ m.due = s.due
      /\ m.queue = [s.queue EXCEPT ![o] = Append(@, c)]
      /\ m.u = [s.u EXCEPT ![c] = o] /\ m.state = s.state
      /\ m.ready = s.ready /\ m.current = c /\ m.prio = s.prio
  <2>1. Append(s.queue[o], c) \in Seq(Threads)
    BY <1>3 DEF Queue
  <2> DEFINE n == SemTake(s, o)
  <2>2. /\ n \in KernelStates(U, C) /\ n.cnt = [s.cnt EXCEPT ![o] = @ - 1] /\ n.vt = s.vt
        /\ n.due = s.due
        /\ n.queue = s.queue /\ n.u = s.u /\ n.state = s.state
        /\ n.ready = s.ready /\ n.current = c /\ n.prio = s.prio
    <3>1. [s.cnt EXCEPT ![o] = @ - 1] \in [C -> Int]
      BY DEF KernelStates
    <3>2. n = [s EXCEPT !.cnt = [s.cnt EXCEPT ![o] = @ - 1]]
      BY DEF SemTake
    <3> HIDE DEF n
    <3>3. n \in KernelStates(U, C)
      BY <3>1, <3>2 DEF KernelStates
    <3>4. QED
      BY <3>2, <3>3 DEF KernelStates, c
  <2>3. m = [n EXCEPT !.u[c] = o, !.queue[o] = Append(@, c)]
    OBVIOUS
  <2> HIDE DEF n, m
  <2>4. m \in KernelStates(U, C)
    BY <1>1, <2>1, <2>2, <2>3 DEF KernelStates
  <2>5. /\ m.cnt = n.cnt /\ m.vt = n.vt /\ m.due = n.due /\ m.state = n.state /\ m.ready = n.ready
        /\ m.current = n.current /\ m.prio = n.prio
        /\ m.queue = [n.queue EXCEPT ![o] = Append(@, c)] /\ m.u = [n.u EXCEPT ![c] = o]
    BY <2>2, <2>3 DEF KernelStates
  <2>6. QED
    BY <2>2, <2>4, <2>5
<1> HIDE DEF m
<1>5. s.queue \in [Objects -> Seq(Threads)] /\ s.u \in [Threads -> U]
  BY DEF KernelStates
<1>6. QueuesSound(m)
  <2>1. Queue(m.queue[o], Threads) /\ \A x \in Objects \ {o} : m.queue[x] = s.queue[x]
    BY <1>3, <1>4, <1>5
  <2>2. QED
    BY <1>4, <2>1 DEF QueuesSound, Placed
<1>7. ASSUME NEW t \in Threads, t # c PROVE ThreadPlaced(m, t)
  <2>1. ThreadPlaced(s, t)
    BY DEF Placed
  <2>2. m.u[t] = s.u[t]
    BY <1>4, <1>5, <1>7
  <2>3. ASSUME NEW x \in Objects PROVE t \in ToSet(m.queue[x]) <=> t \in ToSet(s.queue[x])
    BY <1>3, <1>4, <1>5, <1>7
  <2>4. QED
    BY <1>4, <1>7, <2>1, <2>2, <2>3 DEF ThreadPlaced, c
<1>8. \A x \in Objects : c \in ToSet(m.queue[x]) <=> m.u[c] = x
  BY <1>1, <1>3, <1>4, <1>5
<1>9. "WTSEM" \in States \ Runnable /\ "WTSEM" \in WaitStates
  BY DEF States, Runnable, WaitStates
<1>10. r \in KernelStates(U, C) /\ Placed(r) /\ Slept(m, r, "WTSEM")
  <2>1. m.ready # <<>> /\ m.state[m.current] = "CURRENT" /\ m.current \notin ToSet(m.ready)
    BY <1>1, <1>4
  <2>2. \A x \in Objects : (m.current \in ToSet(m.queue[x])) <=> ("WTSEM" \in WaitStates /\ m.u[m.current] = x)
    BY <1>4, <1>8, <1>9
  <2>3. \A t \in Threads \ {m.current} : ThreadPlaced(m, t)
    BY <1>4, <1>7
  <2>4. QED
    BY <1>4, <1>6, <1>9, <2>1, <2>2, <2>3, GoSleepPlaces
<1>15. Sorted(s) => Ordered(r)
  <2>1. (Sorted(s) => Sorted(m)) /\ m.ready # <<>>
    BY <1>4 DEF Sorted
  <2>2. Queue(m.ready, Threads)
    BY <1>6 DEF QueuesSound
  <2>3. QED
    BY <1>4, <2>1, <2>2, GoSleepOrders
<1>16. r.due = s.due
  BY <1>4, <1>10 DEF Slept, Kept
<1> HIDE DEF r
<1>11. /\ r.vt = s.vt /\ r.cnt = m.cnt /\ r.queue = m.queue
       /\ r.state[c] = "WTSEM" /\ r.u[c] = o
       /\ \A t \in Threads : Runs(r, t) <=> (Runs(s, t) /\ t # c)
  BY <1>1, <1>4, <1>5, <1>10 DEF Slept, Kept, Runs
<1>12. Sleepers(s, r, Threads)
  <2>1. Runs(s, c)
    BY <1>1 DEF Runs, Runnable
  <2>2. QED
    BY <1>1, <1>4, <1>5, <1>10, <2>1 DEF Slept, Sleepers, Runs
<1>13. Len(r.queue[o]) = Len(s.queue[o]) + 1
  BY <1>3, <1>4, <1>5, <1>11
<1>14. QED
  BY <1>2, <1>4, <1>10, <1>11, <1>12, <1>13, <1>15, <1>16 DEF c

\* The counter of a semaphore changes and nothing else does.
LEMMA CountSet ==
    ASSUME NEW U, NEW C, NEW s \in KernelStates(U, C), Placed(s), NEW o \in C, NEW n \in Int
    PROVE  LET r == [s EXCEPT !.cnt[o] = n] IN
           /\ r \in KernelStates(U, C) /\ Placed(r) /\ r.cnt = [s.cnt EXCEPT ![o] = n]
           /\ r.queue = s.queue /\ r.vt = s.vt /\ r.state = s.state /\ r.u = s.u
           /\ r.current = s.current /\ r.prio = s.prio /\ r.ready = s.ready /\ r.due = s.due
<1> DEFINE r == [s EXCEPT !.cnt[o] = n]
<1>1. [s.cnt EXCEPT ![o] = n] \in [C -> Int]
  BY DEF KernelStates
<1>2. r = [s EXCEPT !.cnt = [s.cnt EXCEPT ![o] = n]]
  OBVIOUS
<1> HIDE DEF r
<1>3. r \in KernelStates(U, C)
  BY <1>1, <1>2 DEF KernelStates
<1>4. /\ r.cnt = [s.cnt EXCEPT ![o] = n]
      /\ r.queue = s.queue /\ r.vt = s.vt /\ r.state = s.state /\ r.u = s.u
      /\ r.current = s.current /\ r.prio = s.prio /\ r.ready = s.ready /\ r.due = s.due
  BY <1>2 DEF KernelStates
<1>5. Placed(r)
  BY <1>4 DEF Placed, QueuesSound, ThreadPlaced
<1>6. QED
  BY <1>3, <1>4, <1>5 DEF r

\* A semaphore is signalled that nobody waits for: it is counted up.  One
\* that is waited for is handed to the first in its queue.
LEMMA SemSignals ==
    ASSUME NEW U, NEW C, NEW s \in KernelStates(U, C), Placed(s),
           NEW o \in Objects, o \in C, "OK" \in U,
           s.cnt[o] < 0 => s.queue[o] # <<>>
    PROVE  LET r == SemSignal(s, o)
               w == Head(s.queue[o]) IN
           /\ r \in KernelStates(U, C) /\ Placed(r) /\ r.vt = s.vt /\ r.due = s.due
           /\ Ordered(s) => Ordered(r)
           /\ r.cnt = [s.cnt EXCEPT ![o] = @ + 1]
           /\ s.cnt[o] >= 0 => /\ r.queue = s.queue /\ Sleepers(s, r, Threads)
                               /\ \A t \in Threads : Runs(r, t) <=> Runs(s, t)
           /\ s.cnt[o] < 0 => /\ w \in Threads /\ s.state[w] \in WaitStates /\ s.u[w] = o
                              /\ r.queue = [s.queue EXCEPT ![o] = Tail(@)]
                              /\ Len(r.queue[o]) = Len(s.queue[o]) - 1
                              /\ Sleepers(s, r, Threads \ {w})
                              /\ \A t \in Threads : Runs(r, t) <=> (Runs(s, t) \/ t = w)
<1> DEFINE r == SemSignal(s, o)
           w == Head(s.queue[o])
           up == [s EXCEPT !.cnt[o] = s.cnt[o] + 1]
           q == [up EXCEPT !.queue[o] = Tail(@)]
<1>1. s.cnt \in [C -> Int] /\ s.cnt[o] \in Int /\ s.queue \in [Objects -> Seq(Threads)]
  BY DEF KernelStates
<1>2. /\ up \in KernelStates(U, C) /\ Placed(up) /\ up.cnt = [s.cnt EXCEPT ![o] = @ + 1]
      /\ up.queue = s.queue /\ up.vt = s.vt /\ up.state = s.state /\ up.u = s.u
      /\ up.current = s.current /\ up.prio = s.prio /\ up.ready = s.ready /\ up.due = s.due
  <2>1. s.cnt[o] + 1 \in Int
    BY <1>1
  <2>2. QED
    BY <2>1, CountSet
<1>3. Up(s, o) = up /\ Unqueue(up, o) = q
  BY DEF Up, Unqueue
<1> HIDE DEF up
<1>4. r = IF s.cnt[o] + 1 <= 0 THEN WakeupS(q, w, "OK") ELSE up
  <2>1. up.cnt[o] = s.cnt[o] + 1
    BY <1>1, <1>2
  <2>2. QED
    BY <1>2, <1>3, <2>1 DEF SemSignal
<1> HIDE DEF r
<1>5. CASE s.cnt[o] >= 0
  <2>1. r = up
    BY <1>1, <1>4, <1>5
  <2>2. ~(s.cnt[o] < 0)
    BY <1>1, <1>5
  <2>3. \A t \in Threads : Runs(r, t) <=> Runs(s, t)
    BY <1>2, <2>1 DEF Runs
  <2>4. Sleepers(s, r, Threads)
    BY <1>2, <2>1 DEF Sleepers
  <2>5. Ordered(s) => Ordered(r)
    BY <1>2, <2>1 DEF Ordered, Sorted, TopRuns
  <2>6. QED
    BY <1>2, <2>1, <2>2, <2>3, <2>4, <2>5 DEF r
<1>6. CASE s.cnt[o] < 0
  <2>1. r = WakeupS(q, w, "OK")
    BY <1>1, <1>4, <1>6
  <2>2. /\ Queue(s.queue[o], Threads) /\ s.queue[o] # <<>>
        /\ w \in Threads /\ w \in ToSet(s.queue[o])
        /\ Queue(Tail(s.queue[o]), Threads)
        /\ ToSet(Tail(s.queue[o])) = ToSet(s.queue[o]) \ {w}
        /\ Len(Tail(s.queue[o])) = Len(s.queue[o]) - 1
    <3>1. Queue(s.queue[o], Threads) /\ s.queue[o] # <<>>
      BY <1>6 DEF Placed, QueuesSound
    <3>2. QED
      BY <3>1, TailQueue, QueueSet DEF Queue
  <2> HIDE DEF w
  <2>3. /\ q \in KernelStates(U, C) /\ q.cnt = up.cnt /\ q.vt = s.vt /\ q.state = s.state
        /\ q.u = s.u /\ q.current = s.current /\ q.prio = s.prio /\ q.ready = s.ready
        /\ q.queue = [s.queue EXCEPT ![o] = Tail(@)] /\ q.due = s.due
    <3>1. Tail(s.queue[o]) \in Seq(Threads)
      BY <2>2 DEF Queue
    <3>2. q \in KernelStates(U, C)
      BY <1>2, <3>1 DEF KernelStates
    <3>3. QED
      BY <1>2, <3>2 DEF KernelStates
  <2> HIDE DEF q
  <2>4. s.state[w] \in WaitStates /\ s.u[w] = o
    BY <2>2 DEF Placed, ThreadPlaced
  <2>5. /\ q.queue[o] = Tail(s.queue[o]) /\ \A x \in Objects \ {o} : q.queue[x] = s.queue[x]
    BY <1>1, <2>3
  <2>6. PlacedBut(q, w)
    <3>1. QueuesSound(q)
      BY <2>2, <2>3, <2>5 DEF QueuesSound, Placed
    <3>2. ASSUME NEW t \in Threads \ {w} PROVE ThreadPlaced(q, t)
      <4>1. ThreadPlaced(s, t)
        BY DEF Placed
      <4>2. \A x \in Objects : t \in ToSet(q.queue[x]) <=> t \in ToSet(s.queue[x])
        BY <2>2, <2>5
      <4>3. QED
        BY <2>3, <4>1, <4>2 DEF ThreadPlaced
    <3>3. w # q.current /\ w \notin ToSet(q.ready)
      BY <2>2, <2>3, <2>4 DEF Placed, ThreadPlaced, WaitStates
    <3>4. ASSUME NEW x \in Objects PROVE w \notin ToSet(q.queue[x])
      <4>1. x # o => w \notin ToSet(s.queue[x])
        BY <2>2, <2>4 DEF Placed, ThreadPlaced
      <4>2. QED
        BY <2>2, <2>5, <4>1
    <3>5. QED
      BY <3>1, <3>2, <3>3, <3>4 DEF PlacedBut
  <2>7. q.state[q.current] = "CURRENT"
    BY <2>3 DEF Placed, ThreadPlaced, KernelStates
  <2>8. r \in KernelStates(U, C) /\ Placed(r) /\ Woken(q, w, r)
    BY <2>1, <2>2, <2>3, <2>6, <2>7, WakeupPlaces
  <2>9. /\ r.cnt = [s.cnt EXCEPT ![o] = @ + 1] /\ r.vt = s.vt /\ r.due = s.due
        /\ r.queue = [s.queue EXCEPT ![o] = Tail(@)]
    BY <1>2, <2>3, <2>8 DEF Woken, Kept
  <2>10. Len(r.queue[o]) = Len(s.queue[o]) - 1
    BY <1>1, <2>2, <2>9
  <2>11. \A t \in Threads : Runs(r, t) <=> (Runs(s, t) \/ t = w)
    BY <2>3, <2>8 DEF Woken, Runs
  <2>12. Sleepers(s, r, Threads \ {w})
    BY <2>3, <2>8 DEF Woken, Sleepers, Runs
  <2>13. ~(s.cnt[o] >= 0)
    BY <1>1, <1>6
  <2>14. Ordered(s) => Ordered(r)
    <3>1. Ordered(s) => Ordered(q)
      BY <2>3 DEF Ordered, Sorted, TopRuns
    <3>2. QED
      BY <2>1, <2>2, <2>3, <2>6, <2>7, <3>1, WakeupOrders
  <2>15. QED
    BY <2>2, <2>4, <2>8, <2>9, <2>10, <2>11, <2>12, <2>13, <2>14 DEF r, w
<1>7. QED
  BY <1>1, <1>5, <1>6

-----------------------------------------------------------------------------
(* Letting a thread go: its note says why, nobody else's is touched.        *)

\* What taking a thread out of a queue, or counting it, leaves alone.
Apart(s, m) ==
    /\ m.current = s.current /\ m.ready = s.ready /\ m.state = s.state /\ m.u = s.u
    /\ m.prio = s.prio /\ m.vt = s.vt /\ m.due = s.due

\* Thread w can run after it, with the note msg.
Frees(s, r, w, msg) ==
    /\ r.u = [s.u EXCEPT ![w] = msg]
    /\ \A t \in Threads : Runs(r, t) <=> (Runs(s, t) \/ t = w)
    /\ \A t \in Threads \ {w} : ~Runs(s, t) => r.state[t] = s.state[t]
    /\ r.vt = s.vt /\ r.due = s.due /\ r.prio = s.prio

LEMMA ReadyWithFrees ==
    ASSUME NEW U, NEW C, NEW s \in KernelStates(U, C), NEW m \in KernelStates(U, C),
           Apart(s, m), NEW w \in Threads, NEW msg \in U, PlacedBut(m, w),
           m.state[m.current] = "CURRENT"
    PROVE  LET r == ReadyWith(m, w, msg) IN
           /\ r \in KernelStates(U, C) /\ Placed(r) /\ Frees(s, r, w, msg)
           /\ r.current = s.current /\ r.queue = m.queue /\ r.cnt = m.cnt
           /\ Sorted(s) => Sorted(r)
<1> DEFINE r == ReadyWith(m, w, msg)
<1>1. r \in KernelStates(U, C) /\ Placed(r) /\ Woken(m, w, r) /\ r.current = m.current
  BY WakeupPlaces
<1>2. r.u = [m.u EXCEPT ![w] = msg]
  BY DEF ReadyWith, ReadyI, KernelStates
<1>3. Sorted(s) => Sorted(r)
  <2>1. Sorted(s) => Sorted(m)
    BY DEF Sorted, Apart
  <2>2. QED
    BY <2>1, ReadyWithSorts
<1> HIDE DEF r
<1>4. QED
  BY <1>1, <1>2, <1>3 DEF Frees, Apart, Woken, Kept, Sleepers, Runs, r

LEMMA WakeupSFrees ==
    ASSUME NEW U, NEW C, NEW s \in KernelStates(U, C), NEW m \in KernelStates(U, C),
           Apart(s, m), NEW w \in Threads, NEW msg \in U, PlacedBut(m, w),
           m.state[m.current] = "CURRENT"
    PROVE  LET r == WakeupS(m, w, msg) IN
           /\ r \in KernelStates(U, C) /\ Placed(r) /\ Frees(s, r, w, msg)
           /\ r.queue = m.queue /\ r.cnt = m.cnt
           /\ Ordered(s) => Ordered(r)
           /\ Sorted(s) /\ NoneAbove(s, w) => Ordered(r)
<1> DEFINE r == WakeupS(m, w, msg)
<1>1. r \in KernelStates(U, C) /\ Placed(r) /\ Woken(m, w, r)
  BY WakeupPlaces
<1>2. r.u = [m.u EXCEPT ![w] = msg]
  BY DEF WakeupS, ReadyI, KernelStates
<1>3. Sorted(s) /\ NoneAbove(s, w) => Ordered(r)
  <2>1. Sorted(s) /\ NoneAbove(s, w) => Sorted(m) /\ NoneAbove(m, w)
    BY DEF Sorted, NoneAbove, Apart
  <2>2. QED
    BY <2>1, WakeupTops
<1>4. Ordered(s) => Ordered(r)
  <2>1. Ordered(s) => Sorted(s) /\ NoneAbove(s, w)
    BY DEF Ordered, TopRuns, NoneAbove
  <2>2. QED
    BY <1>3, <2>1
<1> HIDE DEF r
<1>5. QED
  BY <1>1, <1>2, <1>3, <1>4 DEF Frees, Apart, Woken, Kept, Sleepers, Runs, r

\* Thread w is taken out of the queue of o, wherever in it it was.
LEMMA OutOfQueue ==
    ASSUME NEW U, NEW C, NEW s \in KernelStates(U, C), Placed(s), NEW m \in KernelStates(U, C),
           Apart(s, m), NEW o \in Objects, NEW w \in ToSet(s.queue[o]),
           NEW q, Queue(q, Threads), ToSet(q) = ToSet(s.queue[o]) \ {w},
           m.queue = [s.queue EXCEPT ![o] = q]
    PROVE  /\ w \in Threads /\ s.state[w] \in WaitStates /\ s.u[w] = o /\ ~Runs(s, w)
           /\ w # s.current /\ PlacedBut(m, w) /\ m.state[m.current] = "CURRENT"
<1>1. s.queue \in [Objects -> Seq(Threads)] /\ s.current \in Threads
  BY DEF KernelStates
<1>2. w \in Threads
  <2>1. s.queue[o] \in Seq(Threads)
    BY <1>1
  <2>2. QED
    BY <2>1, QueueSet
<1>3. s.state[w] \in WaitStates /\ s.u[w] = o
  BY <1>2 DEF Placed, ThreadPlaced
<1>4. ~Runs(s, w) /\ w # s.current /\ s.state[s.current] = "CURRENT"
  BY <1>1, <1>2, <1>3 DEF Placed, ThreadPlaced, Runs, Runnable, WaitStates
<1>5. m.queue[o] = q /\ \A x \in Objects \ {o} : m.queue[x] = s.queue[x]
  BY <1>1
<1>6. QueuesSound(m)
  BY <1>5 DEF QueuesSound, Placed, Apart
<1>7. ASSUME NEW t \in Threads \ {w} PROVE ThreadPlaced(m, t)
  <2>1. ThreadPlaced(s, t)
    BY DEF Placed
  <2>2. \A x \in Objects : t \in ToSet(m.queue[x]) <=> t \in ToSet(s.queue[x])
    BY <1>5
  <2>3. QED
    BY <2>1, <2>2 DEF ThreadPlaced, Apart
<1>8. w \notin ToSet(m.ready)
  BY <1>2, <1>3 DEF Placed, ThreadPlaced, Apart, WaitStates
<1>9. ASSUME NEW x \in Objects PROVE w \notin ToSet(m.queue[x])
  <2>1. x # o => w \notin ToSet(s.queue[x])
    BY <1>2, <1>3 DEF Placed, ThreadPlaced
  <2>2. QED
    BY <1>5, <2>1
<1>10. QED
  BY <1>2, <1>3, <1>4, <1>6, <1>7, <1>8, <1>9 DEF PlacedBut, Apart

\* A counter and a queue change and nothing else does.
Requeued(s, c, o, q) == [s EXCEPT !.cnt = c, !.queue[o] = q]

LEMMA QueueAndCount ==
    ASSUME NEW U, NEW C, NEW s \in KernelStates(U, C), NEW c \in [C -> Int],
           NEW o \in Objects, NEW q \in Seq(Threads)
    PROVE  LET m == Requeued(s, c, o, q) IN
           /\ m \in KernelStates(U, C) /\ Apart(s, m) /\ m.cnt = c
           /\ m.queue = [s.queue EXCEPT ![o] = q]
<1> DEFINE m == Requeued(s, c, o, q)
<1>1. [s.queue EXCEPT ![o] = q] \in [Objects -> Seq(Threads)]
  BY DEF KernelStates
<1>2. m = [s EXCEPT !.cnt = c, !.queue = [s.queue EXCEPT ![o] = q]]
  BY DEF Requeued
<1> HIDE DEF m
<1>3. m \in KernelStates(U, C)
  BY <1>1, <1>2 DEF KernelStates
<1>4. Apart(s, m) /\ m.cnt = c /\ m.queue = [s.queue EXCEPT ![o] = q]
  BY <1>2 DEF KernelStates, Apart
<1>5. QED
  BY <1>3, <1>4 DEF m

\* The timer interrupt: whatever holds of the kernel once the timers that
\* fire are out of the list, and still after each callback, holds in the end.
LEMMA TimersFire ==
    ASSUME NEW U, NEW C, NEW s \in KernelStates(U, C), Queue(Pars(s.vt), Threads), NEW R,
           \A x \in KernelStates(U, C) :
              /\ Unmoved(s, x) /\ Queue(Pars(x.vt), Threads)
              /\ \A t \in Threads : Armed(x, t) => Armed(s, t)
              /\ OnTime(s) => OnTime(x)
              => x \in R,
           \A x \in R, t \in Threads : Armed(s, t) => Wakeup(x, t) \in R
    PROVE  SysTimerHandlerI(s) \in R
<1> DEFINE m == [s EXCEPT !.preempt[s.current] = IF @ > 0 THEN @ - 1 ELSE 0]
           v == VTDoTickI(m)
<1>1. s.vt \in Seq(Timers) /\ s.current \in Threads /\ s.preempt[s.current] \in Nat
  BY DEF KernelStates, Timers
<1>2. m \in KernelStates(U, C) /\ Unmoved(s, m) /\ m.vt = s.vt /\ m.due = s.due
  <2>1. (IF s.preempt[s.current] > 0 THEN s.preempt[s.current] - 1 ELSE 0) \in Nat
    BY <1>1
  <2>2. QED
    BY <2>1 DEF KernelStates, Unmoved
<1>3. SysTimerHandlerI(s) = v
  BY DEF SysTimerHandlerI
<1> HIDE DEF m, v
<1>4. v \in R
  <2>1. CASE m.vt = <<>>
    <3>1. v = m
      BY <2>1 DEF VTDoTickI, v
    <3>2. \A t \in Threads : Armed(m, t) <=> Armed(s, t)
      BY <1>2 DEF Armed
    <3>3. OnTime(s) => OnTime(m)
      BY <1>2 DEF OnTime, Due
    <3>4. QED
      BY <1>2, <3>1, <3>2, <3>3
  <2>2. CASE m.vt # <<>>
    <3> DEFINE vt    == [m.vt EXCEPT ![1].time = @ - 1]
               later == {i \in DOMAIN vt : vt[i].time # 0}
               n     == IF later = {} THEN Len(vt) ELSE Min(later) - 1
               rest  == SubSeq(vt, n + 1, Len(vt))
               fired == SubSeq(vt, 1, n)
               left  == [m EXCEPT !.vt = rest,
                             !.due = [t \in Threads |-> IF @[t] > 0 THEN @[t] - 1 ELSE 0]]
    <3>1. v = WakeUp(left, fired)
      BY <2>2 DEF VTDoTickI, WakeUp, v
    <3>2. /\ Len(s.vt) \in Nat /\ DOMAIN s.vt = 1..Len(s.vt)
          /\ Pars(s.vt) \in Seq(Threads) /\ Len(Pars(s.vt)) = Len(s.vt)
          /\ \A i \in 1..Len(s.vt) : /\ s.vt[i] \in Timers /\ Pars(s.vt)[i] = s.vt[i].par
                                     /\ s.vt[i].par \in Threads /\ s.vt[i].time \in Int
      BY <1>1, ParsOfTimers
    <3>3. vt \in Seq(Timers) /\ Len(vt) = Len(s.vt) /\ \A i \in 1..Len(s.vt) : vt[i].par = s.vt[i].par
      <4>1. 1 \in 1..Len(s.vt)
        BY <1>1, <1>2, <2>2, EmptySeq, <3>2
      <4>2. [m.vt[1] EXCEPT !.time = @ - 1] \in Timers /\ [m.vt[1] EXCEPT !.time = @ - 1].par = s.vt[1].par
        <5> DEFINE e == m.vt[1]
        <5>1. e \in Timers /\ e.par = s.vt[1].par /\ 1 \in Int
          BY <1>2, <3>2, <4>1
        <5> HIDE DEF e
        <5>2. [e EXCEPT !.time = @ - 1] \in Timers /\ [e EXCEPT !.time = @ - 1].par = e.par
          BY <5>1, TimerChanged
        <5>3. QED
          BY <5>1, <5>2 DEF e
      <4>3. vt = [m.vt EXCEPT ![1] = [m.vt[1] EXCEPT !.time = @ - 1]]
        OBVIOUS
      <4>4. vt \in [1..Len(s.vt) -> Timers] /\ \A i \in 1..Len(s.vt) : vt[i].par = s.vt[i].par
        <5>1. m.vt \in [1..Len(s.vt) -> Timers]
          BY <1>1, <1>2, <3>2
        <5>2. QED
          BY <1>2, <4>1, <4>2, <4>3, <5>1
      <4> HIDE DEF vt
      <4>5. QED
        BY <3>2, <4>4, FunctionIsSeq
    <3>20. /\ Len(s.vt) > 0
           /\ \A i \in 1..Len(s.vt) :
                vt[i].time = IF i = 1 THEN s.vt[i].time - 1 ELSE s.vt[i].time
      <4>1. 1 \in 1..Len(s.vt) /\ Len(s.vt) > 0
        BY <1>1, <1>2, <2>2, EmptySeq, <3>2
      <4>2. vt = [m.vt EXCEPT ![1] = [m.vt[1] EXCEPT !.time = @ - 1]]
        OBVIOUS
      <4> DEFINE e == m.vt[1]
      <4>3. e \in Timers /\ e = s.vt[1]
        BY <1>2, <3>2, <4>1
      <4> HIDE DEF vt, e
      <4>4. [e EXCEPT !.time = @ - 1].time = e.time - 1
        BY <4>3 DEF Timers
      <4>5. vt[1] = [e EXCEPT !.time = @ - 1] /\ \A i \in 1..Len(s.vt) : i # 1 => vt[i] = s.vt[i]
        BY <1>2, <3>2, <4>1, <4>2 DEF e
      <4>6. QED
        BY <4>1, <4>3, <4>4, <4>5
    <3>4. n \in 0..Len(vt)
      <4>1. later \in SUBSET DOMAIN vt /\ Len(vt) \in Nat
        BY <3>2, <3>3
      <4> HIDE DEF vt, later
      <4>2. (IF later = {} THEN Len(vt) + 1 ELSE Min(later)) \in 1..(Len(vt) + 1)
        BY <3>3, <4>1, InsertedSomewhere
      <4>3. CASE later = {}
        BY <4>1, <4>3
      <4>4. CASE later # {}
        BY <4>1, <4>2, <4>4
      <4>5. QED
        BY <4>3, <4>4
    <3>21. /\ \A i \in 1..n : vt[i].time = 0
           /\ n < Len(s.vt) => vt[n + 1].time # 0
      <4> DEFINE at == IF later = {} THEN Len(vt) + 1 ELSE Min(later)
      <4>1. Len(vt) \in Nat /\ DOMAIN vt = 1..Len(vt) /\ later \in SUBSET (1..Len(vt))
        BY <3>2, <3>3
      <4>2. \A i \in 1..Len(vt) : i \in later <=> vt[i].time # 0
        BY <4>1
      <4>3. n = at - 1
        <5>1. later = {} => n = Len(vt) /\ at = Len(vt) + 1
          OBVIOUS
        <5>2. later # {} => n = Min(later) - 1 /\ at = Min(later)
          OBVIOUS
        <5> HIDE DEF n, at, later, vt
        <5>3. QED
          BY <4>1, <5>1, <5>2
      <4> HIDE DEF vt, later, n
      <4>4. /\ later # {} => Min(later) \in later
            /\ \A i \in 1..Len(vt) : i < at => i \notin later
        BY <4>1, FirstPlace
      <4>5. at <= Len(vt) => at \in later
        <5>1. later = {} => at = Len(vt) + 1
          OBVIOUS
        <5>2. later # {} => at \in later
          BY <4>4
        <5> HIDE DEF at
        <5>3. QED
          BY <4>1, <5>1, <5>2
      <4> HIDE DEF at
      <4>6. at = n + 1 /\ n \in 0..Len(vt)
        <5>1. at \in 1..(Len(vt) + 1)
          BY <4>1, FirstPlace DEF at
        <5>2. QED
          BY <4>1, <4>3, <5>1
      <4>7. \A i \in 1..n : i \in 1..Len(vt) /\ i < at
        BY <4>1, <4>6
      <4>8. n < Len(vt) => n + 1 \in 1..Len(vt) /\ n + 1 \in later
        BY <4>1, <4>5, <4>6
      <4>9. QED
        BY <3>3, <4>2, <4>4, <4>7, <4>8
    <3> HIDE DEF vt, n
    <3>5. /\ rest \in Seq(Timers) /\ Len(rest) = Len(vt) - n
          /\ \A i \in 1..(Len(vt) - n) : rest[i] = vt[n + i]
      BY <3>3, <3>4
    <3>6. fired \in Seq(Timers) /\ Len(fired) = n /\ \A i \in 1..n : fired[i] = vt[i]
      BY <3>3, <3>4
    <3> HIDE DEF rest, fired
    <3>7. Pars(rest) = SubSeq(Pars(s.vt), n + 1, Len(vt))
      <4> DEFINE b == SubSeq(Pars(s.vt), n + 1, Len(vt))
      <4>1. /\ b \in Seq(Threads) /\ Len(b) = Len(vt) - n
            /\ \A i \in 1..(Len(vt) - n) : b[i] = Pars(s.vt)[n + i]
        BY <3>2, <3>3, <3>4
      <4> HIDE DEF b
      <4>2. \A i \in 1..(Len(vt) - n) : n + i \in 1..Len(s.vt)
        BY <3>2, <3>3, <3>4
      <4>3. \A i \in 1..(Len(vt) - n) : rest[i].par = b[i]
        BY <3>2, <3>3, <3>5, <4>1, <4>2
      <4>4. QED
        BY <3>5, <4>1, <4>3, SamePars DEF b
    <3>8. \A i \in 1..Len(fired) : fired[i].par \in Threads /\ Armed(s, fired[i].par)
      <4> SUFFICES ASSUME NEW i \in 1..Len(fired)
                   PROVE  fired[i].par \in Threads /\ Armed(s, fired[i].par)
        OBVIOUS
      <4>1. i \in 1..Len(s.vt) /\ fired[i].par = s.vt[i].par
        BY <3>2, <3>3, <3>4, <3>6
      <4>2. QED
        BY <3>2, <4>1 DEF Armed
    <3>9. Queue(Pars(rest), Threads) /\ ToSet(Pars(rest)) \subseteq ToSet(Pars(s.vt))
      BY <3>2, <3>3, <3>4, <3>7, SuffixQueue
    <3>10. /\ left \in KernelStates(U, C) /\ Unmoved(s, left) /\ left.vt = rest
           /\ left.due = [t \in Threads |-> IF s.due[t] > 0 THEN s.due[t] - 1 ELSE 0]
      <4>1. rest \in Seq([par : Threads, time : Int])
        BY <3>5 DEF Timers
      <4>2. [t \in Threads |-> IF m.due[t] > 0 THEN m.due[t] - 1 ELSE 0] \in [Threads -> Int]
        <5>1. m.due \in [Threads -> Int]
          BY <1>2 DEF KernelStates
        <5>2. QED
          BY <5>1
      <4>3. left \in KernelStates(U, C)
        BY <1>2, <4>1, <4>2 DEF KernelStates
      <4>4. /\ Unmoved(s, left) /\ left.vt = rest
            /\ left.due = [t \in Threads |-> IF s.due[t] > 0 THEN s.due[t] - 1 ELSE 0]
        BY <1>2 DEF KernelStates, Unmoved
      <4>5. QED
        BY <4>3, <4>4
    <3> HIDE DEF left
    <3>11. ASSUME NEW t \in Threads, Armed(left, t) PROVE Armed(s, t)
      <4>1. t \in ToSet(Pars(left.vt)) /\ left.vt \in Seq(Timers)
        BY <3>5, <3>10, <3>11, ArmedIsPar
      <4>2. t \in ToSet(Pars(s.vt))
        BY <3>9, <3>10, <4>1
      <4>3. QED
        BY <1>1, <4>2, ArmedIsPar
    <3>16. ASSUME OnTime(s) PROVE OnTime(left)
      <4>1. TimerState(s)
        BY <1>1 DEF TimerState, KernelStates
      <4>2. left.vt = rest
        BY <3>10
      <4>3. Len(left.vt) = Len(s.vt) - n /\ n \in 0..Len(s.vt)
        BY <3>3, <3>4, <3>5, <4>2
      <4>4. left.due = [t \in Threads |-> IF s.due[t] > 0 THEN s.due[t] - 1 ELSE 0]
        BY <3>10, <4>2
      <4>5. ASSUME NEW i \in 1..n PROVE s.vt[i].time = IF i = 1 THEN 1 ELSE 0
        <5>1. i \in 1..Len(s.vt) /\ vt[i].time = 0 /\ s.vt[i].time \in Int
          BY <3>2, <3>21, <4>3
        <5>2. QED
          BY <3>20, <5>1
      <4>6. n < Len(s.vt) => (IF n = 0 THEN s.vt[1].time # 1 ELSE s.vt[n + 1].time # 0)
        <5>1. n < Len(s.vt) => n + 1 \in 1..Len(s.vt)
          BY <3>2, <4>3
        <5>2. n < Len(s.vt) =>
                vt[n + 1].time = (IF n = 0 THEN s.vt[1].time - 1 ELSE s.vt[n + 1].time)
          BY <3>20, <4>3, <5>1
        <5>3. QED
          BY <3>2, <3>20, <3>21, <4>3, <5>2
      <4>7. ASSUME NEW j \in 1..(Len(s.vt) - n)
            PROVE  /\ left.vt[j].par = s.vt[n + j].par
                   /\ n + j > 1 => left.vt[j].time = s.vt[n + j].time
                   /\ n + j = 1 => left.vt[j].time = s.vt[1].time - 1
        <5>1. n + j \in 1..Len(s.vt) /\ left.vt[j] = vt[n + j]
          BY <3>2, <3>3, <3>5, <4>2, <4>3
        <5>2. QED
          BY <3>3, <3>20, <5>1
      <4>8. n = 0 => left.vt[1].time = s.vt[1].time - 1
        <5>1. n = 0 => 1 \in 1..(Len(s.vt) - n) /\ n + 1 = 1
          BY <3>2, <3>20
        <5>2. QED
          BY <4>7, <5>1
      <4>9. n >= 1 => s.vt[1].time = 1
        <5>1. n >= 1 => 1 \in 1..n
          BY <4>3
        <5>2. QED
          BY <4>5, <5>1
      <4>10. \A i \in 2..n : s.vt[i].time = 0
        <5>1. \A i \in 2..n : i \in 1..n /\ i # 1
          BY <4>3
        <5>2. QED
          BY <4>5, <5>1
      <4>11. /\ n = 0 => s.vt[1].time # 1
             /\ 0 < n /\ n < Len(s.vt) => s.vt[n + 1].time # 0
        BY <3>20, <4>6
      <4>12. /\ \A j \in 1..(Len(s.vt) - n) : left.vt[j].par = s.vt[n + j].par
             /\ \A j \in 1..(Len(s.vt) - n) : n + j > 1 => left.vt[j].time = s.vt[n + j].time
        BY <4>7
      <4>13. Len(s.vt) > 0 /\ n \in 0..Len(s.vt) /\ Len(left.vt) = Len(s.vt) - n
        BY <3>20, <4>3
      <4>14. CountsDown(s, n, left)
        BY <4>4, <4>8, <4>9, <4>10, <4>11, <4>12, <4>13 DEF CountsDown
      <4>15. QED
        BY <3>16, <4>1, <4>13, <4>14, TimersCountDown
    <3>17. left \in R
      BY <3>9, <3>10, <3>11, <3>16
    <3>18. \A x \in R, i \in 1..Len(fired) : Wakeup(x, fired[i].par) \in R
      BY <3>8
    <3>19. QED
      BY <3>1, <3>6, <3>17, <3>18, WakeAll
  <2>3. QED
    BY <2>1, <2>2
<1>5. QED
  BY <1>3, <1>4


\* The callback of the timer of thread t, that does not run: out of the queue
\* it waits in, if any, and a semaphore counts it out.
FiresIn(C, s, t) ==
    /\ t # s.current /\ s.state[t] # "WTMTX"
    /\ s.state[t] = "WTSEM" => s.u[t] \in C /\ s.u[t] \in Objects
    /\ s.state[t] \in {"WTQUEUE", "WTCOND"} => s.u[t] \in Objects /\ s.u[t] \notin C

LEMMA WakeupFrees ==
    ASSUME NEW U, NEW C, "TIMEOUT" \in U, NEW s \in KernelStates(U, C), Placed(s),
           NEW t \in Threads, ~Runs(s, t), FiresIn(C, s, t)
    PROVE  LET r == Wakeup(s, t)
               o == s.u[t] IN
           /\ r \in KernelStates(U, C) /\ Placed(r) /\ Frees(s, r, t, "TIMEOUT")
           /\ r.current = s.current /\ (Sorted(s) => Sorted(r))
           /\ s.state[t] \notin WaitStates => r.queue = s.queue /\ r.cnt = s.cnt
           /\ s.state[t] \in WaitStates =>
                /\ o \in Objects /\ Len(s.queue[o]) > 0
                /\ Len(r.queue[o]) = Len(s.queue[o]) - 1
                /\ \A x \in Objects \ {o} : r.queue[x] = s.queue[x]
                /\ IF s.state[t] = "WTSEM" THEN o \in C /\ r.cnt = [s.cnt EXCEPT ![o] = @ + 1]
                                           ELSE o \notin C /\ r.cnt = s.cnt
<1> DEFINE r == Wakeup(s, t)
           o == s.u[t]
<1>1. /\ s.state \in [Threads -> States] /\ s.cnt \in [C -> Int]
      /\ s.queue \in [Objects -> Seq(Threads)] /\ s.current \in Threads
  BY DEF KernelStates
<1>2. s.state[t] # "READY" /\ s.state[t] # "CURRENT"
  BY DEF Runs, Runnable
<1>3. s.state[s.current] = "CURRENT" /\ Apart(s, s)
  BY <1>1 DEF Placed, ThreadPlaced, Apart
<1>4. CASE s.state[t] \notin WaitStates
  <2>1. r = ReadyWith(s, t, "TIMEOUT")
    BY <1>2, <1>4 DEF Wakeup, WaitStates
  <2>2. PlacedBut(s, t)
    BY <1>2, <1>4 DEF PlacedBut, Placed, ThreadPlaced, FiresIn
  <2>3. QED
    BY <1>3, <1>4, <2>1, <2>2, ReadyWithFrees
<1>5. CASE s.state[t] \in WaitStates
  <2> DEFINE c == IF s.state[t] = "WTSEM" THEN [s.cnt EXCEPT ![o] = @ + 1] ELSE s.cnt
             q == Dequeue(s.queue[o], t)
             m == Requeued(s, c, o, q)
  <2>1. o \in Objects /\ s.state[t] \in {"WTSEM", "WTQUEUE", "WTCOND"}
    BY <1>5 DEF FiresIn, WaitStates
  <2>2. t \in ToSet(s.queue[o]) /\ Queue(s.queue[o], Threads)
    BY <1>5, <2>1 DEF Placed, ThreadPlaced, QueuesSound
  <2>3. /\ Queue(q, Threads) /\ ToSet(q) = ToSet(s.queue[o]) \ {t}
        /\ Len(q) = Len(s.queue[o]) - 1
    BY <2>2, DequeuedQueue
  <2>4. c \in [C -> Int] /\ q \in Seq(Threads)
    <3> DEFINE d == [s.cnt EXCEPT ![o] = @ + 1]
    <3>1. s.state[t] = "WTSEM" => d \in [C -> Int]
      BY <1>1 DEF FiresIn
    <3> HIDE DEF d
    <3>2. c = IF s.state[t] = "WTSEM" THEN d ELSE s.cnt
      BY DEF d
    <3> HIDE DEF c
    <3>3. c \in [C -> Int]
      BY <1>1, <3>1, <3>2
    <3>4. QED
      BY <2>3, <3>3 DEF Queue
  <2>5. r = ReadyWith(m, t, "TIMEOUT")
    <3>1. CASE s.state[t] = "WTSEM"
      <4>1. m = [s EXCEPT !.cnt[o] = @ + 1, !.queue[o] = Dequeue(@, t)]
        BY <3>1 DEF Requeued
      <4>2. QED
        BY <3>1, <4>1 DEF Wakeup
    <3>2. CASE s.state[t] \in {"WTQUEUE", "WTCOND"}
      <4>1. m = [s EXCEPT !.queue[o] = Dequeue(@, t)]
        BY <3>2 DEF KernelStates, Requeued
      <4>2. QED
        BY <3>2, <4>1 DEF Wakeup
    <3>3. QED
      BY <2>1, <3>1, <3>2
  <2> HIDE DEF c, q, r, o
  <2>6. /\ m \in KernelStates(U, C) /\ Apart(s, m) /\ m.cnt = c
        /\ m.queue = [s.queue EXCEPT ![o] = q]
    BY <2>1, <2>4, QueueAndCount
  <2> HIDE DEF m
  <2>7. PlacedBut(m, t) /\ m.state[m.current] = "CURRENT"
    BY <2>1, <2>2, <2>3, <2>6, OutOfQueue
  <2>8. /\ r \in KernelStates(U, C) /\ Placed(r) /\ Frees(s, r, t, "TIMEOUT")
        /\ r.current = s.current /\ r.queue = m.queue /\ r.cnt = m.cnt
        /\ Sorted(s) => Sorted(r)
    BY <2>5, <2>6, <2>7, ReadyWithFrees
  <2>9. Len(s.queue[o]) > 0
    BY <2>2, QueueSet DEF Queue
  <2>10. /\ Len(r.queue[o]) = Len(s.queue[o]) - 1
         /\ \A x \in Objects \ {o} : r.queue[x] = s.queue[x]
    BY <1>1, <2>1, <2>3, <2>6, <2>8
  <2>11. IF s.state[t] = "WTSEM" THEN o \in C /\ r.cnt = [s.cnt EXCEPT ![o] = @ + 1]
                                 ELSE o \notin C /\ r.cnt = s.cnt
    BY <2>1, <2>6, <2>8 DEF c, o, FiresIn
  <2>12. QED
    BY <1>5, <2>1, <2>8, <2>9, <2>10, <2>11 DEF r, o
<1>6. QED
  BY <1>4, <1>5

\* As many threads wait for a semaphore as its counter is below zero.
Counted(s, o) == Len(s.queue[o]) = (IF s.cnt[o] < 0 THEN -s.cnt[o] ELSE 0)
Above(n) == IF n > 0 THEN n ELSE 0

\* What the timer interrupt does to a kernel state s: threads whose timer is
\* over can run, and know why; the semaphores have counted them out.
TimedOut(C, s, r) ==
    /\ r.current = s.current /\ r.prio = s.prio
    /\ \A t \in Threads :
         /\ Runs(s, t) => Runs(r, t) /\ r.u[t] = s.u[t]
         /\ Runs(r, t) /\ ~Runs(s, t) => Armed(s, t) /\ r.u[t] = "TIMEOUT"
         /\ ~Runs(r, t) => r.state[t] = s.state[t] /\ r.u[t] = s.u[t]
    /\ \A o \in C \cap Objects :
         Counted(s, o) => Counted(r, o) /\ Above(r.cnt[o]) = Above(s.cnt[o])
    /\ (\A t \in Threads : Armed(s, t) => s.state[t] \notin WaitStates) =>
         r.queue = s.queue /\ r.cnt = s.cnt

LEMMA WakeupTimesOut ==
    ASSUME NEW U, NEW C, "TIMEOUT" \in U, NEW s \in KernelStates(U, C),
           NEW r \in KernelStates(U, C), Placed(r), TimedOut(C, s, r),
           NEW t \in Threads, Armed(s, t), ~Runs(s, t), FiresIn(C, s, t)
    PROVE  LET w == Wakeup(r, t) IN
           /\ w \in KernelStates(U, C) /\ Placed(w) /\ TimedOut(C, s, w)
           /\ w.vt = r.vt /\ w.due = r.due
           /\ Sorted(r) => Sorted(w)
<1> DEFINE w == Wakeup(r, t)
           o == r.u[t]
<1>1. /\ t # r.current
      /\ \A x \in Threads :
           /\ Runs(s, x) => Runs(r, x) /\ r.u[x] = s.u[x]
           /\ Runs(r, x) /\ ~Runs(s, x) => Armed(s, x) /\ r.u[x] = "TIMEOUT"
           /\ ~Runs(r, x) => r.state[x] = s.state[x] /\ r.u[x] = s.u[x]
  BY DEF FiresIn, TimedOut
<1>2. CASE Runs(r, t)
  <2>1. r.state[t] = "READY"
    BY <1>1, <1>2 DEF Runs, Runnable, Placed, ThreadPlaced
  <2>2. w = r
    BY <2>1 DEF Wakeup
  <2>3. QED
    BY <2>2
<1>3. CASE ~Runs(r, t)
  <2>1. r.state[t] = s.state[t] /\ r.u[t] = s.u[t]
    BY <1>1, <1>3
  <2>2. FiresIn(C, r, t)
    BY <1>1, <2>1 DEF FiresIn
  <2>3. /\ w \in KernelStates(U, C) /\ Placed(w) /\ Frees(r, w, t, "TIMEOUT")
        /\ w.current = r.current /\ (Sorted(r) => Sorted(w))
        /\ r.state[t] \notin WaitStates => w.queue = r.queue /\ w.cnt = r.cnt
        /\ r.state[t] \in WaitStates =>
             /\ o \in Objects /\ Len(r.queue[o]) > 0
             /\ Len(w.queue[o]) = Len(r.queue[o]) - 1
             /\ \A x \in Objects \ {o} : w.queue[x] = r.queue[x]
             /\ IF r.state[t] = "WTSEM" THEN o \in C /\ w.cnt = [r.cnt EXCEPT ![o] = @ + 1]
                                        ELSE o \notin C /\ w.cnt = r.cnt
    BY <1>3, <2>2, WakeupFrees
  <2>4. r.u \in [Threads -> U] /\ r.cnt \in [C -> Int]
    BY DEF KernelStates
  <2> HIDE DEF w, o
  <2>5. w.vt = r.vt /\ w.due = r.due /\ w.current = s.current /\ w.prio = s.prio
    BY <2>3 DEF Frees, TimedOut
  <2>6. ASSUME NEW x \in Threads
        PROVE  /\ Runs(s, x) => Runs(w, x) /\ w.u[x] = s.u[x]
               /\ Runs(w, x) /\ ~Runs(s, x) => Armed(s, x) /\ w.u[x] = "TIMEOUT"
               /\ ~Runs(w, x) => w.state[x] = s.state[x] /\ w.u[x] = s.u[x]
    <3>1. CASE x = t
      BY <2>3, <2>4, <3>1 DEF Frees
    <3>2. CASE x # t
      <4>1. w.u[x] = r.u[x] /\ (Runs(w, x) <=> Runs(r, x)) /\ (~Runs(r, x) => w.state[x] = r.state[x])
        BY <2>3, <2>4, <3>2 DEF Frees
      <4>2. QED
        BY <1>1, <4>1
    <3>3. QED
      BY <3>1, <3>2
  <2>7. ASSUME NEW x \in C \cap Objects, Counted(s, x)
        PROVE  Counted(w, x) /\ Above(w.cnt[x]) = Above(s.cnt[x])
    <3>1. Counted(r, x) /\ Above(r.cnt[x]) = Above(s.cnt[x])
      BY <2>7 DEF TimedOut
    <3>2. CASE r.state[t] = "WTSEM" /\ o = x
      <4>1. /\ w.cnt[x] = r.cnt[x] + 1 /\ Len(w.queue[x]) = Len(r.queue[x]) - 1
            /\ Len(r.queue[x]) > 0 /\ r.cnt[x] \in Int
        BY <2>3, <2>4, <3>2 DEF WaitStates
      <4>2. QED
        BY <3>1, <4>1 DEF Counted, Above
    <3>3. CASE ~(r.state[t] = "WTSEM" /\ o = x)
      <4>1. w.cnt[x] = r.cnt[x] /\ w.queue[x] = r.queue[x]
        BY <2>3, <2>4, <3>3
      <4>2. QED
        BY <3>1, <4>1 DEF Counted
    <3>4. QED
      BY <3>2, <3>3
  <2>8. ASSUME \A x \in Threads : Armed(s, x) => s.state[x] \notin WaitStates
        PROVE  w.queue = s.queue /\ w.cnt = s.cnt
    <3>1. r.queue = s.queue /\ r.cnt = s.cnt
      BY <2>8 DEF TimedOut
    <3>2. r.state[t] \notin WaitStates
      BY <2>1, <2>8
    <3>3. QED
      BY <2>3, <3>1, <3>2
  <2>9. TimedOut(C, s, w)
    BY <2>5, <2>6, <2>7, <2>8 DEF TimedOut
  <2>10. QED
    BY <2>3, <2>5, <2>9 DEF w
<1>4. QED
  BY <1>2, <1>3

\* Rescheduling writes no thread a note.
LEMMA NotesStay ==
    ASSUME NEW U, NEW C, NEW s \in KernelStates(U, C), Placed(s)
    PROVE  RescheduleS(s).u = s.u /\ Epilogue(s).u = s.u
<1> DEFINE n == TakeFirst(s)
           m == [n EXCEPT !.preempt[s.current] = Quantum]
<1>1. ASSUME s.ready # <<>>
      PROVE  DoRescheduleBehind(s).u = s.u /\ DoRescheduleAhead(s).u = s.u
  <2>1. n \in KernelStates(U, C) /\ n.u = s.u
    BY <1>1, TakeFirstPlaces
  <2> HIDE DEF n
  <2>2. m.u = n.u
    BY <2>1 DEF KernelStates
  <2>3. DoRescheduleBehind(s) = ReadyI(m, s.current)
    BY DEF DoRescheduleBehind, n
  <2>4. m \in KernelStates(U, C)
    BY <2>1, SchdAssumption DEF KernelStates
  <2> HIDE DEF m
  <2>5. ReadyI(m, s.current).u = m.u
    BY <2>4 DEF ReadyI, KernelStates
  <2>6. DoRescheduleAhead(s) = [n EXCEPT !.state[s.current] = "READY",
                                          !.ready = PrioInsertAhead(@, s.current, s.prio)]
    BY DEF DoRescheduleAhead, n
  <2>7. DoRescheduleAhead(s).u = n.u
    BY <2>1, <2>6 DEF KernelStates
  <2>8. QED
    BY <2>1, <2>2, <2>3, <2>5, <2>7
<1>2. s.prio[s.current] > 0 /\ s.prio[s.current] \in Nat /\ s.preempt[s.current] \in Nat
  BY DEF KernelStates
<1>3. s.ready = <<>> => FirstPrio(s) = 0
  BY DEF FirstPrio
<1>4. s.ready = <<>> => RescheduleS(s) = s /\ Epilogue(s) = s
  BY <1>2, <1>3 DEF RescheduleS, Epilogue, IsPreemptionRequired
<1>5. /\ RescheduleS(s) \in {s, DoRescheduleAhead(s)}
      /\ Epilogue(s) \in {s, DoRescheduleAhead(s), DoRescheduleBehind(s)}
  BY DEF RescheduleS, Epilogue, DoReschedule
<1>6. QED
  BY <1>1, <1>4, <1>5

(* Kernel states in the middle of a step, and at the end of one, when the   *)
(* most urgent thread runs.                                                 *)

Settled(U, C, s) ==
    /\ s \in KernelStates(U, C) /\ Placed(s) /\ Queue(Pars(s.vt), Threads)
    /\ Sorted(s) /\ OnTime(s)

\* All that rescheduling leaves alone.
SameThreads(s, r) ==
    /\ Kept(s, r) /\ r.u = s.u
    /\ \A t \in Threads : /\ Runs(r, t) <=> Runs(s, t)
                          /\ ~Runs(s, t) => r.state[t] = s.state[t]

LEMMA Resumes ==
    ASSUME NEW U, NEW C, NEW s, Settled(U, C, s)
    PROVE  /\ Settled(U, C, RescheduleS(s)) /\ TopRuns(RescheduleS(s))
           /\ SameThreads(s, RescheduleS(s))
           /\ Settled(U, C, Epilogue(s)) /\ TopRuns(Epilogue(s))
           /\ SameThreads(s, Epilogue(s))
<1>1. s \in KernelStates(U, C) /\ Placed(s) /\ Sorted(s) /\ Queue(Pars(s.vt), Threads) /\ OnTime(s)
  BY DEF Settled
<1>2. ASSUME NEW r \in KernelStates(U, C), Placed(r), Shuffled(s, r), Ordered(r), r.u = s.u
      PROVE  Settled(U, C, r) /\ TopRuns(r) /\ SameThreads(s, r)
  <2>1. r.vt = s.vt /\ r.due = s.due
    BY <1>2 DEF Shuffled, Kept
  <2>2. Queue(Pars(r.vt), Threads) /\ OnTime(r)
    BY <1>1, <2>1 DEF OnTime, Due
  <2>3. SameThreads(s, r)
    BY <1>2 DEF Shuffled, Sleepers, SameThreads
  <2>4. QED
    BY <1>2, <2>2, <2>3 DEF Settled, Ordered
<1>3. QED
  BY <1>1, <1>2, Reschedules, RescheduleOrders, NotesStay

\* What a tick has done once the timer interrupt is over.
TimesOut(C, s, r) ==
    /\ r.prio = s.prio
    /\ \A t \in Threads :
         /\ Runs(s, t) => Runs(r, t) /\ r.u[t] = s.u[t]
         /\ Runs(r, t) /\ ~Runs(s, t) => Armed(s, t) /\ r.u[t] = "TIMEOUT"
         /\ ~Runs(r, t) => r.state[t] = s.state[t] /\ r.u[t] = s.u[t]
         /\ Armed(r, t) => Armed(s, t)
    /\ \A o \in C \cap Objects :
         Counted(s, o) => Counted(r, o) /\ Above(r.cnt[o]) = Above(s.cnt[o])
    /\ (\A t \in Threads : Armed(s, t) => s.state[t] \notin WaitStates) =>
         r.queue = s.queue /\ r.cnt = s.cnt

LEMMA TickTimesOut ==
    ASSUME NEW U, NEW C, "TIMEOUT" \in U, NEW s \in KernelStates(U, C), Placed(s),
           Queue(Pars(s.vt), Threads),
           \A t \in Threads : Armed(s, t) => t # s.current /\ (Runs(s, t) \/ FiresIn(C, s, t))
    PROVE  LET r == Epilogue(SysTimerHandlerI(s)) IN
           /\ r \in KernelStates(U, C) /\ Placed(r) /\ Queue(Pars(r.vt), Threads)
           /\ TimesOut(C, s, r)
           /\ Sorted(s) => Ordered(r)
           /\ OnTime(s) => OnTime(r)
<1> DEFINE R == {x \in KernelStates(U, C) :
                   /\ Placed(x) /\ Queue(Pars(x.vt), Threads) /\ TimedOut(C, s, x)
                   /\ \A t \in Threads : Armed(x, t) => Armed(s, t)
                   /\ Sorted(s) => Sorted(x)
                   /\ OnTime(s) => OnTime(x)}
           v == SysTimerHandlerI(s)
           r == Epilogue(v)
<1>1. ASSUME NEW x \in KernelStates(U, C), Unmoved(s, x), Queue(Pars(x.vt), Threads),
             \A t \in Threads : Armed(x, t) => Armed(s, t), OnTime(s) => OnTime(x)
      PROVE  x \in R
  <2>1. Placed(x)
    BY <1>1, UnmovedPlaces
  <2>2. TimedOut(C, s, x)
    BY <1>1 DEF TimedOut, Unmoved, Runs, Counted
  <2>3. Sorted(s) => Sorted(x)
    BY <1>1 DEF Unmoved, Sorted
  <2>4. QED
    BY <1>1, <2>1, <2>2, <2>3
<1>2. ASSUME NEW x \in R, NEW t \in Threads, Armed(s, t) PROVE Wakeup(x, t) \in R
  <2> DEFINE w == Wakeup(x, t)
  <2>1. /\ x \in KernelStates(U, C) /\ Placed(x) /\ TimedOut(C, s, x)
        /\ Queue(Pars(x.vt), Threads)
        /\ \A y \in Threads : Armed(x, y) => Armed(s, y)
        /\ Sorted(s) => Sorted(x)
        /\ OnTime(s) => OnTime(x)
    OBVIOUS
  <2>2. t # s.current /\ (Runs(s, t) \/ FiresIn(C, s, t))
    BY <1>2
  <2> HIDE DEF R, w
  <2>3. CASE Runs(s, t)
    <3>1. Runs(x, t) /\ t # x.current
      BY <2>1, <2>2, <2>3 DEF TimedOut
    <3>2. x.state[t] = "READY"
      BY <2>1, <3>1 DEF Runs, Runnable, Placed, ThreadPlaced
    <3>3. w = x
      BY <3>2 DEF Wakeup, w
    <3>4. QED
      BY <3>3 DEF w
  <2>4. CASE ~Runs(s, t)
    <3>1. /\ w \in KernelStates(U, C) /\ Placed(w) /\ TimedOut(C, s, w)
          /\ w.vt = x.vt /\ w.due = x.due
          /\ Sorted(x) => Sorted(w)
      BY <1>2, <2>1, <2>2, <2>4, WakeupTimesOut DEF w
    <3>2. \A y \in Threads : Armed(w, y) <=> Armed(x, y)
      BY <3>1 DEF Armed
    <3>3. OnTime(x) => OnTime(w)
      BY <3>1 DEF OnTime, Due
    <3>4. QED
      BY <2>1, <3>1, <3>2, <3>3 DEF R, w
  <2>5. QED
    BY <2>3, <2>4
<1>3. v \in R
  <2> HIDE DEF R, v
  <2>1. \A x \in KernelStates(U, C) :
              /\ Unmoved(s, x) /\ Queue(Pars(x.vt), Threads)
              /\ \A t \in Threads : Armed(x, t) => Armed(s, t)
              /\ OnTime(s) => OnTime(x)
              => x \in R
    BY <1>1
  <2>2. \A x \in R, t \in Threads : Armed(s, t) => Wakeup(x, t) \in R
    BY <1>2
  <2>3. QED
    BY <2>1, <2>2, TimersFire DEF v
<1>4. /\ v \in KernelStates(U, C) /\ Placed(v) /\ TimedOut(C, s, v)
      /\ Queue(Pars(v.vt), Threads)
      /\ \A y \in Threads : Armed(v, y) => Armed(s, y)
      /\ Sorted(s) => Sorted(v)
      /\ OnTime(s) => OnTime(v)
  <2> HIDE DEF v
  <2>1. QED
    BY <1>3
<1> HIDE DEF R, v
<1>5. r \in KernelStates(U, C) /\ Placed(r) /\ Shuffled(v, r) /\ r.u = v.u
  BY <1>4, Reschedules, NotesStay
<1>6. Sorted(v) => Ordered(r)
  BY <1>4, RescheduleOrders
<1> HIDE DEF r
<1>7. r.vt = v.vt /\ r.due = v.due /\ r.queue = v.queue /\ r.cnt = v.cnt /\ r.prio = v.prio
  BY <1>5 DEF Shuffled, Kept
<1>8. Queue(Pars(r.vt), Threads) /\ (OnTime(v) => OnTime(r))
  BY <1>4, <1>7 DEF OnTime, Due
<1>9. TimesOut(C, s, r)
  <2>1. ASSUME NEW t \in Threads
        PROVE  /\ Runs(s, t) => Runs(r, t) /\ r.u[t] = s.u[t]
               /\ Runs(r, t) /\ ~Runs(s, t) => Armed(s, t) /\ r.u[t] = "TIMEOUT"
               /\ ~Runs(r, t) => r.state[t] = s.state[t] /\ r.u[t] = s.u[t]
               /\ Armed(r, t) => Armed(s, t)
    <3>1. /\ Runs(s, t) => Runs(v, t) /\ v.u[t] = s.u[t]
          /\ Runs(v, t) /\ ~Runs(s, t) => Armed(s, t) /\ v.u[t] = "TIMEOUT"
          /\ ~Runs(v, t) => v.state[t] = s.state[t] /\ v.u[t] = s.u[t]
          /\ Armed(v, t) => Armed(s, t)
      BY <1>4 DEF TimedOut
    <3>2. (Runs(r, t) <=> Runs(v, t)) /\ (~Runs(v, t) => r.state[t] = v.state[t])
      BY <1>5 DEF Shuffled, Sleepers
    <3>3. Armed(r, t) <=> Armed(v, t)
      BY <1>7 DEF Armed
    <3>4. QED
      BY <1>5, <3>1, <3>2, <3>3
  <2>2. ASSUME NEW o \in C \cap Objects, Counted(s, o)
        PROVE  Counted(r, o) /\ Above(r.cnt[o]) = Above(s.cnt[o])
    BY <1>4, <1>7, <2>2 DEF TimedOut, Counted
  <2>3. (\A t \in Threads : Armed(s, t) => s.state[t] \notin WaitStates) =>
           r.queue = s.queue /\ r.cnt = s.cnt
    BY <1>4, <1>7 DEF TimedOut
  <2>4. r.prio = s.prio
    BY <1>4, <1>7 DEF TimedOut
  <2>5. QED
    BY <2>1, <2>2, <2>3, <2>4 DEF TimesOut
<1>10. QED
  BY <1>4, <1>5, <1>6, <1>8, <1>9 DEF r, v

LEMMA TickPlaces ==
    ASSUME NEW U, NEW C, "TIMEOUT" \in U, NEW s \in KernelStates(U, C), Placed(s),
           Queue(Pars(s.vt), Threads),
           \A t \in Threads : Armed(s, t) => t # s.current /\ s.state[t] \notin WaitStates
    PROVE  LET r == Epilogue(SysTimerHandlerI(s)) IN
           /\ r \in KernelStates(U, C) /\ Placed(r) /\ Queue(Pars(r.vt), Threads)
           /\ r.queue = s.queue /\ r.cnt = s.cnt
           /\ \A t \in Threads :
                /\ Armed(r, t) => Armed(s, t)
                /\ Runs(s, t) => Runs(r, t)
                /\ Runs(r, t) => Runs(s, t) \/ Armed(s, t)
                /\ ~Runs(r, t) => r.state[t] = s.state[t] /\ r.u[t] = s.u[t]
           /\ Sorted(s) => Ordered(r)
           /\ OnTime(s) => OnTime(r)
<1> DEFINE r == Epilogue(SysTimerHandlerI(s))
<1>1. \A t \in Threads : Armed(s, t) => t # s.current /\ FiresIn(C, s, t)
  BY DEF FiresIn, WaitStates
<1>2. /\ r \in KernelStates(U, C) /\ Placed(r) /\ Queue(Pars(r.vt), Threads)
      /\ TimesOut(C, s, r)
      /\ Sorted(s) => Ordered(r)
      /\ OnTime(s) => OnTime(r)
  BY <1>1, TickTimesOut
<1> HIDE DEF r
<1>3. QED
  BY <1>2 DEF TimesOut, r

LEMMA Awakens ==
    ASSUME NEW U, NEW C, NEW s, Settled(U, C, s)
    PROVE  LET r == AwakeS(s) IN
           /\ Settled(U, C, r) /\ Unmoved(s, r) /\ (TopRuns(s) => TopRuns(r))
           /\ \A t \in Threads : Armed(r, t) <=> (Armed(s, t) /\ t # s.current)
<1> DEFINE r == AwakeS(s)
<1>1. s \in KernelStates(U, C) /\ Placed(s) /\ Sorted(s) /\ Queue(Pars(s.vt), Threads) /\ OnTime(s)
  BY DEF Settled
<1>2. /\ r \in KernelStates(U, C) /\ Unmoved(s, r) /\ Queue(Pars(r.vt), Threads) /\ OnTime(r)
      /\ \A t \in Threads : Armed(r, t) <=> (Armed(s, t) /\ t # s.current)
  BY <1>1, Awakes
<1> HIDE DEF r
<1>3. Placed(r) /\ Sorted(r) /\ (TopRuns(s) => TopRuns(r))
  BY <1>1, <1>2, UnmovedPlaces DEF Unmoved, Sorted, TopRuns
<1>4. QED
  BY <1>2, <1>3 DEF Settled, r

\* The counters change and nothing else does.
Recounted(s, c) == [s EXCEPT !.cnt = c]

LEMMA CountsChange ==
    ASSUME NEW U, NEW C, NEW s, Settled(U, C, s), NEW c \in [C -> Int]
    PROVE  LET r == Recounted(s, c) IN
           /\ Settled(U, C, r) /\ Apart(s, r) /\ r.cnt = c /\ r.queue = s.queue
           /\ TopRuns(s) => TopRuns(r)
<1> DEFINE r == Recounted(s, c)
<1>1. s \in KernelStates(U, C) /\ Placed(s) /\ Sorted(s) /\ Queue(Pars(s.vt), Threads) /\ OnTime(s)
  BY DEF Settled
<1>2. r \in KernelStates(U, C) /\ Apart(s, r) /\ r.cnt = c /\ r.queue = s.queue
  BY <1>1 DEF Recounted, KernelStates, Apart
<1> HIDE DEF r
<1>3. Placed(r)
  BY <1>1, <1>2 DEF Apart, Placed, QueuesSound, ThreadPlaced
<1>4. Queue(Pars(r.vt), Threads) /\ OnTime(r) /\ Sorted(r) /\ (TopRuns(s) => TopRuns(r))
  BY <1>1, <1>2 DEF Apart, OnTime, Due, Sorted, TopRuns
<1>5. QED
  BY <1>2, <1>3, <1>4 DEF Settled, r

\* The threads of W can run, each with the note msg.
LetGone(s, r, W, msg) ==
    /\ r.u = [t \in Threads |-> IF t \in W THEN msg ELSE s.u[t]]
    /\ \A t \in Threads : /\ Runs(r, t) <=> (Runs(s, t) \/ t \in W)
                          /\ ~Runs(r, t) => r.state[t] = s.state[t]
    /\ r.vt = s.vt /\ r.due = s.due /\ r.prio = s.prio

\* Thread w has left the queue of o for q, with the note msg; the counters
\* are c.
Left(s, r, c, o, q, w, msg) ==
    r.cnt = c /\ r.queue = [s.queue EXCEPT ![o] = q] /\ LetGone(s, r, {w}, msg)

LeftBy(U, C, s, c, o, q, w, msg) ==
    LET a == ReadyWith(Requeued(s, c, o, q), w, msg)
        b == WakeupS(Requeued(s, c, o, q), w, msg) IN
    /\ w \in Threads /\ ~Runs(s, w) /\ s.state[w] \in WaitStates /\ s.u[w] = o
    /\ Settled(U, C, a) /\ Left(s, a, c, o, q, w, msg) /\ a.current = s.current
    /\ NoneAbove(s, w) => Settled(U, C, b) /\ TopRuns(b) /\ Left(s, b, c, o, q, w, msg)

LEMMA LeavesWhere ==
    ASSUME NEW U, NEW C, NEW s, Settled(U, C, s), NEW msg \in U, NEW o \in Objects,
           NEW w \in ToSet(s.queue[o]), NEW q, Queue(q, Threads),
           ToSet(q) = ToSet(s.queue[o]) \ {w}, NEW c \in [C -> Int]
    PROVE  LeftBy(U, C, s, c, o, q, w, msg)
<1> DEFINE m == Requeued(s, c, o, q)
           a == ReadyWith(m, w, msg)
           b == WakeupS(m, w, msg)
<1>1. s \in KernelStates(U, C) /\ Placed(s) /\ Sorted(s) /\ Queue(Pars(s.vt), Threads) /\ OnTime(s)
  BY DEF Settled
<1>2. /\ m \in KernelStates(U, C) /\ Apart(s, m) /\ m.cnt = c
      /\ m.queue = [s.queue EXCEPT ![o] = q]
  BY <1>1, QueueAndCount DEF Queue
<1> HIDE DEF m
<1>3. /\ w \in Threads /\ s.state[w] \in WaitStates /\ s.u[w] = o /\ ~Runs(s, w)
      /\ w # s.current /\ PlacedBut(m, w) /\ m.state[m.current] = "CURRENT"
  BY <1>1, <1>2, OutOfQueue
<1>4. /\ a \in KernelStates(U, C) /\ Placed(a) /\ Frees(s, a, w, msg)
      /\ a.current = s.current /\ a.queue = m.queue /\ a.cnt = m.cnt
      /\ Sorted(s) => Sorted(a)
  BY <1>1, <1>2, <1>3, ReadyWithFrees
<1>5. /\ b \in KernelStates(U, C) /\ Placed(b) /\ Frees(s, b, w, msg)
      /\ b.queue = m.queue /\ b.cnt = m.cnt
      /\ Sorted(s) /\ NoneAbove(s, w) => Ordered(b)
  BY <1>1, <1>2, <1>3, WakeupSFrees
<1> HIDE DEF a, b
<1>6. ASSUME NEW r, r \in KernelStates(U, C), Frees(s, r, w, msg)
      PROVE  LetGone(s, r, {w}, msg) /\ Queue(Pars(r.vt), Threads) /\ OnTime(r)
  <2>1. s.u \in [Threads -> U] /\ r.vt = s.vt /\ r.due = s.due
    BY <1>1, <1>6 DEF KernelStates, Frees
  <2>2. Queue(Pars(r.vt), Threads) /\ OnTime(r)
    BY <1>1, <2>1 DEF OnTime, Due
  <2>3. r.u = [t \in Threads |-> IF t \in {w} THEN msg ELSE s.u[t]]
    BY <1>6, <2>1 DEF Frees
  <2>4. \A t \in Threads : ~Runs(r, t) => r.state[t] = s.state[t]
    BY <1>6 DEF Frees
  <2>5. QED
    BY <1>6, <2>2, <2>3, <2>4 DEF Frees, LetGone
<1>7. Settled(U, C, a) /\ LetGone(s, a, {w}, msg)
  BY <1>1, <1>4, <1>6 DEF Settled
<1>8. NoneAbove(s, w) => Settled(U, C, b) /\ TopRuns(b) /\ LetGone(s, b, {w}, msg)
  BY <1>1, <1>5, <1>6 DEF Settled, Ordered
<1>9. QED
  BY <1>2, <1>3, <1>4, <1>5, <1>7, <1>8 DEF m, a, b, Left, LeftBy

\* The same of a thread that is made ready and keeps its note.
ReadiedFrom(U, C, s, c, o, q, w) ==
    LET r == ReadyI(Requeued(s, c, o, q), w) IN
    /\ w \in Threads /\ ~Runs(s, w) /\ w # s.current
    /\ Settled(U, C, r) /\ r.current = s.current /\ r.prio = s.prio /\ r.u = s.u /\ r.vt = s.vt
    /\ r.queue = [s.queue EXCEPT ![o] = q]
    /\ \A x \in Threads : /\ Runs(r, x) <=> Runs(s, x) \/ x = w
                          /\ ~Runs(r, x) => r.state[x] = s.state[x]

LEMMA LeavesReady ==
    ASSUME NEW U, NEW C, NEW s, Settled(U, C, s), NEW o \in Objects,
           NEW w \in ToSet(s.queue[o]), NEW q, Queue(q, Threads),
           ToSet(q) = ToSet(s.queue[o]) \ {w}, NEW c \in [C -> Int]
    PROVE  ReadiedFrom(U, C, s, c, o, q, w)
<1> DEFINE p == Requeued(s, c, o, q)
           r == ReadyI(p, w)
<1>1. s \in KernelStates(U, C) /\ Placed(s) /\ Sorted(s) /\ Queue(Pars(s.vt), Threads) /\ OnTime(s)
  BY DEF Settled
<1>2. p \in KernelStates(U, C) /\ Apart(s, p) /\ p.queue = [s.queue EXCEPT ![o] = q]
  BY <1>1, QueueAndCount DEF Queue
<1> HIDE DEF p
<1>3. w \in Threads /\ ~Runs(s, w) /\ w # s.current /\ PlacedBut(p, w)
  BY <1>1, <1>2, OutOfQueue
<1>4. /\ r \in KernelStates(U, C) /\ Placed(r) /\ Woken(p, w, r) /\ r.current = p.current
  BY <1>2, <1>3, ReadyIPlaces
<1>5. Sorted(r)
  <2>1. Sorted(p)
    BY <1>1, <1>2 DEF Sorted, Apart
  <2>2. QED
    BY <1>2, <1>3, <2>1, ReadyISorts
<1>6. r.u = p.u
  BY <1>2 DEF ReadyI, KernelStates
<1> HIDE DEF r
<1>7. /\ r.prio = s.prio /\ r.vt = s.vt /\ r.due = s.due /\ r.u = s.u /\ r.current = s.current
      /\ r.queue = [s.queue EXCEPT ![o] = q]
  BY <1>2, <1>4, <1>6 DEF Woken, Kept, Apart
<1>8. Settled(U, C, r)
  BY <1>1, <1>4, <1>5, <1>7 DEF Settled, OnTime, Due
<1>9. ASSUME NEW x \in Threads
      PROVE  /\ Runs(r, x) <=> Runs(s, x) \/ x = w
             /\ ~Runs(r, x) => r.state[x] = s.state[x]
  <2>1. /\ Runs(r, x) <=> Runs(p, x) \/ x = w
        /\ x # w /\ ~Runs(p, x) => r.state[x] = p.state[x]
    BY <1>4 DEF Woken, Sleepers
  <2>2. p.state = s.state
    BY <1>2 DEF Apart
  <2>3. QED
    BY <2>1, <2>2 DEF Runs
<1>10. QED
  BY <1>3, <1>7, <1>8, <1>9 DEF ReadiedFrom, r, p

LEMMA LeavesQueue ==
    ASSUME NEW U, NEW C, NEW s, Settled(U, C, s), NEW msg \in U, NEW o \in Objects,
           NEW w \in ToSet(s.queue[o]), NEW q, Queue(q, Threads),
           ToSet(q) = ToSet(s.queue[o]) \ {w}, NEW c \in [C -> Int]
    PROVE  LET a == ReadyWith(Requeued(s, c, o, q), w, msg)
               b == WakeupS(Requeued(s, c, o, q), w, msg) IN
           /\ w \in Threads /\ ~Runs(s, w) /\ s.state[w] \in WaitStates /\ s.u[w] = o
           /\ Settled(U, C, a) /\ Left(s, a, c, o, q, w, msg) /\ a.current = s.current
           /\ TopRuns(s) => Settled(U, C, b) /\ TopRuns(b) /\ Left(s, b, c, o, q, w, msg)
<1>1. LeftBy(U, C, s, c, o, q, w, msg)
  BY LeavesWhere
<1>2. TopRuns(s) => NoneAbove(s, w)
  BY DEF TopRuns, NoneAbove
<1>3. QED
  BY <1>1, <1>2 DEF LeftBy

\* A semaphore is signalled: it is counted up, or the first thread in its
\* queue has what it waited for.
Signalled(s, o, r) ==
    LET w == Head(s.queue[o]) IN
    /\ r.cnt = [s.cnt EXCEPT ![o] = @ + 1] /\ Counted(r, o)
    /\ s.cnt[o] >= 0 => r.queue = s.queue /\ LetGone(s, r, {}, "OK")
    /\ s.cnt[o] < 0 => /\ w \in Threads /\ ~Runs(s, w) /\ s.state[w] \in WaitStates /\ s.u[w] = o
                       /\ r.queue = [s.queue EXCEPT ![o] = Tail(@)]
                       /\ LetGone(s, r, {w}, "OK")

LEMMA Signals ==
    ASSUME NEW U, NEW C, NEW s, Settled(U, C, s), "OK" \in U, NEW o \in C, o \in Objects,
           Counted(s, o)
    PROVE  /\ Settled(U, C, SemSignalI(s, o)) /\ Signalled(s, o, SemSignalI(s, o))
           /\ SemSignalI(s, o).current = s.current
           /\ TopRuns(s) => /\ Settled(U, C, SemSignal(s, o)) /\ TopRuns(SemSignal(s, o))
                            /\ Signalled(s, o, SemSignal(s, o))
<1> DEFINE c == [s.cnt EXCEPT ![o] = @ + 1]
           up == Recounted(s, c)
           w == Head(s.queue[o])
           q == Tail(s.queue[o])
           m == Requeued(s, c, o, q)
<1>1. /\ s \in KernelStates(U, C) /\ Placed(s) /\ s.cnt \in [C -> Int]
      /\ s.queue \in [Objects -> Seq(Threads)] /\ s.cnt[o] \in Int
  BY DEF Settled, KernelStates
<1>2. c \in [C -> Int] /\ c[o] = s.cnt[o] + 1
  BY <1>1
<1>3. Up(s, o) = up
  BY DEF Up, Recounted
<1>4. Unqueue(Up(s, o), o) = m
  BY <1>1 DEF Unqueue, Up, Requeued, KernelStates
<1>5. Up(s, o).queue = s.queue /\ Up(s, o).cnt = c
  BY <1>1 DEF Up, KernelStates
<1>6. /\ SemSignalI(s, o) = IF c[o] <= 0 THEN ReadyWith(m, w, "OK") ELSE up
      /\ SemSignal(s, o) = IF c[o] <= 0 THEN WakeupS(m, w, "OK") ELSE up
  BY <1>3, <1>4, <1>5 DEF SemSignalI, SemSignal
<1> HIDE DEF c, up
<1>7. CASE s.cnt[o] >= 0
  <2>1. ~(c[o] <= 0) /\ ~(s.cnt[o] < 0)
    BY <1>1, <1>2, <1>7
  <2>2. SemSignalI(s, o) = up /\ SemSignal(s, o) = up
    BY <1>6, <2>1
  <2>3. /\ Settled(U, C, up) /\ Apart(s, up) /\ up.cnt = c /\ up.queue = s.queue
        /\ TopRuns(s) => TopRuns(up)
    BY <1>2, CountsChange DEF up
  <2>4. LetGone(s, up, {}, "OK")
    <3>1. s.u = [t \in Threads |-> s.u[t]]
      BY <1>1 DEF KernelStates
    <3>2. QED
      BY <2>3, <3>1 DEF LetGone, Apart, Runs
  <2>5. Counted(up, o)
    BY <1>1, <1>2, <1>7, <2>3 DEF Counted
  <2>6. Signalled(s, o, up) /\ up.current = s.current
    BY <2>1, <2>3, <2>4, <2>5 DEF Signalled, Apart, c
  <2>7. QED
    BY <2>2, <2>3, <2>6
<1>8. CASE s.cnt[o] < 0
  <2>1. c[o] <= 0 /\ ~(s.cnt[o] >= 0)
    BY <1>1, <1>2, <1>8
  <2> DEFINE a == ReadyWith(m, w, "OK")
             b == WakeupS(m, w, "OK")
  <2>2. SemSignalI(s, o) = a /\ SemSignal(s, o) = b
    BY <1>6, <2>1
  <2>3. Len(s.queue[o]) = -s.cnt[o] /\ Len(s.queue[o]) > 0
    BY <1>1, <1>8 DEF Counted
  <2>4. Queue(s.queue[o], Threads) /\ s.queue[o] # <<>>
    BY <1>1, <2>3 DEF Placed, QueuesSound
  <2>5. /\ Queue(q, Threads) /\ Len(q) = Len(s.queue[o]) - 1 /\ w \in ToSet(s.queue[o])
        /\ ToSet(q) = ToSet(s.queue[o]) \ {w}
    BY <2>4, TailQueue
  <2> HIDE DEF w, q
  <2> HIDE DEF c
  <2>6. /\ w \in Threads /\ ~Runs(s, w) /\ s.state[w] \in WaitStates /\ s.u[w] = o
        /\ Settled(U, C, a) /\ Left(s, a, c, o, q, w, "OK") /\ a.current = s.current
        /\ TopRuns(s) => Settled(U, C, b) /\ TopRuns(b) /\ Left(s, b, c, o, q, w, "OK")
    BY <1>2, <2>5, LeavesQueue
  <2> HIDE DEF a, b, m
  <2>7. ASSUME NEW r, r.cnt = c, r.queue = [s.queue EXCEPT ![o] = q] PROVE Counted(r, o)
    <3>1. r.queue[o] = q /\ r.cnt[o] = s.cnt[o] + 1
      BY <1>1, <1>2, <2>7
    <3>2. QED
      BY <1>1, <1>8, <2>3, <2>5, <3>1 DEF Counted
  <2>8. Signalled(s, o, a)
    BY <2>1, <2>6, <2>7 DEF Signalled, Left, w, q, c
  <2>9. TopRuns(s) => Signalled(s, o, b)
    BY <2>1, <2>6, <2>7 DEF Signalled, Left, w, q, c
  <2>10. QED
    BY <2>2, <2>6, <2>8, <2>9
<1>9. QED
  BY <1>1, <1>7, <1>8

\* m is s with the current thread about to sleep on v in state new: in the
\* queue of v, if new says that it waits in one.
AboutToSleep(s, m, new, v) ==
    /\ m.current = s.current /\ m.ready = s.ready /\ m.state = s.state /\ m.prio = s.prio
    /\ m.vt = s.vt /\ m.due = s.due /\ m.u = [s.u EXCEPT ![s.current] = v]
    /\ QueuesSound(m)
    /\ \A o \in Objects :
         /\ \A t \in Threads \ {s.current} : t \in ToSet(m.queue[o]) <=> t \in ToSet(s.queue[o])
         /\ s.current \in ToSet(m.queue[o]) <=> (new \in WaitStates /\ v = o)

\* The current thread of s sleeps on v.
Asleep(s, r, new, v) ==
    /\ r.u = [s.u EXCEPT ![s.current] = v] /\ r.prio = s.prio /\ r.state[s.current] = new
    /\ \A t \in Threads :
         /\ Runs(r, t) <=> (Runs(s, t) /\ t # s.current)
         /\ t # s.current /\ ~Runs(r, t) => r.state[t] = s.state[t]
         /\ Armed(r, t) => Armed(s, t) \/ t = s.current

LEMMA TimerIfAny ==
    ASSUME NEW U, NEW C, NEW s \in KernelStates(U, C), Queue(Pars(s.vt), Threads), OnTime(s),
           ~Armed(s, s.current), NEW time, time = Infinite \/ time \in Nat \ {0}
    PROVE  LET v == IF time = Infinite THEN s ELSE VTSetI(s, s.current, time) IN
           /\ v \in KernelStates(U, C) /\ Unmoved(s, v) /\ Queue(Pars(v.vt), Threads) /\ OnTime(v)
           /\ \A x \in Threads : Armed(v, x) => Armed(s, x) \/ x = s.current
<1>1. s.current \in Threads /\ (time # Infinite => time \in Int /\ time > 0)
  BY DEF KernelStates
<1>2. CASE time = Infinite
  BY <1>2 DEF Unmoved
<1>3. CASE time # Infinite
  BY <1>1, <1>3, SetTimer
<1>4. QED
  BY <1>2, <1>3

LEMMA SleepPlaces ==
    ASSUME NEW U, NEW C, NEW s, Settled(U, C, s), s.ready # <<>>, ~Armed(s, s.current),
           NEW new \in States \ Runnable, NEW v \in U,
           NEW m \in KernelStates(U, C), AboutToSleep(s, m, new, v),
           NEW time, time = Infinite \/ time \in Nat \ {0}
    PROVE  LET r == GoSleepTimeoutS(m, new, time) IN
           /\ Settled(U, C, r) /\ TopRuns(r) /\ Asleep(s, r, new, v)
           /\ r.queue = m.queue /\ r.cnt = m.cnt
<1> DEFINE c == s.current
           x == IF time = Infinite THEN m ELSE VTSetI(m, m.current, time)
           r == GoSleepS(x, new)
<1>1. /\ s \in KernelStates(U, C) /\ Placed(s) /\ Sorted(s) /\ Queue(Pars(s.vt), Threads)
      /\ OnTime(s) /\ c \in Threads /\ s.u \in [Threads -> U]
  BY DEF Settled, KernelStates
<1>2. GoSleepTimeoutS(m, new, time) = r
  BY DEF GoSleepTimeoutS
<1>3. ~Armed(m, m.current) /\ Queue(Pars(m.vt), Threads) /\ OnTime(m)
  BY <1>1 DEF AboutToSleep, Armed, OnTime, Due
<1>4. /\ x \in KernelStates(U, C) /\ Unmoved(m, x) /\ Queue(Pars(x.vt), Threads) /\ OnTime(x)
      /\ \A t \in Threads : Armed(x, t) => Armed(m, t) \/ t = m.current
  BY <1>3, TimerIfAny
<1> HIDE DEF x
<1>5. /\ x.current = c /\ x.ready = s.ready /\ x.state = s.state /\ x.prio = s.prio
      /\ x.u = [s.u EXCEPT ![c] = v] /\ x.queue = m.queue /\ x.cnt = m.cnt /\ QueuesSound(x)
  <2>1. /\ m.current = c /\ m.ready = s.ready /\ m.state = s.state /\ m.prio = s.prio
        /\ m.u = [s.u EXCEPT ![c] = v] /\ QueuesSound(m)
    BY DEF AboutToSleep
  <2>2. QED
    BY <1>4, <2>1 DEF Unmoved, QueuesSound
<1> HIDE DEF c
<1>6. /\ x.u[c] = v /\ s.state[c] = "CURRENT" /\ c \notin ToSet(s.ready)
  <2>1. ThreadPlaced(s, c) /\ c = s.current
    BY <1>1 DEF Placed, c
  <2>2. QED
    BY <1>1, <1>5, <2>1 DEF ThreadPlaced
<1>7. \A t \in Threads \ {c} : ThreadPlaced(x, t)
  <2> SUFFICES ASSUME NEW t \in Threads, t # c PROVE ThreadPlaced(x, t)
    OBVIOUS
  <2>1. ThreadPlaced(s, t) /\ c = s.current
    BY <1>1 DEF Placed, c
  <2>2. x.u[t] = s.u[t]
    BY <1>1, <1>5
  <2>3. ASSUME NEW o \in Objects PROVE t \in ToSet(x.queue[o]) <=> t \in ToSet(s.queue[o])
    BY <1>5, <2>1 DEF AboutToSleep
  <2>4. QED
    BY <1>5, <2>1, <2>2, <2>3 DEF ThreadPlaced
<1>8. \A o \in Objects : c \in ToSet(x.queue[o]) <=> (new \in WaitStates /\ x.u[c] = o)
  BY <1>5, <1>6 DEF AboutToSleep, c
<1>9. r \in KernelStates(U, C) /\ Placed(r) /\ Slept(x, r, new)
  <2>1. x.ready # <<>> /\ x.state[x.current] = "CURRENT" /\ x.current \notin ToSet(x.ready)
    BY <1>5, <1>6
  <2>2. \A o \in Objects : (x.current \in ToSet(x.queue[o])) <=> (new \in WaitStates /\ x.u[x.current] = o)
    BY <1>5, <1>8
  <2>3. \A t \in Threads \ {x.current} : ThreadPlaced(x, t)
    BY <1>5, <1>7
  <2>4. QED
    BY <1>4, <1>5, <2>1, <2>2, <2>3, GoSleepPlaces
<1>10. Ordered(r)
  <2>1. Sorted(x) /\ Queue(x.ready, Threads) /\ x.ready # <<>>
    BY <1>1, <1>5 DEF Sorted, QueuesSound
  <2>2. QED
    BY <1>4, <2>1, GoSleepOrders
<1>11. r.u = x.u
  <2> DEFINE y == [x EXCEPT !.state[x.current] = new, !.preempt[x.current] = Quantum]
  <2>1. y.u = x.u
    BY <1>4 DEF KernelStates
  <2>2. r.u = y.u
    <3>1. y.ready = x.ready
      BY <1>4 DEF KernelStates
    <3>3. y \in KernelStates(U, C)
      BY <1>4, SchdAssumption DEF KernelStates
    <3>4. y.ready # <<>>
      BY <1>5, <3>1
    <3> HIDE DEF y
    <3>5. TakeFirst(y).u = y.u
      BY ONLY <3>3, <3>4, TakeFirstFields, ZenonT(40)
    <3>6. QED
      BY <3>5 DEF GoSleepS, y
  <2>3. QED
    BY <2>1, <2>2
<1> HIDE DEF r
<1>12. /\ r.queue = x.queue /\ r.cnt = x.cnt /\ r.vt = x.vt /\ r.due = x.due /\ r.prio = x.prio
       /\ r.state[c] = new
       /\ \A t \in Threads : /\ Runs(r, t) <=> (Runs(x, t) /\ t # c)
                             /\ ~Runs(x, t) => r.state[t] = x.state[t]
  BY <1>5, <1>9 DEF Slept, Kept, Sleepers
<1>13. \A t \in Threads : Runs(x, t) <=> Runs(s, t)
  BY <1>5 DEF Runs
<1>14. \A t \in Threads : Armed(r, t) => Armed(s, t) \/ t = c
  <2>1. m.vt = s.vt /\ m.current = c
    BY DEF AboutToSleep, c
  <2>2. QED
    BY <1>4, <1>12, <2>1 DEF Armed
<1>15. Asleep(s, r, new, v)
  BY <1>5, <1>11, <1>12, <1>13, <1>14 DEF Asleep, c
<1>16. Settled(U, C, r) /\ TopRuns(r)
  <2>1. OnTime(r) /\ Queue(Pars(r.vt), Threads)
    BY <1>4, <1>12 DEF OnTime, Due
  <2>2. QED
    BY <1>9, <1>10, <2>1 DEF Settled, Ordered
<1>17. QED
  BY <1>2, <1>5, <1>12, <1>15, <1>16

\* m is s with the current thread at the end of the queue of o.
QueuedUp(s, m, o) ==
    /\ m.current = s.current /\ m.ready = s.ready /\ m.state = s.state /\ m.prio = s.prio
    /\ m.vt = s.vt /\ m.due = s.due /\ m.u = [s.u EXCEPT ![s.current] = o]
    /\ m.queue = [s.queue EXCEPT ![o] = Append(@, s.current)]

LEMMA QueuesUp ==
    ASSUME NEW U, NEW C, NEW s, Settled(U, C, s), NEW o \in Objects, NEW new \in WaitStates,
           NEW m, QueuedUp(s, m, o)
    PROVE  /\ AboutToSleep(s, m, new, o)
           /\ Append(s.queue[o], s.current) \in Seq(Threads)
           /\ Len(m.queue[o]) = Len(s.queue[o]) + 1
<1> DEFINE c == s.current
<1>1. /\ c \in Threads /\ s.queue \in [Objects -> Seq(Threads)]
      /\ ThreadPlaced(s, c) /\ QueuesSound(s)
  BY DEF Settled, KernelStates, Placed
<1>9. /\ m.current = s.current /\ m.ready = s.ready /\ m.state = s.state /\ m.prio = s.prio
      /\ m.vt = s.vt /\ m.due = s.due /\ m.u = [s.u EXCEPT ![c] = o]
      /\ m.queue = [s.queue EXCEPT ![o] = Append(@, c)]
  BY DEF QueuedUp
<1> HIDE DEF c
<1>2. s.state[c] = "CURRENT" /\ \A x \in Objects : c \notin ToSet(s.queue[x])
  BY <1>1 DEF ThreadPlaced, WaitStates, c
<1>3. /\ Queue(Append(s.queue[o], c), Threads)
      /\ ToSet(Append(s.queue[o], c)) = ToSet(s.queue[o]) \cup {c}
      /\ Len(Append(s.queue[o], c)) = Len(s.queue[o]) + 1
  BY <1>1, <1>2, AppendedQueue DEF QueuesSound
<1>4. m.queue[o] = Append(s.queue[o], c) /\ \A x \in Objects \ {o} : m.queue[x] = s.queue[x]
  BY <1>1, <1>9
<1>5. QueuesSound(m)
  BY <1>1, <1>3, <1>4, <1>9 DEF QueuesSound
<1>6. ASSUME NEW x \in Objects
      PROVE  /\ \A t \in Threads \ {c} : t \in ToSet(m.queue[x]) <=> t \in ToSet(s.queue[x])
             /\ c \in ToSet(m.queue[x]) <=> (new \in WaitStates /\ o = x)
  BY <1>2, <1>3, <1>4
<1>7. AboutToSleep(s, m, new, o)
  BY <1>5, <1>6, <1>9 DEF AboutToSleep, c
<1>8. QED
  BY <1>3, <1>4, <1>7 DEF Queue, c

\* The current thread waits for semaphore o, that has nothing to give.
SleepsOn(U, C, s, o, r) ==
    /\ Settled(U, C, r) /\ TopRuns(r) /\ Asleep(s, r, "WTSEM", o)
    /\ r.cnt = [s.cnt EXCEPT ![o] = @ - 1] /\ Counted(r, o)
    /\ r.queue = [s.queue EXCEPT ![o] = Append(@, s.current)]

LEMMA SemSleepsOn ==
    ASSUME NEW U, NEW C, NEW s, Settled(U, C, s), s.ready # <<>>, ~Armed(s, s.current),
           NEW o \in C, o \in Objects, o \in U, Counted(s, o), s.cnt[o] <= 0,
           NEW time, time = Infinite \/ time \in Nat \ {0}
    PROVE  SleepsOn(U, C, s, o, SemSleep(s, o, time))
<1> DEFINE n == SemTake(s, o)
           m == [n EXCEPT !.u[s.current] = o, !.queue[o] = Append(@, s.current)]
           r == GoSleepTimeoutS(m, "WTSEM", time)
           c == [s.cnt EXCEPT ![o] = @ - 1]
<1>1. s \in KernelStates(U, C) /\ s.current \in Threads
  BY DEF Settled, KernelStates
<1>2. c \in [C -> Int] /\ s.cnt[o] \in Int /\ c[o] = s.cnt[o] - 1
  BY <1>1 DEF KernelStates
<1> HIDE DEF c
<1>3. /\ n \in KernelStates(U, C) /\ n.cnt = c /\ n.queue = s.queue /\ n.u = s.u
      /\ n.state = s.state /\ n.current = s.current /\ n.ready = s.ready /\ n.prio = s.prio
      /\ n.vt = s.vt /\ n.due = s.due
  <2>1. n = [s EXCEPT !.cnt = c]
    BY DEF SemTake, c
  <2> HIDE DEF n
  <2>2. QED
    BY <1>1, <1>2, <2>1 DEF KernelStates
<1>4. SemSleep(s, o, time) = r
  BY <1>3 DEF SemSleep
<1> HIDE DEF n
<1>5. /\ m.cnt = c /\ m.state = s.state /\ m.current = s.current /\ m.ready = s.ready
      /\ m.prio = s.prio /\ m.vt = s.vt /\ m.due = s.due
      /\ m.u = [s.u EXCEPT ![s.current] = o]
      /\ m.queue = [s.queue EXCEPT ![o] = Append(@, s.current)]
  BY <1>3 DEF KernelStates
<1>6. "WTSEM" \in WaitStates /\ "WTSEM" \in States \ Runnable
  BY DEF WaitStates, States, Runnable
<1>7. /\ AboutToSleep(s, m, "WTSEM", o)
      /\ Append(s.queue[o], s.current) \in Seq(Threads)
      /\ Len(m.queue[o]) = Len(s.queue[o]) + 1
  <2> HIDE DEF m, r
  <2>1. QueuedUp(s, m, o)
    BY <1>5 DEF QueuedUp
  <2>2. QED
    BY <1>6, <2>1, QueuesUp
<1>8. m \in KernelStates(U, C)
  BY <1>1, <1>3, <1>7 DEF KernelStates
<1> HIDE DEF m
<1>9. /\ Settled(U, C, r) /\ TopRuns(r) /\ Asleep(s, r, "WTSEM", o)
      /\ r.queue = m.queue /\ r.cnt = m.cnt
  BY <1>6, <1>7, <1>8, SleepPlaces
<1> HIDE DEF r
<1>10. Counted(r, o)
  <2>1. r.cnt[o] = s.cnt[o] - 1 /\ Len(r.queue[o]) = Len(s.queue[o]) + 1
    BY <1>2, <1>5, <1>7, <1>9
  <2>2. Len(s.queue[o]) = -s.cnt[o]
    BY <1>2 DEF Counted
  <2>3. QED
    BY <1>2, <2>1, <2>2 DEF Counted
<1>11. QED
  BY <1>4, <1>5, <1>9, <1>10 DEF c, SleepsOn

(* Everybody in a queue is let go, one after the other.                    *)

\* The threads of W are out of every queue, not yet on the ready list.
Displaced(s, W) ==
    /\ QueuesSound(s)
    /\ \A t \in Threads \ W : ThreadPlaced(s, t)
    /\ \A w \in W : w # s.current /\ w \notin ToSet(s.ready) /\ s.state[w] \notin Runnable
    /\ \A w \in W, o \in Objects : w \notin ToSet(s.queue[o])

\* One of them is on the ready list in r, with the note msg.
OneReady(U, C, s, r, W, w, msg) ==
    /\ r \in KernelStates(U, C) /\ Displaced(r, W \ {w}) /\ Sorted(r)
    /\ r.current = s.current /\ r.state[r.current] = "CURRENT"
    /\ r.u = [s.u EXCEPT ![w] = msg] /\ Kept(s, r)
    /\ \A t \in Threads : /\ Runs(r, t) <=> (Runs(s, t) \/ t = w)
                          /\ t # w => r.state[t] = s.state[t]

LEMMA ReadyOneOf ==
    ASSUME NEW U, NEW C, NEW s \in KernelStates(U, C), NEW W \in SUBSET Threads, NEW w \in W,
           Displaced(s, W), Sorted(s), s.state[s.current] = "CURRENT", NEW msg \in U
    PROVE  OneReady(U, C, s, ReadyWith(s, w, msg), W, w, msg)
<1> DEFINE y == ReadyI(s, w)
           r == ReadyWith(s, w, msg)
<1>1. /\ w \in Threads /\ w # s.current /\ w \notin ToSet(s.ready) /\ Queue(s.ready, Threads)
      /\ s.state \in [Threads -> States] /\ s.u \in [Threads -> U] /\ s.current \in Threads
      /\ s.prio \in [Threads -> Nat \ {0}] /\ s.prio \in [Threads -> Nat]
  BY DEF Displaced, QueuesSound, KernelStates
<1>2. /\ Queue(PrioInsert(s.ready, w, s.prio), Threads)
      /\ ToSet(PrioInsert(s.ready, w, s.prio)) = ToSet(s.ready) \cup {w}
  BY <1>1, PrioInsertedQueue
<1>3. Falling(PrioInsert(s.ready, w, s.prio), s.prio)
  BY <1>1, PrioInsertedFalling DEF Sorted, Queue
<1>4. /\ y \in KernelStates(U, C) /\ y.state = [s.state EXCEPT ![w] = "READY"]
      /\ y.ready = PrioInsert(s.ready, w, s.prio) /\ y.current = s.current
      /\ y.u = s.u /\ Kept(s, y)
  BY <1>1, <1>2, ReadyIFields DEF Queue
<1> HIDE DEF y
<1>5. /\ r \in KernelStates(U, C) /\ r.state = y.state /\ r.ready = y.ready
      /\ r.current = y.current /\ r.u = [y.u EXCEPT ![w] = msg]
      /\ r.queue = y.queue /\ r.cnt = y.cnt /\ r.vt = y.vt /\ r.due = y.due /\ r.prio = y.prio
  <2>1. r = [y EXCEPT !.u[w] = msg]
    BY DEF ReadyWith, y
  <2> HIDE DEF r
  <2>2. QED
    BY <1>1, <1>4, <2>1 DEF KernelStates
<1> HIDE DEF r
<1>6. /\ Kept(s, r) /\ r.current = s.current /\ r.u = [s.u EXCEPT ![w] = msg]
      /\ r.state = [s.state EXCEPT ![w] = "READY"]
      /\ ToSet(r.ready) = ToSet(s.ready) \cup {w} /\ Queue(r.ready, Threads) /\ Sorted(r)
  BY <1>2, <1>3, <1>4, <1>5 DEF Kept, Sorted
<1>7. r.state[w] = "READY" /\ \A t \in Threads \ {w} : r.state[t] = s.state[t] /\ r.u[t] = s.u[t]
  BY <1>1, <1>6
<1>8. \A t \in Threads : /\ Runs(r, t) <=> (Runs(s, t) \/ t = w)
                         /\ t # w => r.state[t] = s.state[t]
  BY <1>7 DEF Runs, Runnable
<1>9. r.queue = s.queue
  BY <1>6 DEF Kept
<1>10. QueuesSound(r)
  BY <1>6, <1>9 DEF QueuesSound, Displaced
<1>11. ASSUME NEW t \in Threads \ (W \ {w}) PROVE ThreadPlaced(r, t)
  <2>1. CASE t = w
    <3>1. \A o \in Objects : w \notin ToSet(s.queue[o])
      BY DEF Displaced
    <3>2. "READY" \notin WaitStates /\ "READY" # "CURRENT"
      BY DEF WaitStates
    <3>3. QED
      BY <1>1, <1>6, <1>7, <1>9, <2>1, <3>1, <3>2 DEF ThreadPlaced
  <2>2. CASE t # w
    <3>1. ThreadPlaced(s, t) /\ t \in Threads
      BY <2>2 DEF Displaced
    <3>2. /\ r.state[t] = s.state[t] /\ r.u[t] = s.u[t] /\ r.current = s.current
          /\ t \in ToSet(r.ready) <=> t \in ToSet(s.ready)
      BY <1>6, <1>7, <2>2, <3>1
    <3>3. QED
      BY <1>9, <3>1, <3>2 DEF ThreadPlaced
  <2>3. QED
    BY <2>1, <2>2
<1>12. Displaced(r, W \ {w})
  <2>1. ASSUME NEW x \in W \ {w}
        PROVE  /\ x # r.current /\ x \notin ToSet(r.ready) /\ r.state[x] \notin Runnable
               /\ \A o \in Objects : x \notin ToSet(r.queue[o])
    <3>1. /\ x # s.current /\ x \notin ToSet(s.ready) /\ s.state[x] \notin Runnable /\ x \in Threads
          /\ \A o \in Objects : x \notin ToSet(s.queue[o])
      BY DEF Displaced
    <3>2. QED
      BY <1>6, <1>7, <1>9, <3>1
  <2>2. QED
    BY <1>10, <1>11, <2>1 DEF Displaced
<1>13. QED
  BY <1>1, <1>5, <1>6, <1>7, <1>8, <1>12 DEF r, OneReady

LEMMA ReadyWithType ==
    ASSUME NEW U, NEW C, NEW s \in KernelStates(U, C), NEW t \in Threads, NEW msg \in U
    PROVE  ReadyWith(s, t, msg) \in KernelStates(U, C)
<1> DEFINE lower == {i \in DOMAIN s.ready : s.prio[s.ready[i]] < s.prio[t]}
           at == IF lower = {} THEN Len(s.ready) + 1 ELSE Min(lower)
           y == ReadyI(s, t)
<1>1. s.ready \in Seq(Threads) /\ lower \in SUBSET DOMAIN s.ready
  BY DEF KernelStates
<1> HIDE DEF lower
<1>2. at \in 1..(Len(s.ready) + 1)
  BY <1>1, InsertedSomewhere
<1>3. PrioInsert(s.ready, t, s.prio) = InsertAt(s.ready, at, t)
  BY DEF PrioInsert, lower
<1> HIDE DEF at
<1>4. PrioInsert(s.ready, t, s.prio) \in Seq(Threads)
  BY <1>1, <1>2, <1>3, InsertedIndex
<1>5. y \in KernelStates(U, C)
  BY <1>4, ReadyIFields
<1>6. ReadyWith(s, t, msg) = [y EXCEPT !.u[t] = msg]
  BY DEF ReadyWith
<1> HIDE DEF y
<1>7. y.u \in [Threads -> U] /\ [y.u EXCEPT ![t] = msg] \in [Threads -> U]
  BY <1>5 DEF KernelStates
<1>8. ReadyWith(s, t, msg) = [y EXCEPT !.u = [y.u EXCEPT ![t] = msg]]
  BY <1>6
<1>9. QED
  BY <1>5, <1>7, <1>8 DEF KernelStates

ReadyAll(base, q) == FoldLeft(LAMBDA r, t : ReadyWith(r, t, "RESET"), base, q)

LEMMA ReadyEach ==
    ASSUME NEW U, NEW C, "RESET" \in U, NEW q \in Seq(Threads), NEW base \in KernelStates(U, C),
           NEW Rs, base \in Rs[0],
           \A m \in 1..Len(q) : \A r \in Rs[m - 1] : ReadyWith(r, q[m], "RESET") \in Rs[m]
    PROVE  ReadyAll(base, q) \in Rs[Len(q)]
<1> DEFINE n == Len(q)
           R == KernelStates(U, C)
           st == [p \in R \X (1..n) |-> ReadyWith(p[1], q[p[2]], "RESET")]
           Def(f) == f = [s \in SUBSET DOMAIN q |->
                            IF s = {} THEN base ELSE ReadyWith(f[s \ {Max(s)}], q[Max(s)], "RESET")]
           iter == CHOOSE f : Def(f)
<1>1. n \in Nat /\ DOMAIN q = 1..n /\ \A i \in 1..n : q[i] \in Threads
  BY LenProperties, ElementOfSeq
<1>2. st \in [R \X (1..n) -> R]
  BY <1>1, ReadyWithType
<1> HIDE DEF R
<1>3. PICK g : Folds(g, R, st, base, n)
  BY <1>1, <1>2, FoldExists DEF R
<1>4. Def(g)
  <2>1. ASSUME NEW s \in SUBSET (1..n), s # {} PROVE Max(s) \in 1..n /\ s \ {Max(s)} \in SUBSET (1..n)
    BY <2>1, <1>1, MaxIn
  <2>2. ASSUME NEW s \in SUBSET (1..n), s # {}
        PROVE  g[s] = ReadyWith(g[s \ {Max(s)}], q[Max(s)], "RESET")
    <3>1. g[s \ {Max(s)}] \in R
      BY <1>3, <2>1, <2>2 DEF Folds
    <3>2. g[s] = st[<<g[s \ {Max(s)}], Max(s)>>]
      BY <1>3, <2>2 DEF Folds
    <3>3. QED
      BY <2>1, <2>2, <3>1, <3>2
  <2>3. g[{}] = base
    BY <1>3 DEF Folds
  <2>4. g = [s \in SUBSET (1..n) |-> g[s]]
    BY <1>3 DEF Folds
  <2>5. QED
    BY <1>1, <2>2, <2>3, <2>4
<1>5. Def(iter)
  BY <1>4
<1>6. ReadyAll(base, q) = iter[DOMAIN q]
  BY DEF ReadyAll, FoldLeft, MapThenFoldSet
<1> HIDE DEF iter
<1>7. ASSUME NEW m \in 1..n, iter[1..(m - 1)] \in Rs[m - 1] PROVE iter[1..m] \in Rs[m]
  <2>1. Max(1..m) = m /\ (1..m) \ {m} = 1..(m - 1) /\ 1..m # {} /\ 1..m \in SUBSET (1..n)
    BY <1>1, UpTo
  <2>2. iter[1..m] = ReadyWith(iter[1..(m - 1)], q[m], "RESET")
    BY <1>1, <1>5, <2>1
  <2>3. QED
    BY <1>7, <2>2
<1>8. iter[{}] = base
  BY <1>5
<1>9. iter[1..n] \in Rs[n]
  BY <1>1, <1>7, <1>8, Chain
<1>10. QED
  BY <1>1, <1>6, <1>9

\* The whole queue of o, in any order, with the counters c.
LEMMA AllLetGo ==
    ASSUME NEW U, NEW C, NEW s, Settled(U, C, s), "RESET" \in U, NEW o \in Objects,
           NEW c \in [C -> Int], NEW q, Queue(q, Threads), ToSet(q) = ToSet(s.queue[o])
    PROVE  LET r == ReadyAll(Requeued(s, c, o, <<>>), q) IN
           /\ Settled(U, C, r) /\ LetGone(s, r, ToSet(q), "RESET") /\ r.current = s.current
           /\ r.cnt = c /\ r.queue = [s.queue EXCEPT ![o] = <<>>]
           /\ \A t \in ToSet(q) : ~Runs(s, t) /\ s.state[t] \in WaitStates /\ s.u[t] = o
<1> DEFINE b == Requeued(s, c, o, <<>>)
           n == Len(q)
           W(m) == {q[i] : i \in (m + 1)..n}
           Gone(m) == {q[i] : i \in 1..m}
           R(m) == {x \in KernelStates(U, C) :
                      /\ Displaced(x, W(m)) /\ Sorted(x) /\ x.state[x.current] = "CURRENT"
                      /\ x.current = s.current /\ x.cnt = c
                      /\ x.queue = [s.queue EXCEPT ![o] = <<>>]
                      /\ \A t \in Threads : x.u[t] = IF t \in Gone(m) THEN "RESET" ELSE s.u[t]
                      /\ \A t \in Threads : /\ Runs(x, t) <=> (Runs(s, t) \/ t \in Gone(m))
                                            /\ t \notin Gone(m) => x.state[t] = s.state[t]
                      /\ x.vt = s.vt /\ x.due = s.due /\ x.prio = s.prio}
           Rs == [m \in 0..n |-> R(m)]
           r == ReadyAll(b, q)
<1>1. /\ s \in KernelStates(U, C) /\ Placed(s) /\ Sorted(s) /\ Queue(Pars(s.vt), Threads) /\ OnTime(s)
      /\ s.current \in Threads /\ s.queue \in [Objects -> Seq(Threads)] /\ s.u \in [Threads -> U]
  BY DEF Settled, KernelStates
<1>2. /\ n \in Nat /\ \A i \in 1..n : q[i] \in Threads
      /\ \A e : e \in ToSet(q) <=> \E i \in 1..n : q[i] = e
      /\ \A i, j \in 1..n : q[i] = q[j] => i = j
  BY QueueSet DEF Queue, IsInjective
<1>3. ASSUME NEW t \in ToSet(q)
      PROVE t \in Threads /\ ~Runs(s, t) /\ s.state[t] \in WaitStates /\ s.u[t] = o /\ t # s.current
            /\ t \notin ToSet(s.ready) /\ \A x \in Objects \ {o} : t \notin ToSet(s.queue[x])
  <2>1. t \in Threads
    BY <1>2
  <2>2. ThreadPlaced(s, t)
    BY <1>1, <2>1 DEF Placed
  <2>3. s.state[t] \in WaitStates /\ s.u[t] = o
    BY <2>2 DEF ThreadPlaced
  <2>4. "READY" \notin WaitStates /\ "CURRENT" \notin WaitStates
    BY DEF WaitStates
  <2>5. QED
    BY <2>1, <2>2, <2>3, <2>4 DEF ThreadPlaced, Runs, Runnable
<1>4. /\ b \in KernelStates(U, C) /\ Apart(s, b) /\ b.cnt = c
      /\ b.queue = [s.queue EXCEPT ![o] = <<>>]
  <2>1. <<>> \in Seq(Threads)
    OBVIOUS
  <2>2. ASSUME NEW e \in Seq(Threads)
        PROVE  LET m == Requeued(s, c, o, e) IN
               /\ m \in KernelStates(U, C) /\ Apart(s, m) /\ m.cnt = c
               /\ m.queue = [s.queue EXCEPT ![o] = e]
    BY <1>1, QueueAndCount
  <2>3. QED
    BY <2>1, <2>2
<1> HIDE DEF b
<1>5. Queue(<<>>, Threads) /\ ToSet(<<>>) = {}
  BY DEF Queue, IsInjective, ToSet
<1>6. W(0) = ToSet(q) /\ Gone(0) = {}
  BY <1>2
<1>7. b \in R(0)
  <2>1. b.queue[o] = <<>> /\ \A x \in Objects \ {o} : b.queue[x] = s.queue[x]
    BY <1>1, <1>4
  <2>2. QueuesSound(b)
    BY <1>1, <1>4, <1>5, <2>1 DEF QueuesSound, Placed, Apart
  <2>3. ASSUME NEW t \in Threads \ ToSet(q) PROVE ThreadPlaced(b, t)
    <3>1. ThreadPlaced(s, t) /\ t \notin ToSet(s.queue[o])
      BY <1>1 DEF Placed
    <3>2. ASSUME NEW x \in Objects PROVE t \in ToSet(b.queue[x]) <=> t \in ToSet(s.queue[x])
      BY <1>5, <2>1, <3>1
    <3>3. QED
      BY <1>4, <3>1, <3>2 DEF ThreadPlaced, Apart
  <2>4. ASSUME NEW t \in ToSet(q)
        PROVE  /\ t # b.current /\ t \notin ToSet(b.ready) /\ b.state[t] \notin Runnable
               /\ \A x \in Objects : t \notin ToSet(b.queue[x])
    BY <1>3, <1>4, <1>5, <2>1 DEF Apart, Runs
  <2>5. Displaced(b, W(0))
    BY <1>6, <2>2, <2>3, <2>4 DEF Displaced
  <2>6. s.state[s.current] = "CURRENT"
    BY <1>1 DEF Placed, ThreadPlaced
  <2>7. Sorted(b) /\ b.state[b.current] = "CURRENT" /\ \A t \in Threads : Runs(b, t) <=> Runs(s, t)
    BY <1>1, <1>4, <2>6 DEF Apart, Sorted, Runs
  <2>8. QED
    BY <1>4, <1>6, <2>5, <2>7 DEF Apart
<1>8. ASSUME NEW m \in 1..n, NEW x \in R(m - 1) PROVE ReadyWith(x, q[m], "RESET") \in R(m)
  <2> DEFINE w == q[m]
             y == ReadyWith(x, w, "RESET")
  <2>1. /\ w \in W(m - 1) /\ W(m) = W(m - 1) \ {w} /\ Gone(m) = Gone(m - 1) \cup {w}
        /\ W(m - 1) \in SUBSET Threads /\ w \in Threads /\ w \notin Gone(m - 1)
    BY <1>2
  <2>2. /\ x \in KernelStates(U, C) /\ Displaced(x, W(m - 1)) /\ Sorted(x)
        /\ x.state[x.current] = "CURRENT"
        /\ x.current = s.current /\ x.cnt = c /\ x.queue = [s.queue EXCEPT ![o] = <<>>]
        /\ \A t \in Threads : x.u[t] = IF t \in Gone(m - 1) THEN "RESET" ELSE s.u[t]
        /\ \A t \in Threads : /\ Runs(x, t) <=> (Runs(s, t) \/ t \in Gone(m - 1))
                              /\ t \notin Gone(m - 1) => x.state[t] = s.state[t]
        /\ x.vt = s.vt /\ x.due = s.due /\ x.prio = s.prio /\ x.u \in [Threads -> U]
    BY DEF KernelStates
  <2> HIDE DEF w, W, Gone
  <2>3. OneReady(U, C, x, y, W(m - 1), w, "RESET")
    BY <2>1, <2>2, ReadyOneOf
  <2> HIDE DEF y
  <2>4. \A t \in Threads : y.u[t] = IF t \in Gone(m) THEN "RESET" ELSE s.u[t]
    BY <2>1, <2>2, <2>3 DEF OneReady
  <2>5. \A t \in Threads : /\ Runs(y, t) <=> (Runs(s, t) \/ t \in Gone(m))
                           /\ t \notin Gone(m) => y.state[t] = s.state[t]
    BY <2>1, <2>2, <2>3 DEF OneReady
  <2>6. y \in R(m)
    BY <2>1, <2>2, <2>3, <2>4, <2>5 DEF Kept, OneReady
  <2>7. QED
    BY <2>6 DEF y, w
<1>9. r \in Rs[n]
  <2>1. b \in Rs[0] /\ \A m \in 1..n : \A x \in Rs[m - 1] : ReadyWith(x, q[m], "RESET") \in Rs[m]
    <3> HIDE DEF R
    <3>1. b \in Rs[0]
      BY <1>2, <1>7
    <3>2. \A m \in 1..n : Rs[m - 1] = R(m - 1) /\ Rs[m] = R(m)
      BY <1>2
    <3>3. QED
      BY <1>8, <3>1, <3>2
  <2>2. q \in Seq(Threads)
    BY DEF Queue
  <2> HIDE DEF Rs
  <2>3. QED
    BY <1>4, <2>1, <2>2, ReadyEach
<1>10. r \in R(n)
  BY <1>2, <1>9
<1>11. W(n) = {} /\ Gone(n) = ToSet(q)
  BY <1>2
<1> HIDE DEF W, Gone, r
<1>12. Placed(r)
  BY <1>10, <1>11 DEF Displaced, Placed
<1>13. OnTime(r) /\ Queue(Pars(r.vt), Threads)
  BY <1>1, <1>10 DEF OnTime, Due
<1>14. r.u = [t \in Threads |-> IF t \in ToSet(q) THEN "RESET" ELSE s.u[t]]
  <2>1. r.u \in [Threads -> U] /\ \A t \in Threads : r.u[t] = IF t \in ToSet(q) THEN "RESET" ELSE s.u[t]
    BY <1>10, <1>11 DEF KernelStates
  <2>2. QED
    BY <2>1
<1>15. \A t \in Threads : /\ Runs(r, t) <=> (Runs(s, t) \/ t \in ToSet(q))
                          /\ ~Runs(r, t) => r.state[t] = s.state[t]
  BY <1>10, <1>11
<1>16. LetGone(s, r, ToSet(q), "RESET")
  BY <1>10, <1>14, <1>15 DEF LetGone
<1>17. QED
  BY <1>3, <1>10, <1>12, <1>13, <1>16 DEF Settled, r, b

LEMMA ReversedQueue ==
    ASSUME NEW S, NEW q, Queue(q, S)
    PROVE  Queue(Reverse(q), S) /\ ToSet(Reverse(q)) = ToSet(q)
<1> DEFINE n == Len(q)
           r == [i \in 1..n |-> q[(n - i) + 1]]
<1>1. /\ n \in Nat /\ DOMAIN q = 1..n /\ q \in Seq(S)
      /\ \A i \in 1..n : q[i] \in S
      /\ \A e : e \in ToSet(q) <=> \E i \in 1..n : q[i] = e
      /\ \A i, j \in 1..n : q[i] = q[j] => i = j
  BY QueueSet DEF Queue, IsInjective
<1>2. Reverse(q) = r
  BY DEF Reverse
<1> HIDE DEF n
<1>3. /\ \A i \in 1..n : (n - i) + 1 \in 1..n /\ (n - ((n - i) + 1)) + 1 = i
      /\ \A i, j \in 1..n : (n - i) + 1 = (n - j) + 1 => i = j
  BY <1>1
<1>4. r \in [1..n -> S] /\ \A i \in 1..n : r[i] = q[(n - i) + 1]
  BY <1>1, <1>3
<1> HIDE DEF r
<1>5. r \in Seq(S) /\ Len(r) = n
  BY <1>1, <1>4, FunctionIsSeq
<1>6. \A e : e \in ToSet(r) <=> \E i \in 1..n : r[i] = e
  BY <1>5, QueueSet
<1>7. IsInjective(r)
  BY <1>1, <1>3, <1>4, <1>5 DEF IsInjective
<1>8. ToSet(r) = ToSet(q)
  <2>1. ASSUME NEW e \in ToSet(r) PROVE e \in ToSet(q)
    BY <1>1, <1>3, <1>4, <1>6
  <2>2. ASSUME NEW e \in ToSet(q) PROVE e \in ToSet(r)
    <3>1. PICK i \in 1..n : q[i] = e
      BY <1>1
    <3>2. (n - i) + 1 \in 1..n /\ r[(n - i) + 1] = q[(n - ((n - i) + 1)) + 1]
      BY <1>3, <1>4
    <3>3. QED
      BY <1>3, <1>6, <3>1, <3>2
  <2>3. QED
    BY <2>1, <2>2
<1>9. QED
  BY <1>2, <1>5, <1>7, <1>8 DEF Queue

\* A semaphore is reset: everybody in its queue is let go.
Reset(s, o, n, r) ==
    /\ LetGone(s, r, ToSet(s.queue[o]), "RESET") /\ r.current = s.current
    /\ r.cnt = [s.cnt EXCEPT ![o] = n] /\ r.queue = [s.queue EXCEPT ![o] = <<>>]
    /\ \A t \in ToSet(s.queue[o]) : ~Runs(s, t) /\ s.state[t] \in WaitStates /\ s.u[t] = o

LEMMA SemResets ==
    ASSUME NEW U, NEW C, NEW s, Settled(U, C, s), "RESET" \in U, NEW o \in C, o \in Objects,
           Counted(s, o), NEW n \in Nat
    PROVE  /\ Settled(U, C, SemResetI(s, o, n)) /\ Reset(s, o, n, SemResetI(s, o, n))
           /\ Counted(SemResetI(s, o, n), o)
<1> DEFINE q == s.queue[o]
           wake == IF s.cnt[o] < 0 THEN -s.cnt[o] ELSE 0
           back == Reverse(SubSeq(q, Len(q) - wake + 1, Len(q)))
           kept == [s EXCEPT !.cnt[o] = n, !.queue[o] = SubSeq(q, 1, Len(q) - wake)]
           c == [s.cnt EXCEPT ![o] = n]
           r == ReadyAll(Requeued(s, c, o, <<>>), back)
<1>1. /\ s \in KernelStates(U, C) /\ Queue(q, Threads) /\ Len(q) \in Nat /\ Len(q) = wake
      /\ s.cnt \in [C -> Int] /\ s.queue \in [Objects -> Seq(Threads)] /\ q \in Seq(Threads)
  BY DEF Settled, KernelStates, Placed, QueuesSound, Counted, Queue
<1>2. SemResetI(s, o, n) = ReadyAll(kept, back)
  BY DEF SemResetI, ReadyAll
<1> HIDE DEF q, wake
<1>3. SubSeq(q, 1, Len(q) - wake) = <<>>
  <2>1. Len(q) - wake = 0
    BY <1>1
  <2>2. QED
    BY <1>1, <2>1
<1>4. SubSeq(q, Len(q) - wake + 1, Len(q)) = q
  <2>1. Len(q) - wake + 1 = 1
    BY <1>1
  <2>2. QED
    BY <1>1, <2>1
<1>5. kept = Requeued(s, c, o, <<>>)
  BY <1>1, <1>3 DEF Requeued, KernelStates
<1>6. Queue(back, Threads) /\ ToSet(back) = ToSet(q)
  BY <1>1, <1>4, ReversedQueue
<1>7. c \in [C -> Int] /\ c[o] = n
  BY <1>1
<1> HIDE DEF c, back, kept
<1>8. /\ Settled(U, C, r) /\ LetGone(s, r, ToSet(back), "RESET") /\ r.current = s.current
      /\ r.cnt = c /\ r.queue = [s.queue EXCEPT ![o] = <<>>]
      /\ \A t \in ToSet(back) : ~Runs(s, t) /\ s.state[t] \in WaitStates /\ s.u[t] = o
  <2>1. /\ Settled(U, C, s) /\ "RESET" \in U /\ o \in Objects /\ c \in [C -> Int]
        /\ Queue(back, Threads) /\ ToSet(back) = ToSet(s.queue[o])
    BY <1>6, <1>7 DEF q
  <2>2. QED
    BY ONLY <2>1, AllLetGo, SMTT(40) DEF r
<1> HIDE DEF r
<1>9. SemResetI(s, o, n) = r
  BY <1>2, <1>5 DEF r
<1>10. Counted(r, o)
  <2>1. r.queue[o] = <<>> /\ r.cnt[o] = n /\ Len(<<>>) = 0
    BY <1>1, <1>7, <1>8
  <2>2. QED
    BY <2>1 DEF Counted
<1>11. Reset(s, o, n, r)
  BY <1>6, <1>8 DEF Reset, c, q
<1>12. QED
  BY <1>8, <1>9, <1>10, <1>11

(* What is common to all that lets threads go: those that could run still  *)
(* can, and those that still sleep, sleep on what they slept on.           *)
Released(s, r) ==
    /\ r.prio = s.prio
    /\ \A t \in Threads :
         /\ Runs(s, t) => Runs(r, t) /\ r.u[t] = s.u[t]
         /\ ~Runs(r, t) => r.state[t] = s.state[t] /\ r.u[t] = s.u[t]
         /\ Armed(r, t) => Armed(s, t)

LEMMA Releases ==
    ASSUME NEW s, NEW r
    PROVE  /\ \A x : Released(s, x) /\ Released(x, r) => Released(s, r)
           /\ SameThreads(s, r) => Released(s, r)
           /\ Unmoved(s, r) /\ (\A t \in Threads : Armed(r, t) => Armed(s, t)) => Released(s, r)
           /\ \A C : TimesOut(C, s, r) => Released(s, r)
<1>1. SameThreads(s, r) => Released(s, r)
  BY DEF SameThreads, Released, Kept, Armed
<1>2. Unmoved(s, r) /\ (\A t \in Threads : Armed(r, t) => Armed(s, t)) => Released(s, r)
  BY DEF Unmoved, Released, Runs
<1>3. ASSUME NEW C, TimesOut(C, s, r) PROVE Released(s, r)
  BY <1>3 DEF TimesOut, Released
<1>4. \A x : Released(s, x) /\ Released(x, r) => Released(s, r)
  BY DEF Released
<1>5. QED
  BY <1>1, <1>2, <1>3, <1>4

LEMMA LetGoneReleases ==
    ASSUME NEW s, NEW r, NEW W, NEW msg, LetGone(s, r, W, msg), \A w \in W : ~Runs(s, w)
    PROVE  Released(s, r)
<1>1. \A t \in Threads : Runs(s, t) => t \notin W
  OBVIOUS
<1>2. \A t \in Threads : t \notin W => r.u[t] = s.u[t]
  BY DEF LetGone
<1>3. QED
  BY <1>1, <1>2 DEF LetGone, Released, Armed

\* The other objects are as they were.
OnlyAt(s, r, o) ==
    /\ \A x \in Objects \ {o} : r.queue[x] = s.queue[x]
    /\ DOMAIN r.cnt = DOMAIN s.cnt /\ \A x \in DOMAIN s.cnt \ {o} : r.cnt[x] = s.cnt[x]

LEMMA SignalledReleases ==
    ASSUME NEW U, NEW C, NEW s, Settled(U, C, s), NEW o \in C, o \in Objects, NEW r,
           Signalled(s, o, r)
    PROVE  Released(s, r) /\ OnlyAt(s, r, o) /\ Counted(r, o) /\ r.cnt[o] = s.cnt[o] + 1
<1>1. /\ s.cnt \in [C -> Int] /\ s.queue \in [Objects -> Seq(Threads)]
      /\ r.cnt = [s.cnt EXCEPT ![o] = @ + 1] /\ Counted(r, o)
  BY DEF Settled, KernelStates, Signalled
<1>2. r.cnt[o] = s.cnt[o] + 1 /\ DOMAIN r.cnt = C /\ \A x \in C \ {o} : r.cnt[x] = s.cnt[x]
  BY <1>1
<1>3. CASE s.cnt[o] >= 0
  <2>1. r.queue = s.queue /\ LetGone(s, r, {}, "OK")
    BY <1>3 DEF Signalled
  <2>2. Released(s, r)
    BY <2>1, LetGoneReleases
  <2>3. QED
    BY <1>1, <1>2, <2>1, <2>2 DEF OnlyAt
<1>4. CASE s.cnt[o] < 0
  <2> DEFINE w == Head(s.queue[o])
  <2>1. /\ ~Runs(s, w) /\ r.queue = [s.queue EXCEPT ![o] = Tail(@)] /\ LetGone(s, r, {w}, "OK")
    BY <1>4 DEF Signalled
  <2> HIDE DEF w
  <2>2. Released(s, r)
    BY <2>1, LetGoneReleases
  <2>3. \A x \in Objects \ {o} : r.queue[x] = s.queue[x]
    BY <1>1, <2>1
  <2>4. QED
    BY <1>1, <1>2, <2>2, <2>3 DEF OnlyAt
<1>5. QED
  BY <1>1, <1>3, <1>4

LEMMA ResetReleases ==
    ASSUME NEW U, NEW C, NEW s, Settled(U, C, s), NEW o \in C, o \in Objects, NEW n \in Nat,
           NEW r, Reset(s, o, n, r)
    PROVE  Released(s, r) /\ OnlyAt(s, r, o) /\ r.cnt[o] = n
<1>1. /\ s.cnt \in [C -> Int] /\ s.queue \in [Objects -> Seq(Threads)]
  BY DEF Settled, KernelStates
<1>2. Released(s, r)
  BY LetGoneReleases DEF Reset
<1>3. /\ r.cnt = [s.cnt EXCEPT ![o] = n] /\ r.queue = [s.queue EXCEPT ![o] = <<>>]
  BY DEF Reset
<1>4. QED
  BY <1>1, <1>2, <1>3 DEF OnlyAt

\* Whatever holds of the kernel and is kept by a signal holds after n.
LEMMA SignalTimes ==
    ASSUME NEW R, NEW o, NEW n \in Nat, NEW s \in R, \A x \in R : SemSignalI(x, o) \in R
    PROVE  SemAddCounterI(s, o, n) \in R
<1> DEFINE q == [i \in 1..n |-> i]
           st == [p \in R \X (1..n) |-> SemSignalI(p[1], o)]
           Def(f) == f = [e \in SUBSET DOMAIN q |->
                            IF e = {} THEN s ELSE SemSignalI(f[e \ {Max(e)}], o)]
           iter == CHOOSE f : Def(f)
           Rs == [m \in 0..n |-> R]
<1>1. DOMAIN q = 1..n
  OBVIOUS
<1>2. st \in [R \X (1..n) -> R]
  OBVIOUS
<1>3. PICK g : Folds(g, R, st, s, n)
  BY <1>2, FoldExists
<1>4. Def(g)
  <2>1. ASSUME NEW e \in SUBSET (1..n), e # {} PROVE Max(e) \in 1..n /\ e \ {Max(e)} \in SUBSET (1..n)
    BY <2>1, MaxIn
  <2>2. ASSUME NEW e \in SUBSET (1..n), e # {} PROVE g[e] = SemSignalI(g[e \ {Max(e)}], o)
    <3>1. g[e \ {Max(e)}] \in R
      BY <1>3, <2>1, <2>2 DEF Folds
    <3>2. g[e] = st[<<g[e \ {Max(e)}], Max(e)>>]
      BY <1>3, <2>2 DEF Folds
    <3>3. QED
      BY <2>1, <2>2, <3>1, <3>2
  <2>3. g[{}] = s
    BY <1>3 DEF Folds
  <2>4. g = [e \in SUBSET (1..n) |-> g[e]]
    BY <1>3 DEF Folds
  <2>5. QED
    BY <1>1, <2>2, <2>3, <2>4
<1>5. Def(iter)
  BY <1>4
<1>6. SemAddCounterI(s, o, n) = iter[DOMAIN q]
  BY DEF SemAddCounterI, FoldLeft, MapThenFoldSet
<1> HIDE DEF iter, q
<1>7. ASSUME NEW m \in 1..n, iter[1..(m - 1)] \in R PROVE iter[1..m] \in R
  <2>1. Max(1..m) = m /\ (1..m) \ {m} = 1..(m - 1) /\ 1..m # {} /\ 1..m \in SUBSET (1..n)
    BY UpTo
  <2>2. iter[1..m] = SemSignalI(iter[1..(m - 1)], o)
    BY <1>1, <1>5, <2>1
  <2>3. QED
    BY <1>7, <2>2
<1>8. iter[{}] = s
  BY <1>1, <1>5
<1>9. iter[1..n] \in R
  <2>1. iter[{}] \in Rs[0]
    BY <1>8
  <2>2. \A m \in 1..n : iter[1..(m - 1)] \in Rs[m - 1] => iter[1..m] \in Rs[m]
    BY <1>7
  <2> HIDE DEF Rs
  <2>3. iter[1..n] \in Rs[n]
    BY <2>1, <2>2, Chain
  <2>4. QED
    BY <2>3 DEF Rs
<1>10. QED
  BY <1>1, <1>6, <1>9

LEMMA SemAdds ==
    ASSUME NEW U, NEW C, NEW s, Settled(U, C, s), "OK" \in U, NEW o \in C, o \in Objects,
           Counted(s, o), NEW n \in Nat
    PROVE  LET r == SemAddCounterI(s, o, n) IN
           /\ Settled(U, C, r) /\ r.current = s.current
           /\ Released(s, r) /\ OnlyAt(s, r, o) /\ Counted(r, o)
<1> DEFINE R == {x \in KernelStates(U, C) :
                   /\ Settled(U, C, x) /\ x.current = s.current
                   /\ Released(s, x) /\ OnlyAt(s, x, o) /\ Counted(x, o)}
<1>1. s \in R
  BY DEF Settled, Released, OnlyAt
<1>2. ASSUME NEW x \in R PROVE SemSignalI(x, o) \in R
  <2> DEFINE y == SemSignalI(x, o)
  <2>1. Settled(U, C, x) /\ Counted(x, o) /\ Released(s, x) /\ OnlyAt(s, x, o) /\ x.current = s.current
    OBVIOUS
  <2>2. Settled(U, C, y) /\ Signalled(x, o, y) /\ y.current = x.current
    BY <2>1, Signals
  <2> HIDE DEF y, R
  <2>3. Released(x, y) /\ OnlyAt(x, y, o) /\ Counted(y, o)
    BY <2>1, <2>2, SignalledReleases
  <2>4. Released(s, y)
    BY <2>1, <2>3, Releases
  <2>5. OnlyAt(s, y, o)
    BY <2>1, <2>3 DEF OnlyAt
  <2>6. y \in KernelStates(U, C)
    BY <2>2 DEF Settled
  <2>7. QED
    BY <2>1, <2>2, <2>3, <2>4, <2>5, <2>6 DEF R, y
<1> HIDE DEF R
<1>3. SemAddCounterI(s, o, n) \in R
  BY <1>1, <1>2, SignalTimes
<1>4. QED
  BY <1>3 DEF R

LEMMA NothingQueued ==
    /\ Queue(<<>>, Threads) /\ ToSet(<<>>) = {} /\ Len(<<>>) = 0
    /\ <<>> \in Seq(Threads) /\ DOMAIN <<>> = {}
    /\ <<>> \in Seq([par : Threads, time : Int]) /\ Pars(<<>>) = <<>>
<1>1. <<>> \in Seq(Threads) /\ DOMAIN <<>> = {} /\ Len(<<>>) = 0 /\ <<>> \in Seq(Timers)
  OBVIOUS
<1>2. IsInjective(<<>>)
  BY <1>1 DEF IsInjective
<1>3. Pars(<<>>) \in Seq(Threads) /\ Len(Pars(<<>>)) = 0
  BY <1>1, ParsOfTimers
<1>4. QED
  BY <1>1, <1>2, <1>3, QueueSet, EmptySeq DEF Queue, Timers

\* Where the kernel starts: nobody waits, the most urgent thread runs.
Started(U, C, ready, cur, cnt, s) ==
    /\ Settled(U, C, s) /\ TopRuns(s)
    /\ \A t \in Threads :
         /\ ~Armed(s, t) /\ s.u[t] = "OK"
         /\ s.state[t] = IF t = cur THEN "CURRENT" ELSE IF t \in ToSet(ready) THEN "READY" ELSE None
    /\ s.current = cur /\ s.cnt = cnt /\ s.queue = [o \in Objects |-> <<>>]

LEMMA StartsSettled ==
    ASSUME NEW U, "OK" \in U, NEW C, NEW ready, NEW cur \in Threads, NEW prio, NEW cnt \in [C -> Int],
           Queue(ready, Threads), cur \notin ToSet(ready),
           prio \in [Threads -> Nat \ {0}], Falling(ready, prio),
           \A t \in ToSet(ready) : prio[t] <= prio[cur]
    PROVE  Started(U, C, ready, cur, cnt, InitialState(prio, ready, cur, cnt))
<1> DEFINE s == InitialState(prio, ready, cur, cnt)
           state == [t \in Threads |-> IF t = cur THEN "CURRENT"
                                       ELSE IF t \in ToSet(ready) THEN "READY" ELSE None]
<1>1. /\ s.current = cur /\ s.ready = ready /\ s.state = state /\ s.prio = prio
      /\ s.preempt = [t \in Threads |-> Quantum] /\ s.u = [t \in Threads |-> "OK"]
      /\ s.queue = [o \in Objects |-> <<>>] /\ s.cnt = cnt /\ s.vt = <<>>
      /\ s.due = [t \in Threads |-> 0]
      /\ s = [current |-> cur, ready |-> ready, state |-> state, prio |-> prio,
              preempt |-> [t \in Threads |-> Quantum], u |-> [t \in Threads |-> "OK"],
              queue |-> [o \in Objects |-> <<>>], cnt |-> cnt, vt |-> <<>>,
              due |-> [t \in Threads |-> 0]]
  BY DEF InitialState
<1>2. /\ state \in [Threads -> States]
      /\ \A t \in Threads :
            state[t] = IF t = cur THEN "CURRENT" ELSE IF t \in ToSet(ready) THEN "READY" ELSE None
  BY DEF States
<1> HIDE DEF state, s
<1>3. s \in KernelStates(U, C)
  <2>1. /\ [t \in Threads |-> Quantum] \in [Threads -> Nat]
        /\ [t \in Threads |-> "OK"] \in [Threads -> U]
        /\ [t \in Threads |-> 0] \in [Threads -> Int]
    BY SchdAssumption
  <2>2. [o \in Objects |-> <<>>] \in [Objects -> Seq(Threads)]
    BY NothingQueued
  <2>3. <<>> \in Seq([par : Threads, time : Int]) /\ ready \in Seq(Threads)
    BY NothingQueued DEF Queue
  <2>4. QED
    BY <1>1, <1>2, <2>1, <2>2, <2>3 DEF KernelStates
<1>4. Placed(s)
  <2>1. QueuesSound(s)
    BY <1>1, NothingQueued DEF QueuesSound
  <2>2. ASSUME NEW t \in Threads PROVE ThreadPlaced(s, t)
    <3>1. /\ s.state[t] = "CURRENT" <=> t = cur
          /\ s.state[t] = "READY" <=> t \in ToSet(ready)
          /\ s.state[t] \notin WaitStates
      BY <1>1, <1>2 DEF WaitStates, None
    <3>2. \A o \in Objects : t \notin ToSet(s.queue[o])
      BY <1>1, NothingQueued
    <3>3. QED
      BY <1>1, <3>1, <3>2 DEF ThreadPlaced
  <2>3. QED
    BY <2>1, <2>2 DEF Placed
<1>5. Queue(Pars(s.vt), Threads) /\ \A t \in Threads : ~Armed(s, t)
  BY <1>1, NothingQueued DEF Armed
<1>6. Sorted(s)
  BY <1>1 DEF Sorted
<1>7. OnTime(s)
  <2>1. Len(s.vt) = 0 /\ 1..0 = {}
    BY <1>1, NothingQueued
  <2>2. QED
    BY <2>1 DEF OnTime
<1>8. TopRuns(s)
  BY <1>1 DEF TopRuns
<1>9. QED
  BY <1>1, <1>2, <1>3, <1>4, <1>5, <1>6, <1>7, <1>8 DEF Started, Settled, s

\* The properties of the scheduler that the runs check.
LEMMA SettledIsSound ==
    ASSUME NEW U, NEW C, Settled(U, C, k), TopRuns(k)
    PROVE  PlacesOK /\ HighestRuns /\ TimersOnTime
<1>1. k \in KernelStates(U, C) /\ Placed(k) /\ OnTime(k) /\ Queue(Pars(k.vt), Threads)
  BY DEF Settled
<1>2. PlacesOK
  BY <1>1 DEF PlacesOK, Placed, QueuesSound, ThreadPlaced, Queue, KernelStates
<1>3. ASSUME NEW i \in DOMAIN k.ready PROVE k.prio[k.ready[i]] <= k.prio[k.current]
  <2>1. k.ready \in Seq(Threads)
    BY <1>1 DEF KernelStates
  <2>2. k.ready[i] \in ToSet(k.ready)
    BY <2>1, QueueSet
  <2>3. QED
    BY <2>2 DEF TopRuns
<1>4. k.vt \in Seq(Timers) /\ TimerState(k)
  BY <1>1 DEF KernelStates, Timers, TimerState
<1>5. /\ DOMAIN k.vt = 1..Len(k.vt) /\ Len(k.vt) \in Nat
      /\ k.vt # <<>> => Len(k.vt) > 0
  BY <1>4, QueueSet
<1>6. ASSUME NEW i \in 1..Len(k.vt)
      PROVE  k.vt[i].time >= 0 /\ k.due[k.vt[i].par] = TicksBefore(k.vt, i + 1)
  <2>1. i \in 0..Len(k.vt) /\ Due(k, i) = k.due[k.vt[i].par]
    BY <1>4, <1>5, TimerFacts
  <2>2. Due(k, i) = TicksBefore(k.vt, i + 1)
    BY <1>1, <1>4, <2>1, OnTimeAddsUp
  <2>3. QED
    BY <1>1, <2>1, <2>2 DEF OnTime
<1>7. IsInjective([i \in DOMAIN k.vt |-> k.vt[i].par])
  BY <1>1 DEF Queue, Pars
<1>8. TimersOnTime
  BY <1>1, <1>5, <1>6, <1>7 DEF TimersOnTime, OnTime
<1>9. QED
  BY <1>2, <1>3, <1>8 DEF HighestRuns
=============================================================================
